--------------------- MODULE FilesystemPublicationProofs ---------------------
(***************************************************************************)
(* Proofs about FilesystemPublication, for any number of operations,       *)
(* processes, names and inodes: what readers of the directory can see,     *)
(* what stays recoverable and what may be lost.                            *)
(***************************************************************************)
EXTENDS FilesystemPublication, FiniteSetTheorems, TLAPS

LEMMA AreaFacts ==
    ASSUME NEW o \in Ops
    PROVE  /\ KindOf[o] \in {"mkdir", "copy", "trash", "write"}
           /\ AreaOf(o) \in Areas
           /\ KindOf[o] = "mkdir" <=> AreaOf(o) = "staging"
           /\ KindOf[o] \in {"copy", "write"} <=> AreaOf(o) = "write"
           /\ KindOf[o] = "trash" <=> AreaOf(o) = "trash"
<1>1. KindOf[o] \in {"mkdir", "copy", "trash", "write"}
  BY PublicationAssumption
<1>2. CASE KindOf[o] = "mkdir"
  BY <1>2 DEF AreaOf, Areas
<1>3. CASE KindOf[o] \in {"copy", "write"}
  BY <1>3 DEF AreaOf, Areas
<1>4. CASE KindOf[o] = "trash"
  BY <1>4 DEF AreaOf, Areas
<1> QED BY <1>1, <1>2, <1>3, <1>4

-----------------------------------------------------------------------------
(* Steps seen by the other operations *)

\* A step of operation o (or of nobody's) that takes at most the inode x out of
\* a hidden area, as the other operations see it.
Frame(o, x) ==
    /\ \A q \in Ops \ {o} :
          /\ pc'[q] = pc[q] /\ seen'[q] = seen[q]
          /\ staged'[q] = staged[q] /\ retained'[q] = retained[q]
          /\ q \in published' <=> q \in published
          /\ \A a \in Areas : flock[a] = q => flock'[a] = q
          /\ pc[q] = "opened" => Cardinality(hidden'[AreaOf(q)]) < MaxArtifacts
          /\ Unpublished(q) => staged[q] # x
          /\ Unpublished(q) /\ o \in Ops => retained'[o] # staged[q]
          /\ retained[q] # None => retained[q] # x
    /\ \A a \in Areas : hidden[a] \ {x} \subseteq hidden'[a]
    /\ \A a \in Areas : \A i \in hidden[a] \ {x} : data'[i] = data[i]
    /\ \A i \in Inodes : data[i] # "free" => data'[i] # "free" /\ maker'[i] = maker[i]

LEMMA OtherOps ==
    ASSUME IInv, NEW o, NEW x, Frame(o, x), NEW q \in Ops \ {o}
    PROVE  OpInv(q)'
<1>1. /\ pc'[q] = pc[q] /\ seen'[q] = seen[q]
      /\ staged'[q] = staged[q] /\ retained'[q] = retained[q]
      /\ q \in published' <=> q \in published
  BY DEF Frame
<1>2. OpInv(q) /\ AreaOf(q) \in Areas /\ AreaOf(q)' = AreaOf(q) /\ Replaces(q)' = Replaces(q)
  BY <1>1, AreaFacts DEF IInv, AreaOf, Replaces
<1>3. staged[q] \in Inodes \cup {None} /\ None \notin Inodes
  BY PublicationAssumption DEF IInv, TypeOK
<1>4. Unpublished(q)' <=> Unpublished(q)
  BY <1>1 DEF Unpublished
<1>5. StagingKept(q)'
  <2>1. staged[q] # None => data'[staged[q]] # "free" /\ maker'[staged[q]] = q
    BY <1>2, <1>3 DEF Frame, OpInv, StagingKept
  <2>2. ASSUME Unpublished(q)
        PROVE  /\ staged[q] \in hidden'[AreaOf(q)] /\ data'[staged[q]] = data[staged[q]]
               /\ \A p \in Ops : retained'[p] # staged[q]
    <3>1. staged[q] \in hidden[AreaOf(q)] /\ \A p \in Ops : retained[p] # staged[q]
      BY <1>2, <2>2 DEF OpInv, StagingKept
    <3>2. staged[q] # x /\ (o \in Ops => retained'[o] # staged[q])
      BY <2>2 DEF Frame
    <3>3. staged[q] \in hidden'[AreaOf(q)] /\ data'[staged[q]] = data[staged[q]]
      BY <1>2, <3>1, <3>2 DEF Frame
    <3>4. \A p \in Ops \ {o} : retained'[p] # staged[q]
      BY <3>1 DEF Frame
    <3> QED BY <3>2, <3>3, <3>4
  <2> QED BY <1>1, <1>2, <1>4, <2>1, <2>2 DEF StagingKept, OpInv
<1>6. RetentionKept(q)'
  <2>1. ASSUME retained[q] # None
        PROVE  retained[q] \in hidden'[AreaOf(q)] /\ data'[retained[q]] = data[retained[q]]
    <3>1. retained[q] \in hidden[AreaOf(q)] /\ retained[q] # x
      BY <1>2, <2>1 DEF Frame, OpInv, RetentionKept
    <3> QED BY <1>2, <3>1 DEF Frame
  <2>2. ASSUME pc[q] = "ok", KindOf[q] = "trash" PROVE retained[q] # None
    BY <1>2, <2>2 DEF OpInv, RetentionKept
  <2> QED BY <1>1, <1>2, <2>1, <2>2 DEF OpInv, RetentionKept
<1>7. LockKept(q)'
  BY <1>1, <1>2 DEF Frame, OpInv, LockKept
<1>8. KindKept(q)'
  BY <1>1, <1>2 DEF OpInv, KindKept
<1> QED BY <1>5, <1>6, <1>7, <1>8 DEF OpInv

-----------------------------------------------------------------------------
(* Steps that leave the directory alone *)

\* A step of operation o that changes no name and no contents keeps the
\* invariant, if it leaves the operation itself in order.
LEMMA ControlStep ==
    ASSUME IInv, NEW o \in Ops, UNCHANGED <<fsVars, staged, retained, published, outside>>,
           NEW step \in Steps, pc' = [pc EXCEPT ![o] = step],
           publication' \in [Processes -> Ops \cup {None}],
           flock' \in [Areas -> Ops \cup {None}],
           \A q \in Ops \ {o} : \A a \in Areas : flock[a] = q => flock'[a] = q,
           seen' \in [Ops -> [inode : Inodes \cup {None}, data : Contents]],
           \A q \in Ops \ {o} : seen'[q] = seen[q],
           OpInv(o)'
    PROVE  IInv'
<1>1. /\ pc \in [Ops -> Steps] /\ retained \in [Ops -> Inodes \cup {None}]
      /\ UNCHANGED <<dir, hidden, data, maker, staged, retained, published, outside>>
  BY DEF IInv, TypeOK, fsVars
<1>2. TypeOK'
  BY <1>1 DEF IInv, TypeOK
<1>3. /\ Placed' /\ QuarantinesBounded' /\ PublicNeverPartial'
      /\ \A a \in Areas : IsFiniteSet(hidden'[a])
  BY <1>1 DEF IInv, Placed, QuarantinesBounded, PublicNeverPartial
<1>4. ASSUME NEW q \in Ops, q # o PROVE OpInv(q)'
  <2>1. Frame(o, None)
    <3>1. ASSUME NEW p \in Ops \ {o}
          PROVE  /\ pc'[p] = pc[p] /\ seen'[p] = seen[p]
                 /\ staged'[p] = staged[p] /\ retained'[p] = retained[p]
                 /\ p \in published' <=> p \in published
                 /\ \A a \in Areas : flock[a] = p => flock'[a] = p
                 /\ pc[p] = "opened" => Cardinality(hidden'[AreaOf(p)]) < MaxArtifacts
                 /\ Unpublished(p) => staged[p] # None
                 /\ Unpublished(p) /\ o \in Ops => retained'[o] # staged[p]
                 /\ retained[p] # None => retained[p] # None
      <4>1. OpInv(p) /\ AreaOf(p) \in Areas
        BY AreaFacts DEF IInv
      <4>2. pc[p] = "opened" => Cardinality(hidden'[AreaOf(p)]) < MaxArtifacts
        BY <1>1, <4>1 DEF OpInv, LockKept
      <4>3. Unpublished(p) => staged[p] # None /\ retained'[o] # staged[p]
        <5>1. hidden[AreaOf(p)] \subseteq Inodes /\ None \notin Inodes
          BY <4>1, PublicationAssumption DEF IInv, TypeOK
        <5> QED BY <1>1, <4>1, <5>1 DEF OpInv, StagingKept
      <4>4. pc'[p] = pc[p]
        BY <1>1
      <4> QED BY <1>1, <4>2, <4>3, <4>4
    <3> QED BY <1>1, <3>1 DEF Frame
  <2> QED BY <1>4, <2>1, OtherOps
<1> QED BY <1>2, <1>3, <1>4 DEF IInv

\* What a step that leaves the directory alone can disturb of its operation.
LEMMA ControlOp ==
    ASSUME IInv, NEW o \in Ops, UNCHANGED <<fsVars, staged, retained, published>>,
           NEW step \in Steps, pc' = [pc EXCEPT ![o] = step],
           Unpublished(o)' => Unpublished(o) /\ (pc'[o] \in {"staged", "checked"} => pc[o] \in {"staged", "checked"}),
           step \notin {"moved", "ok"}, LockKept(o)', KindKept(o)'
    PROVE  OpInv(o)'
<1>1. /\ pc'[o] = step /\ AreaOf(o)' = AreaOf(o) /\ OpInv(o)
      /\ UNCHANGED <<dir, hidden, data, maker, staged, retained, published>>
  BY DEF IInv, TypeOK, fsVars, AreaOf
<1>2. StagingKept(o)'
  BY <1>1 DEF OpInv, StagingKept
<1>3. RetentionKept(o)'
  BY <1>1 DEF OpInv, RetentionKept
<1> QED BY <1>2, <1>3 DEF OpInv

\* The locks after a step that releases those of operation o.
LEMMA UnlockFacts ==
    ASSUME IInv, NEW o \in Ops, Unlock(o)
    PROVE  /\ publication' \in [Processes -> Ops \cup {None}]
           /\ flock' \in [Areas -> Ops \cup {None}]
           /\ \A q \in Ops \ {o} : \A a \in Areas : flock[a] = q => flock'[a] = q
<1>1. /\ publication \in [Processes -> Ops \cup {None}] /\ flock \in [Areas -> Ops \cup {None}]
      /\ ProcessOf[o] \in Processes
  BY PublicationAssumption DEF IInv, TypeOK
<1> QED BY <1>1 DEF Unlock

\* A call that ends.
LEMMA EndFailed == ASSUME IInv, NEW o \in Ops, End(o, "failed") PROVE IInv'
<1>1. /\ pc' = [pc EXCEPT ![o] = "failed"] /\ Unlock(o)
      /\ UNCHANGED <<fsVars, seen, staged, retained, published, outside>>
  BY DEF End, Goto
<1>2. "failed" \in Steps /\ pc'[o] = "failed"
  BY <1>1 DEF IInv, TypeOK, Steps
<1>3. OpInv(o)'
  BY <1>1, <1>2, ControlOp DEF Unpublished, LockKept, KindKept, Locking
<1>4. /\ publication' \in [Processes -> Ops \cup {None}] /\ flock' \in [Areas -> Ops \cup {None}]
      /\ \A q \in Ops \ {o} : \A a \in Areas : flock[a] = q => flock'[a] = q
  BY <1>1, UnlockFacts
<1>5. seen' = seen /\ seen \in [Ops -> [inode : Inodes \cup {None}, data : Contents]]
  BY <1>1 DEF IInv, TypeOK
<1> QED BY <1>1, <1>2, <1>3, <1>4, <1>5, ControlStep

\* An error after something was staged.
LEMMA FailStep ==
    ASSUME IInv, NEW o \in Ops, Fail(o), pc[o] \in {"created", "staged", "moved"},
           pc[o] = "moved" /\ KindOf[o] \in {"mkdir", "copy"} => o \in published
    PROVE  IInv'
<1>1. CASE KindOf[o] \notin {"mkdir", "copy"}
  BY <1>1, EndFailed DEF Fail
<1>2. CASE KindOf[o] \in {"mkdir", "copy"}
  <2>1. /\ pc' = [pc EXCEPT ![o] = "failing"]
        /\ UNCHANGED <<fsVars, lockVars, seen, staged, retained, published, outside>>
    BY <1>2 DEF Fail, Goto
  <2>2. "failing" \in Steps /\ pc'[o] = "failing" /\ OpInv(o)
    BY <2>1 DEF IInv, TypeOK, Steps
  <2>3. Unpublished(o)' => Unpublished(o)
    BY <1>2, <2>1, <2>2 DEF Unpublished
  <2>4. LockKept(o)'
    BY <2>1, <2>2 DEF OpInv, LockKept, Locking, lockVars, AreaOf
  <2>5. KindKept(o)'
    BY <1>2, <2>2 DEF KindKept
  <2>6. OpInv(o)'
    BY <2>1, <2>2, <2>3, <2>4, <2>5, ControlOp
  <2>7. UNCHANGED <<publication, flock>>
        /\ seen' = seen /\ seen \in [Ops -> [inode : Inodes \cup {None}, data : Contents]]
        /\ publication \in [Processes -> Ops \cup {None}] /\ flock \in [Areas -> Ops \cup {None}]
    BY <2>1 DEF IInv, TypeOK, lockVars
  <2> QED BY <2>1, <2>2, <2>6, <2>7, ControlStep
<1> QED BY <1>1, <1>2

\* A step before the grant is spent.
LEMMA EarlyStep ==
    ASSUME IInv, NEW o \in Ops, UNCHANGED <<fsVars, staged, retained, published, outside>>,
           NEW step \in {"prepared", "locked", "validated", "authorized", "failed"},
           pc' = [pc EXCEPT ![o] = step],
           publication' \in [Processes -> Ops \cup {None}],
           flock' \in [Areas -> Ops \cup {None}],
           \A q \in Ops \ {o} : \A a \in Areas : flock[a] = q => flock'[a] = q,
           seen' \in [Ops -> [inode : Inodes \cup {None}, data : Contents]],
           \A q \in Ops \ {o} : seen'[q] = seen[q]
    PROVE  IInv'
<1>1. step \in Steps /\ pc'[o] = step
  BY DEF IInv, TypeOK, Steps
<1>2. OpInv(o)'
  <2>1. ~Unpublished(o)' /\ LockKept(o)' /\ KindKept(o)'
    BY <1>1 DEF Unpublished, LockKept, KindKept, Locking
  <2> QED BY <1>1, <2>1, ControlOp
<1> QED BY <1>1, <1>2, ControlStep

LEMMA LockTypes ==
    ASSUME IInv
    PROVE  /\ publication \in [Processes -> Ops \cup {None}] /\ flock \in [Areas -> Ops \cup {None}]
           /\ seen \in [Ops -> [inode : Inodes \cup {None}, data : Contents]]
BY DEF IInv, TypeOK

LEMMA PrepareStep == ASSUME IInv, NEW o \in Ops, Prepare(o) PROVE IInv'
<1>1. UNCHANGED <<publication, flock, fsVars, staged, retained, published, outside>>
  BY DEF Prepare, lockVars
<1>2. CASE seen' = [seen EXCEPT ![o] = Identity(Subject(o))] /\ Goto(o, "prepared")
  <2>1. Subject(o) \in Inodes \cup {None}
    <3>1. dir \in [Names -> Inodes \cup {None}] /\ TargetOf[o] \in Names /\ SourceOf[o] \in Names
      BY PublicationAssumption DEF IInv, TypeOK
    <3> QED BY <3>1 DEF Subject, Target
  <2>2. Identity(Subject(o)) \in [inode : Inodes \cup {None}, data : Contents]
    <3>1. data \in [Inodes -> Contents] /\ "free" \in Contents
      BY DEF IInv, TypeOK, Contents
    <3> QED BY <2>1, <3>1 DEF Identity
  <2>3. /\ seen' \in [Ops -> [inode : Inodes \cup {None}, data : Contents]]
        /\ \A q \in Ops \ {o} : seen'[q] = seen[q]
    BY <1>2, <2>2, LockTypes
  <2> QED BY <1>1, <1>2, <2>3, LockTypes, EarlyStep DEF Goto
<1>3. CASE Goto(o, "failed") /\ UNCHANGED seen
  BY <1>1, <1>3, LockTypes, EarlyStep DEF Goto
<1> QED BY <1>2, <1>3 DEF Prepare

LEMMA LockPublicationStep == ASSUME IInv, NEW o \in Ops, LockPublication(o) PROVE IInv'
<1>1. /\ UNCHANGED <<flock, fsVars, seen, staged, retained, published, outside>>
      /\ publication' = [publication EXCEPT ![ProcessOf[o]] = o]
      /\ pc' = [pc EXCEPT ![o] = "locked"]
  BY DEF LockPublication, Goto
<1>2. publication' \in [Processes -> Ops \cup {None}]
  BY <1>1, LockTypes
<1> QED BY <1>1, <1>2, LockTypes, EarlyStep

LEMMA RevalidateStep == ASSUME IInv, NEW o \in Ops, Revalidate(o) PROVE IInv'
<1>1. CASE End(o, "failed")
  BY <1>1, EndFailed
<1>2. CASE /\ KindOf[o] # "mkdir" => Lockable(o) /\ HasRoom(o)
           /\ \/ KindOf[o] = "trash" /\ flock' = [flock EXCEPT !["trash"] = o]
              \/ UNCHANGED flock
           /\ Goto(o, "validated")
           /\ UNCHANGED <<fsVars, publication, seen, staged, retained, published, outside>>
  <2>1. /\ flock' \in [Areas -> Ops \cup {None}]
        /\ \A q \in Ops \ {o} : \A a \in Areas : flock[a] = q => flock'[a] = q
    <3>1. CASE KindOf[o] = "trash" /\ flock' = [flock EXCEPT !["trash"] = o]
      <4>1. flock["trash"] \in {None, o} /\ None \notin Ops
        BY <1>2, <3>1, AreaFacts, PublicationAssumption DEF Lockable
      <4> QED BY <3>1, <4>1, LockTypes
    <3>2. CASE UNCHANGED flock
      BY <3>2, LockTypes
    <3> QED BY <1>2, <3>1, <3>2
  <2> QED BY <1>2, <2>1, LockTypes, EarlyStep DEF Goto
<1> QED BY <1>1, <1>2 DEF Revalidate

LEMMA AuthorizeStep == ASSUME IInv, NEW o \in Ops, Authorize(o) PROVE IInv'
<1>1. CASE End(o, "failed")
  BY <1>1, EndFailed
<1>2. CASE /\ Goto(o, "authorized")
           /\ UNCHANGED <<fsVars, lockVars, seen, staged, retained, published, outside>>
  BY <1>2, LockTypes, EarlyStep DEF Goto, lockVars
<1> QED BY <1>1, <1>2 DEF Authorize

LEMMA OpenQuarantineStep == ASSUME IInv, NEW o \in Ops, OpenQuarantine(o) PROVE IInv'
<1>1. CASE End(o, "failed")
  BY <1>1, EndFailed
<1>2. CASE /\ KindOf[o] # "mkdir" /\ Lockable(o) /\ HasRoom(o)
           /\ flock' = [flock EXCEPT ![AreaOf(o)] = o]
           /\ Goto(o, "opened")
           /\ UNCHANGED <<fsVars, publication, seen, staged, retained, published, outside>>
  <2>1. AreaOf(o) \in Areas /\ flock[AreaOf(o)] \in {None, o} /\ None \notin Ops
    BY <1>2, AreaFacts, PublicationAssumption DEF Lockable
  <2>2. /\ flock' \in [Areas -> Ops \cup {None}] /\ flock'[AreaOf(o)] = o
        /\ \A q \in Ops \ {o} : \A a \in Areas : flock[a] = q => flock'[a] = q
    BY <1>2, <2>1, LockTypes
  <2>3. "opened" \in Steps /\ pc' = [pc EXCEPT ![o] = "opened"] /\ pc'[o] = "opened"
    BY <1>2 DEF IInv, TypeOK, Steps, Goto
  <2>4. LockKept(o)'
    <3>1. Cardinality(hidden'[AreaOf(o)]) < MaxArtifacts
      BY <1>2 DEF HasRoom, fsVars
    <3>2. AreaOf(o)' = AreaOf(o)
      BY DEF AreaOf
    <3> QED BY <1>2, <2>2, <2>3, <3>1, <3>2 DEF LockKept
  <2>5. ~Unpublished(o)' /\ KindKept(o)'
    BY <2>3 DEF Unpublished, KindKept
  <2>6. OpInv(o)'
    BY <1>2, <2>3, <2>4, <2>5, ControlOp
  <2> QED BY <1>2, <2>2, <2>3, <2>6, LockTypes, ControlStep
<1> QED BY <1>1, <1>2 DEF OpenQuarantine

\* Looking at names again, before an exchange or a cleanup.
LEMMA LookStep ==
    ASSUME IInv, NEW o \in Ops, NEW step,
           \/ pc[o] = "staged" /\ Replaces(o) /\ step = "checked"
           \/ pc[o] = "failing" /\ step = "unlinking",
           Goto(o, step),
           UNCHANGED <<fsVars, lockVars, seen, staged, retained, published, outside>>
    PROVE  IInv'
<1>1. /\ step \in Steps /\ pc' = [pc EXCEPT ![o] = step] /\ pc'[o] = step
      /\ OpInv(o) /\ UNCHANGED <<publication, flock, hidden>>
  BY DEF IInv, TypeOK, Steps, Goto, lockVars, fsVars
<1>2. /\ Unpublished(o)' => Unpublished(o)
      /\ pc'[o] \in {"staged", "checked"} => pc[o] \in {"staged", "checked"}
      /\ step \notin {"moved", "ok"}
  BY <1>1 DEF Unpublished
<1>3. LockKept(o)'
  <2>1. AreaOf(o)' = AreaOf(o) /\ pc[o] \in Locking /\ step # "opened"
    BY DEF AreaOf, Locking
  <2> QED BY <1>1, <2>1 DEF OpInv, LockKept
<1>4. KindKept(o)'
  <2>1. CASE step = "checked"
    BY <1>1, <2>1 DEF KindKept, Replaces
  <2>2. CASE step = "unlinking"
    BY <1>1, <2>2 DEF OpInv, KindKept
  <2> QED BY <2>1, <2>2
<1>5. OpInv(o)'
  BY <1>1, <1>2, <1>3, <1>4, ControlOp
<1> QED BY <1>1, <1>5, LockTypes, ControlStep

LEMMA VerifyStep == ASSUME IInv, NEW o \in Ops, Verify(o) PROVE IInv'
<1>1. pc[o] = "moved" /\ OpInv(o)
  BY DEF Verify, IInv
<1>2. CASE Fail(o)
  BY <1>1, <1>2, FailStep DEF OpInv, KindKept
<1>3. CASE Verified(o) /\ End(o, "ok")
  <2>1. /\ pc' = [pc EXCEPT ![o] = "ok"] /\ Unlock(o)
        /\ UNCHANGED <<fsVars, seen, staged, retained, published, outside>>
    BY <1>3 DEF End, Goto
  <2>2. "ok" \in Steps /\ pc'[o] = "ok"
    BY <2>1 DEF IInv, TypeOK, Steps
  <2>3. ~Unpublished(o)' /\ LockKept(o)' /\ KindKept(o)'
    BY <2>2 DEF Unpublished, LockKept, KindKept, Locking
  <2>4. AreaOf(o)' = AreaOf(o) /\ Replaces(o)' = Replaces(o)
        /\ UNCHANGED <<hidden, data, maker, staged, retained, seen>>
    BY <2>1 DEF AreaOf, Replaces, fsVars
  <2>5. StagingKept(o)'
    BY <1>1, <2>3, <2>4 DEF OpInv, StagingKept
  <2>6. RetentionKept(o)'
    <3>1. Replaces(o) => KindOf[o] = "write"
      BY DEF Replaces
    <3>2. Replaces(o) => retained[o] = seen[o].inode
      BY <1>3, <3>1 DEF Verified, ReplaceVerified
    <3>3. KindOf[o] = "trash" => retained[o] = seen[o].inode /\ data[retained[o]] = seen[o].data
      BY <1>3, <3>1 DEF Verified, TrashVerified
    <3> QED BY <1>1, <2>2, <2>4, <3>2, <3>3 DEF OpInv, RetentionKept
  <2>7. OpInv(o)'
    BY <2>3, <2>5, <2>6 DEF OpInv
  <2> QED BY <2>1, <2>2, <2>7, LockTypes, UnlockFacts, ControlStep
<1> QED BY <1>2, <1>3 DEF Verify

-----------------------------------------------------------------------------
(* Steps that change the directory *)

\* Counting what a quarantine holds.
LEMMA Counting ==
    ASSUME NEW S, IsFiniteSet(S), NEW x, NEW y
    PROVE  /\ Cardinality(S) \in Nat
           /\ IsFiniteSet(S \ {x}) /\ Cardinality(S \ {x}) \in Nat
           /\ Cardinality(S \ {x}) <= Cardinality(S)
           /\ IsFiniteSet(S \cup {y}) /\ Cardinality(S \cup {y}) \in Nat
           /\ Cardinality(S \cup {y}) <= Cardinality(S) + 1
           /\ IsFiniteSet((S \ {x}) \cup {y}) /\ Cardinality((S \ {x}) \cup {y}) \in Nat
           /\ x \in S => Cardinality((S \ {x}) \cup {y}) <= Cardinality(S)
<1>1. Cardinality(S) \in Nat
  BY FS_CardinalityType
<1>2. /\ IsFiniteSet(S \ {x})
      /\ Cardinality(S \ {x}) = IF x \in S THEN Cardinality(S) - 1 ELSE Cardinality(S)
  BY FS_RemoveElement
<1>3. Cardinality(S \ {x}) \in Nat
  BY <1>2, FS_CardinalityType
<1>4. ASSUME NEW R, IsFiniteSet(R)
      PROVE  /\ IsFiniteSet(R \cup {y}) /\ Cardinality(R \cup {y}) \in Nat
             /\ Cardinality(R \cup {y}) <= Cardinality(R) + 1
  <2>1. /\ IsFiniteSet(R \cup {y})
        /\ Cardinality(R \cup {y}) = IF y \in R THEN Cardinality(R) ELSE Cardinality(R) + 1
    BY <1>4, FS_AddElement
  <2>2. Cardinality(R) \in Nat
    BY <1>4, FS_CardinalityType
  <2> QED BY <2>1, <2>2
<1>5. /\ IsFiniteSet(S \cup {y}) /\ Cardinality(S \cup {y}) \in Nat
      /\ Cardinality(S \cup {y}) <= Cardinality(S) + 1
  BY <1>4
<1>6. /\ IsFiniteSet((S \ {x}) \cup {y}) /\ Cardinality((S \ {x}) \cup {y}) \in Nat
      /\ Cardinality((S \ {x}) \cup {y}) <= Cardinality(S \ {x}) + 1
  BY <1>2, <1>4
<1> QED BY <1>1, <1>2, <1>3, <1>5, <1>6

\* What operation o staged and did not publish belongs to no other operation.
LEMMA OwnStaging ==
    ASSUME IInv, NEW o \in Ops, Unpublished(o)
    PROVE  /\ staged[o] \in hidden[AreaOf(o)] /\ staged[o] \in Inodes /\ AreaOf(o) \in Areas
           /\ data[staged[o]] # "free" /\ maker[staged[o]] = o
           /\ \A n \in Names : dir[n] # staged[o]
           /\ \A a \in Areas : staged[o] \in hidden[a] => a = AreaOf(o)
           /\ \A q \in Ops : retained[q] # staged[o]
           /\ \A q \in Ops \ {o} : staged[q] # staged[o]
<1>1. StagingKept(o) /\ AreaOf(o) \in Areas /\ hidden \in [Areas -> SUBSET Inodes]
  BY AreaFacts DEF IInv, OpInv, TypeOK
<1>2. /\ staged[o] \in hidden[AreaOf(o)] /\ \A q \in Ops : retained[q] # staged[o]
      /\ staged[o] # None => data[staged[o]] # "free" /\ maker[staged[o]] = o
  BY <1>1 DEF StagingKept
<1>3. staged[o] \in Inodes /\ staged[o] # None
  BY <1>1, <1>2, PublicationAssumption
<1>4. /\ \A n \in Names : dir[n] # staged[o]
      /\ \A a \in Areas : staged[o] \in hidden[a] => a = AreaOf(o)
  BY <1>1, <1>2 DEF IInv, Placed
<1>5. ASSUME NEW q \in Ops \ {o} PROVE staged[q] # staged[o]
  <2>1. staged[q] # None => maker[staged[q]] = q
    BY DEF IInv, OpInv, StagingKept
  <2> QED BY <1>2, <1>3, <2>1
<1> QED BY <1>1, <1>2, <1>3, <1>4, <1>5

\* The frame of a step of operation o that takes out nothing, or what it staged.
LEMMA FrameOf ==
    ASSUME IInv, NEW o \in Ops, NEW x, x = None \/ (Unpublished(o) /\ x = staged[o]),
           \A q \in Ops \ {o} :
              /\ pc'[q] = pc[q] /\ staged'[q] = staged[q] /\ retained'[q] = retained[q]
              /\ q \in published' <=> q \in published
              /\ \A a \in Areas : flock[a] = q => flock'[a] = q,
           UNCHANGED seen,
           \A q \in Ops \ {o} : Unpublished(q) => retained'[o] # staged[q],
           \A q \in Ops \ {o} :
              pc[q] = "opened" => Cardinality(hidden'[AreaOf(q)]) < MaxArtifacts,
           \A a \in Areas : hidden[a] \ {x} \subseteq hidden'[a],
           \A a \in Areas : \A i \in hidden[a] \ {x} : data'[i] = data[i],
           \A i \in Inodes : data[i] # "free" => data'[i] # "free" /\ maker'[i] = maker[i]
    PROVE  Frame(o, x)
<1>1. ASSUME NEW q \in Ops \ {o}
      PROVE  /\ Unpublished(q) => staged[q] # x
             /\ retained[q] # None => retained[q] # x
  <2>1. CASE x = None
    <3>1. Unpublished(q) => staged[q] \in Inodes
      BY OwnStaging
    <3> QED BY <2>1, <3>1, PublicationAssumption
  <2>2. CASE Unpublished(o) /\ x = staged[o]
    BY <2>2, OwnStaging
  <2> QED BY <2>1, <2>2
<1> QED BY <1>1 DEF Frame

\* The parts of the invariant that a step has to establish.
LEMMA FsStep ==
    ASSUME IInv, NEW o, NEW x, Frame(o, x), TypeOK', Placed',
           \A a \in Areas : IsFiniteSet(hidden'[a]),
           QuarantinesBounded', PublicNeverPartial', o \in Ops => OpInv(o)'
    PROVE  IInv'
<1>1. ASSUME NEW q \in Ops PROVE OpInv(q)'
  <2>1. CASE q = o
    BY <2>1
  <2>2. CASE q # o
    BY <2>2, OtherOps
  <2> QED BY <2>1, <2>2
<1> QED BY <1>1 DEF IInv

LEMMA FsTypes ==
    ASSUME IInv
    PROVE  /\ dir \in [Names -> Inodes \cup {None}] /\ hidden \in [Areas -> SUBSET Inodes]
           /\ data \in [Inodes -> Contents] /\ maker \in [Inodes -> Ops \cup {None}]
           /\ pc \in [Ops -> Steps] /\ staged \in [Ops -> Inodes \cup {None}]
           /\ retained \in [Ops -> Inodes \cup {None}] /\ published \subseteq Ops
           /\ None \notin Inodes /\ None \notin Ops
BY PublicationAssumption DEF IInv, TypeOK

LEMMA OutsideStep ==
    ASSUME IInv, NEW n \in Names, NEW i \in Inodes, OutsideWrite(n, i)
    PROVE  IInv'
<1>1. /\ UNCHANGED <<hidden, maker, publication, flock, pc, seen, staged, retained, published>>
      /\ outside < MaxOutside /\ outside' = outside + 1
  BY DEF OutsideWrite, lockVars, opVars
<1> DEFINE Goal == /\ dir' \in [Names -> Inodes \cup {None}] /\ data' \in [Inodes -> Contents]
                   /\ Placed' /\ PublicNeverPartial'
                   /\ \A a \in Areas : \A j \in hidden[a] \ {None} : data'[j] = data[j]
                   /\ \A j \in Inodes : data[j] # "free" => data'[j] # "free"
<1> SUFFICES Goal
  <2>1. outside' \in 0..MaxOutside
    <3>1. outside \in 0..MaxOutside /\ MaxOutside \in Nat
      BY PublicationAssumption DEF IInv, TypeOK
    <3> QED BY <1>1, <3>1
  <2>2. Goal => TypeOK'
    BY <1>1, <2>1 DEF IInv, TypeOK
  <2>3. \A q \in Ops : OpInv(q) /\ AreaOf(q) \in Areas
    BY AreaFacts DEF IInv
  <2>4. ASSUME NEW q \in Ops \ {None}
        PROVE  /\ pc[q] = "opened" => Cardinality(hidden'[AreaOf(q)]) < MaxArtifacts
               /\ Unpublished(q) => staged[q] # None
               /\ retained[q] # None => retained[q] # None
    <3>1. pc[q] = "opened" => Cardinality(hidden'[AreaOf(q)]) < MaxArtifacts
      BY <1>1, <2>3 DEF OpInv, LockKept
    <3>2. Unpublished(q) => staged[q] \in Inodes
      BY OwnStaging
    <3> QED BY <3>1, <3>2, FsTypes
  <2>5. Goal => Frame(None, None)
    BY <1>1, <2>4, FsTypes DEF Frame
  <2>6. QuarantinesBounded' /\ \A a \in Areas : IsFiniteSet(hidden'[a])
    BY <1>1 DEF IInv, QuarantinesBounded
  <2> HIDE DEF Goal
  <2>7. Goal => Placed' /\ PublicNeverPartial'
    BY DEF Goal
  <2> QED BY <2>2, <2>5, <2>6, <2>7, FsTypes, FsStep
<1>2. CASE /\ data[i] = "free" /\ data' = [data EXCEPT ![i] = "file"]
           /\ dir' = [dir EXCEPT ![n] = i]
  <2>1. \A m \in Names : dir[m] # i
    BY <1>2 DEF IInv, Placed
  <2>2. \A a \in Areas : i \notin hidden[a]
    BY <1>2 DEF IInv, Placed
  <2>3. dir' \in [Names -> Inodes \cup {None}] /\ data' \in [Inodes -> Contents]
    BY <1>2, FsTypes DEF Contents
  <2>4. Placed'
    BY <1>1, <1>2, <2>1, <2>2, FsTypes DEF IInv, Placed
  <2>5. PublicNeverPartial'
    BY <1>2, <2>1, FsTypes DEF IInv, PublicNeverPartial
  <2>6. /\ \A a \in Areas : \A j \in hidden[a] \ {None} : data'[j] = data[j]
        /\ \A j \in Inodes : data[j] # "free" => data'[j] # "free"
    BY <1>2, <2>2, FsTypes
  <2> QED BY <2>3, <2>4, <2>5, <2>6
<1>3. CASE dir[n] = i /\ dir' = [dir EXCEPT ![n] = None] /\ UNCHANGED data
  <2>1. dir' \in [Names -> Inodes \cup {None}] /\ data' \in [Inodes -> Contents]
    BY <1>3, FsTypes
  <2>2. Placed'
    BY <1>1, <1>3, FsTypes DEF IInv, Placed
  <2>3. PublicNeverPartial'
    BY <1>3, FsTypes DEF IInv, PublicNeverPartial
  <2>4. /\ \A a \in Areas : \A j \in hidden[a] \ {None} : data'[j] = data[j]
        /\ \A j \in Inodes : data[j] # "free" => data'[j] # "free"
    BY <1>3
  <2> QED BY <2>1, <2>2, <2>3, <2>4
<1>4. CASE dir[n] = i /\ data' = [data EXCEPT ![i] = "changed"] /\ UNCHANGED dir
  <2>1. \A a \in Areas : i \notin hidden[a]
    BY <1>4 DEF IInv, Placed
  <2>2. dir' \in [Names -> Inodes \cup {None}] /\ data' \in [Inodes -> Contents]
    BY <1>4, FsTypes DEF Contents
  <2>3. Placed'
    BY <1>1, <1>4, FsTypes DEF IInv, Placed
  <2>4. PublicNeverPartial'
    BY <1>4, FsTypes DEF IInv, PublicNeverPartial
  <2>5. /\ \A a \in Areas : \A j \in hidden[a] \ {None} : data'[j] = data[j]
        /\ \A j \in Inodes : data[j] # "free" => data'[j] # "free"
    BY <1>4, <2>1, FsTypes
  <2> QED BY <2>2, <2>3, <2>4, <2>5
<1> QED BY <1>2, <1>3, <1>4 DEF OutsideWrite

\* An operation with its quarantine open is alone in it.
LEMMA AloneInside ==
    ASSUME IInv, NEW o \in Ops, NEW q \in Ops, q # o, pc[o] = "opened", pc[q] = "opened"
    PROVE  AreaOf(q) # AreaOf(o)
<1>1. LockKept(o) /\ LockKept(q) /\ "opened" \in Locking
  BY DEF IInv, OpInv, Locking
<1> QED BY <1>1 DEF LockKept

\* Nothing that is free or public is staged or retained.
LEMMA NotHidden ==
    ASSUME IInv, NEW i, (i \in Inodes /\ data[i] = "free") \/ \E n \in Names : dir[n] = i, i # None
    PROVE  /\ \A a \in Areas : i \notin hidden[a]
           /\ \A q \in Ops : retained[q] # i /\ (Unpublished(q) => staged[q] # i)
<1>1. \A a \in Areas : i \notin hidden[a]
  BY DEF IInv, Placed
<1>2. ASSUME NEW q \in Ops PROVE retained[q] # i /\ (Unpublished(q) => staged[q] # i)
  <2>1. retained[q] # None => retained[q] \in hidden[AreaOf(q)]
    BY DEF IInv, OpInv, RetentionKept
  <2>2. Unpublished(q) => staged[q] \in hidden[AreaOf(q)]
    BY OwnStaging
  <2> QED BY <1>1, <2>1, <2>2, AreaFacts
<1> QED BY <1>1, <1>2

LEMMA StageStep == ASSUME IInv, NEW o \in Ops, NEW i \in Inodes, Stage(o, i) PROVE IInv'
<1> DEFINE A == AreaOf(o)
           new == IF KindOf[o] = "mkdir" THEN "directory" ELSE "partial"
<1>1. /\ \/ pc[o] = "opened" /\ KindOf[o] \in {"copy", "write"}
         \/ pc[o] = "authorized" /\ KindOf[o] = "mkdir"
      /\ data[i] = "free" /\ data' = [data EXCEPT ![i] = new]
      /\ maker' = [maker EXCEPT ![i] = o]
      /\ hidden' = [hidden EXCEPT ![A] = hidden[A] \cup {i}]
      /\ staged' = [staged EXCEPT ![o] = i]
      /\ pc' = [pc EXCEPT ![o] = "created"]
      /\ UNCHANGED <<dir, publication, flock, seen, retained, published, outside>>
  BY DEF Stage, Goto, lockVars
<1>2. /\ \A a \in Areas : i \notin hidden[a]
      /\ \A q \in Ops : retained[q] # i /\ (Unpublished(q) => staged[q] # i)
      /\ \A n \in Names : dir[n] # i
  BY <1>1, NotHidden, FsTypes DEF IInv, Placed
<1>3. A \in Areas /\ new \in Contents /\ new # "free" /\ "created" \in Steps
  BY AreaFacts DEF Contents, Steps
<1> HIDE DEF new
<1>4. TypeOK'
  <2>1. /\ data' \in [Inodes -> Contents] /\ maker' \in [Inodes -> Ops \cup {None}]
        /\ hidden' \in [Areas -> SUBSET Inodes] /\ staged' \in [Ops -> Inodes \cup {None}]
        /\ pc' \in [Ops -> Steps]
    BY <1>1, <1>3, FsTypes
  <2> QED BY <1>1, <2>1 DEF IInv, TypeOK
<1>5. /\ hidden'[A] = hidden[A] \cup {i} /\ \A a \in Areas \ {A} : hidden'[a] = hidden[a]
      /\ data'[i] = new /\ \A j \in Inodes \ {i} : data'[j] = data[j] /\ maker'[j] = maker[j]
      /\ maker'[i] = o /\ staged'[o] = i /\ pc'[o] = "created"
  BY <1>1, <1>3, FsTypes
<1> HIDE DEF A
<1>6. Placed'
  <2>1. \A j \in Inodes : data'[j] = "free" => j # i /\ data[j] = "free"
    BY <1>3, <1>5
  <2>2. \A a \in Areas : \A j \in hidden'[a] : j \in hidden[a] \/ (j = i /\ a = A)
    BY <1>3, <1>5
  <2>3. \A j \in Inodes : data'[j] = "free" =>
          (\A n \in Names : dir'[n] # j) /\ \A a \in Areas : j \notin hidden'[a]
    BY <1>1, <2>1, <2>2 DEF IInv, Placed
  <2>4. \A a \in Areas : \A j \in hidden'[a] :
          (\A n \in Names : dir'[n] # j) /\ \A b \in Areas : j \in hidden'[b] => a = b
    BY <1>1, <1>2, <2>2 DEF IInv, Placed
  <2> QED BY <1>1, <2>3, <2>4 DEF IInv, Placed
<1>7. /\ \A a \in Areas : IsFiniteSet(hidden'[a])
      /\ \A q \in Ops \ {o} : pc[q] = "opened" => Cardinality(hidden'[AreaOf(q)]) < MaxArtifacts
      /\ QuarantinesBounded'
  <2>1. \A a \in Areas : IsFiniteSet(hidden[a])
    BY DEF IInv
  <2>2. IsFiniteSet(hidden'[A]) /\ Cardinality(hidden'[A]) <= Cardinality(hidden[A]) + 1
        /\ Cardinality(hidden'[A]) \in Nat /\ Cardinality(hidden[A]) \in Nat
    <3>1. IsFiniteSet(hidden[A])
      BY <1>3, <2>1
    <3>2. /\ IsFiniteSet(hidden[A] \cup {i}) /\ Cardinality(hidden[A] \cup {i}) \in Nat
          /\ Cardinality(hidden[A] \cup {i}) <= Cardinality(hidden[A]) + 1
          /\ Cardinality(hidden[A]) \in Nat
      BY <3>1, Counting
    <3> QED BY <1>5, <3>2
  <2>3. ASSUME NEW q \in Ops \ {o}, pc[q] = "opened"
        PROVE  Cardinality(hidden'[AreaOf(q)]) < MaxArtifacts
    <3>1. LockKept(q) /\ AreaOf(q) \in Areas
      BY AreaFacts DEF IInv, OpInv
    <3>2. AreaOf(q) # A
      <4>1. CASE pc[o] = "opened"
        BY <2>3, <4>1, AloneInside DEF A
      <4>2. CASE KindOf[o] = "mkdir"
        <5>1. KindOf[q] # "mkdir"
          BY <2>3, <3>1 DEF LockKept
        <5> QED BY <4>2, <5>1, AreaFacts DEF A
      <4> QED BY <1>1, <4>1, <4>2
    <3> QED BY <1>5, <2>3, <3>1, <3>2 DEF LockKept
  <2>4. ASSUME NEW a \in {"write", "trash"} PROVE Cardinality(hidden'[a]) <= MaxArtifacts
    <3>0. a \in Areas /\ MaxArtifacts \in Nat
      BY PublicationAssumption DEF Areas
    <3>1. CASE a # A
      BY <1>5, <3>0, <3>1 DEF IInv, QuarantinesBounded
    <3>2. CASE a = A
      <4>1. pc[o] = "opened"
        BY <1>1, <3>2, AreaFacts DEF A
      <4>2. Cardinality(hidden[A]) < MaxArtifacts
        BY <4>1 DEF IInv, OpInv, LockKept, A
      <4> QED BY <2>2, <3>0, <3>2, <4>2
    <3> QED BY <3>1, <3>2
  <2>5. \A a \in Areas : IsFiniteSet(hidden'[a])
    BY <1>5, <2>1, <2>2
  <2> QED BY <2>3, <2>4, <2>5 DEF QuarantinesBounded
<1>8. PublicNeverPartial'
  <2>1. \A n \in Names : dir[n] # None => dir[n] \in Inodes \ {i}
    BY <1>2, FsTypes
  <2> QED BY <1>1, <1>5, <2>1 DEF IInv, PublicNeverPartial
<1>9. Frame(o, None)
  <2>1. \A q \in Ops \ {o} :
          /\ pc'[q] = pc[q] /\ staged'[q] = staged[q] /\ retained'[q] = retained[q]
          /\ q \in published' <=> q \in published
          /\ \A a \in Areas : flock[a] = q => flock'[a] = q
    BY <1>1, FsTypes
  <2>2. \A q \in Ops \ {o} : Unpublished(q) => retained'[o] # staged[q]
    BY <1>1, OwnStaging
  <2>3. \A a \in Areas : hidden[a] \ {None} \subseteq hidden'[a]
    BY <1>5
  <2>4. \A a \in Areas : \A j \in hidden[a] \ {None} : data'[j] = data[j]
    <3>1. \A a \in Areas : \A j \in hidden[a] : j \in Inodes \ {i}
      BY <1>2, FsTypes
    <3> QED BY <1>5, <3>1
  <2>5. \A j \in Inodes : data[j] # "free" => data'[j] # "free" /\ maker'[j] = maker[j]
    BY <1>1, <1>5
  <2> QED BY <1>1, <1>7, <2>1, <2>2, <2>3, <2>4, <2>5, FrameOf
<1>10. OpInv(o)'
  <2>1. AreaOf(o)' = A /\ OpInv(o)
    BY DEF AreaOf, A, IInv
  <2>2. StagingKept(o)'
    <3>1. i \in hidden'[A]
      BY <1>5
    <3>2. \A q \in Ops : retained'[q] # i
      BY <1>1, <1>2
    <3>3. KindOf[o] = "mkdir" => new = "directory"
      BY DEF new
    <3> QED BY <1>3, <1>5, <2>1, <3>1, <3>2, <3>3 DEF StagingKept
  <2>3. RetentionKept(o)'
    <3>1. retained[o] # None => retained[o] \in hidden[A]
      BY <2>1 DEF OpInv, RetentionKept, A
    <3> QED BY <1>1, <1>5, <2>1, <3>1 DEF RetentionKept
  <2>4. LockKept(o)'
    <3>1. KindOf[o] # "mkdir" => flock[A] = o
      BY <1>1, <2>1 DEF OpInv, LockKept, Locking, A
    <3> QED BY <1>1, <1>5, <2>1, <3>1 DEF LockKept
  <2>5. KindKept(o)'
    BY <1>1, <1>5 DEF KindKept
  <2> QED BY <2>2, <2>3, <2>4, <2>5 DEF OpInv
<1> QED BY <1>4, <1>6, <1>7, <1>8, <1>9, <1>10, FsStep

LEMMA FillStep == ASSUME IInv, NEW o \in Ops, Fill(o) PROVE IInv'
<1>1. pc[o] = "created"
  BY DEF Fill
<1>2. CASE Fail(o)
  BY <1>1, <1>2, FailStep
<1>3. CASE /\ data' = IF KindOf[o] = "mkdir" THEN data ELSE [data EXCEPT ![staged[o]] = o]
           /\ Goto(o, "staged")
           /\ UNCHANGED <<dir, hidden, maker, lockVars, seen, staged, retained, published, outside>>
  <2> DEFINE x == staged[o]
  <2>1. Unpublished(o) /\ OpInv(o)
    BY <1>1 DEF Unpublished, IInv
  <2>2. /\ x \in hidden[AreaOf(o)] /\ x \in Inodes /\ AreaOf(o) \in Areas
        /\ data[x] # "free" /\ maker[x] = o
        /\ \A n \in Names : dir[n] # x
        /\ \A q \in Ops : retained[q] # x
        /\ \A q \in Ops \ {o} : staged[q] # x
    BY <2>1, OwnStaging
  <2>3. /\ pc' = [pc EXCEPT ![o] = "staged"] /\ pc'[o] = "staged" /\ "staged" \in Steps
        /\ UNCHANGED <<dir, hidden, maker, publication, flock, seen, staged, retained, published, outside>>
    BY <1>3, FsTypes DEF Goto, lockVars, Steps
  <2>4. o \notin {"free", "directory", "partial", "file", "changed"} /\ o \in Contents
    BY PublicationAssumption DEF Contents
  <2>5. /\ data' \in [Inodes -> Contents] /\ \A j \in Inodes \ {x} : data'[j] = data[j]
        /\ data'[x] \notin {"free", "partial"}
        /\ KindOf[o] = "mkdir" => data'[x] = "directory"
    <3>1. CASE KindOf[o] = "mkdir"
      <4>1. data' = data /\ data[x] = "directory"
        BY <1>3, <2>1, <3>1 DEF OpInv, StagingKept
      <4> QED BY <4>1, FsTypes
    <3>2. CASE KindOf[o] # "mkdir"
      BY <1>3, <2>2, <2>4, <3>2, FsTypes
    <3> QED BY <3>1, <3>2
  <2> HIDE DEF x
  <2>6. TypeOK'
    <3>1. pc' \in [Ops -> Steps]
      BY <2>3, FsTypes
    <3> QED BY <2>3, <2>5, <3>1 DEF IInv, TypeOK
  <2>7. Placed'
    <3>1. \A j \in Inodes : data'[j] = "free" => data[j] = "free"
      BY <2>5
    <3> QED BY <2>3, <3>1 DEF IInv, Placed
  <2>8. QuarantinesBounded' /\ \A a \in Areas : IsFiniteSet(hidden'[a])
    BY <2>3 DEF IInv, QuarantinesBounded
  <2>9. PublicNeverPartial'
    <3>1. \A n \in Names : dir[n] # None => dir[n] \in Inodes \ {x}
      BY <2>2, FsTypes
    <3> QED BY <2>3, <2>5, <3>1 DEF IInv, PublicNeverPartial
  <2>10. Frame(o, x)
    <3>1. \A q \in Ops \ {o} :
            /\ pc'[q] = pc[q] /\ staged'[q] = staged[q] /\ retained'[q] = retained[q]
            /\ q \in published' <=> q \in published
            /\ \A a \in Areas : flock[a] = q => flock'[a] = q
      BY <2>3, FsTypes
    <3>2. \A q \in Ops \ {o} : Unpublished(q) => retained'[o] # staged[q]
      BY <2>3, OwnStaging
    <3>3. \A q \in Ops \ {o} : pc[q] = "opened" => Cardinality(hidden'[AreaOf(q)]) < MaxArtifacts
      BY <2>3 DEF IInv, OpInv, LockKept
    <3>4. \A a \in Areas : \A j \in hidden[a] \ {x} : data'[j] = data[j]
      BY <2>5, FsTypes
    <3>5. \A j \in Inodes : data[j] # "free" => data'[j] # "free" /\ maker'[j] = maker[j]
      BY <2>3, <2>5
    <3>6. \A a \in Areas : hidden[a] \ {x} \subseteq hidden'[a]
      BY <2>3
    <3>7. x = None \/ (Unpublished(o) /\ x = staged[o])
      BY <2>1 DEF x
    <3> QED BY <2>3, <3>1, <3>2, <3>3, <3>4, <3>5, <3>6, <3>7, FrameOf
  <2>11. OpInv(o)'
    <3>1. AreaOf(o)' = AreaOf(o) /\ staged'[o] = x
      BY <2>3 DEF AreaOf, x
    <3>2. StagingKept(o)'
      BY <2>2, <2>3, <2>5, <3>1 DEF StagingKept
    <3>3. RetentionKept(o)'
      BY <2>1, <2>3, <3>1 DEF OpInv, RetentionKept
    <3>4. LockKept(o)'
      BY <1>1, <2>1, <2>3, <3>1 DEF OpInv, LockKept, Locking
    <3>5. KindKept(o)'
      BY <1>1, <2>1, <2>3 DEF OpInv, KindKept
    <3> QED BY <3>2, <3>3, <3>4, <3>5 DEF OpInv
  <2> QED BY <2>6, <2>7, <2>8, <2>9, <2>10, <2>11, FsStep
<1> QED BY <1>2, <1>3 DEF Fill

LEMMA PublishStep == ASSUME IInv, NEW o \in Ops, Publish(o) PROVE IInv'
<1>1. pc[o] = "staged" /\ OpInv(o)
  BY DEF Publish, IInv
<1>2. CASE Fail(o)
  BY <1>1, <1>2, FailStep
<1> DEFINE x == staged[o]
           T == TargetOf[o]
           A == AreaOf(o)
<1>3. CASE /\ Target(o) = None
           /\ dir' = [dir EXCEPT ![T] = x]
           /\ hidden' = [hidden EXCEPT ![A] = hidden[A] \ {x}]
           /\ published' = published \cup {o}
           /\ Goto(o, "moved")
           /\ UNCHANGED <<data, maker, lockVars, seen, staged, retained, outside>>
  <2>1. Unpublished(o) /\ T \in Names
    BY <1>1, PublicationAssumption DEF Unpublished
  <2>2. /\ x \in hidden[A] /\ x \in Inodes /\ A \in Areas
        /\ data[x] # "free" /\ maker[x] = o
        /\ \A n \in Names : dir[n] # x
        /\ \A a \in Areas : x \in hidden[a] => a = A
        /\ \A q \in Ops : retained[q] # x
    BY <2>1, OwnStaging
  <2>3. data[x] # "partial"
    BY <1>1, <2>1 DEF OpInv, StagingKept
  <2>4. /\ pc' = [pc EXCEPT ![o] = "moved"] /\ pc'[o] = "moved" /\ "moved" \in Steps
        /\ UNCHANGED <<data, maker, publication, flock, seen, staged, retained, outside>>
    BY <1>3, FsTypes DEF Goto, lockVars, Steps
  <2> HIDE DEF x, T, A
  <2>5. /\ dir'[T] = x /\ \A n \in Names \ {T} : dir'[n] = dir[n]
        /\ hidden'[A] = hidden[A] \ {x} /\ \A a \in Areas \ {A} : hidden'[a] = hidden[a]
    BY <1>3, <2>1, <2>2, FsTypes
  <2>6. TypeOK'
    <3>1. /\ pc' \in [Ops -> Steps] /\ published' \subseteq Ops
          /\ dir' \in [Names -> Inodes \cup {None}] /\ hidden' \in [Areas -> SUBSET Inodes]
      BY <1>3, <2>2, <2>4, FsTypes
    <3> QED BY <2>4, <3>1 DEF IInv, TypeOK
  <2>7. Placed'
    <3>1. \A a \in Areas : \A j \in hidden'[a] : j \in hidden[a] /\ j # x
      BY <2>2, <2>5
    <3>2. \A n \in Names : dir'[n] = dir[n] \/ dir'[n] = x
      BY <2>5
    <3>3. \A j \in Inodes : data'[j] = "free" =>
            (\A n \in Names : dir'[n] # j) /\ \A a \in Areas : j \notin hidden'[a]
      BY <2>2, <2>4, <3>1, <3>2 DEF IInv, Placed
    <3>4. \A m, n \in Names : dir'[m] = dir'[n] /\ dir'[m] # None => m = n
      BY <2>2, <2>5 DEF IInv, Placed
    <3>5. \A a \in Areas : \A j \in hidden'[a] :
            (\A n \in Names : dir'[n] # j) /\ \A b \in Areas : j \in hidden'[b] => a = b
      BY <3>1, <3>2 DEF IInv, Placed
    <3> QED BY <3>3, <3>4, <3>5 DEF Placed
  <2>8. ASSUME NEW a \in Areas
        PROVE  /\ IsFiniteSet(hidden'[a]) /\ Cardinality(hidden'[a]) <= Cardinality(hidden[a])
               /\ Cardinality(hidden'[a]) \in Nat /\ Cardinality(hidden[a]) \in Nat
    <3>1. IsFiniteSet(hidden[a])
      BY DEF IInv
    <3>2. /\ Cardinality(hidden[a]) \in Nat /\ IsFiniteSet(hidden[a] \ {x})
          /\ Cardinality(hidden[a] \ {x}) \in Nat
          /\ Cardinality(hidden[a] \ {x}) <= Cardinality(hidden[a])
      BY <3>1, Counting
    <3>3. CASE a = A
      BY <2>5, <3>2, <3>3
    <3>4. CASE a # A
      BY <2>5, <3>1, <3>2, <3>4
    <3> QED BY <3>3, <3>4
  <2>9. QuarantinesBounded'
    <3> SUFFICES ASSUME NEW a \in {"write", "trash"} PROVE Cardinality(hidden'[a]) <= MaxArtifacts
      BY DEF QuarantinesBounded
    <3>1. a \in Areas /\ MaxArtifacts \in Nat /\ Cardinality(hidden[a]) <= MaxArtifacts
      BY PublicationAssumption DEF Areas, IInv, QuarantinesBounded
    <3> QED BY <2>8, <3>1
  <2>10. PublicNeverPartial'
    BY <2>2, <2>3, <2>4, <2>5 DEF IInv, PublicNeverPartial
  <2>11. Frame(o, x)
    <3>1. \A q \in Ops \ {o} :
            /\ pc'[q] = pc[q] /\ staged'[q] = staged[q] /\ retained'[q] = retained[q]
            /\ q \in published' <=> q \in published
            /\ \A a \in Areas : flock[a] = q => flock'[a] = q
      BY <1>3, <2>4, FsTypes
    <3>2. \A q \in Ops \ {o} : Unpublished(q) => retained'[o] # staged[q]
      BY <2>4, OwnStaging
    <3>3. ASSUME NEW q \in Ops \ {o}, pc[q] = "opened"
          PROVE  Cardinality(hidden'[AreaOf(q)]) < MaxArtifacts
      <4>1. AreaOf(q) \in Areas /\ Cardinality(hidden[AreaOf(q)]) < MaxArtifacts /\ MaxArtifacts \in Nat
        BY <3>3, AreaFacts, PublicationAssumption DEF IInv, OpInv, LockKept
      <4> QED BY <2>8, <4>1
    <3>4. \A a \in Areas : \A j \in hidden[a] \ {x} : data'[j] = data[j]
      BY <2>4
    <3>5. \A j \in Inodes : data[j] # "free" => data'[j] # "free" /\ maker'[j] = maker[j]
      BY <2>4
    <3>6. \A a \in Areas : hidden[a] \ {x} \subseteq hidden'[a]
      BY <2>5
    <3>7. x = None \/ (Unpublished(o) /\ x = staged[o])
      BY <2>1 DEF x
    <3> QED BY <2>4, <3>1, <3>2, <3>3, <3>4, <3>5, <3>6, <3>7, FrameOf
  <2>12. OpInv(o)'
    <3>1. AreaOf(o)' = A /\ staged'[o] = x /\ AreaOf(o) = A /\ staged[o] = x
      BY <2>4 DEF AreaOf, A, x
    <3>2. StagingKept(o)'
      BY <2>2, <2>4, <3>1 DEF StagingKept, Unpublished
    <3>3. KindOf[o] # "trash"
      BY <1>1 DEF OpInv, KindKept
    <3>4. RetentionKept(o)'
      <4>1. retained[o] # None => retained[o] \in hidden'[A]
        BY <1>1, <2>2, <2>5, <3>1 DEF OpInv, RetentionKept
      <4> QED BY <2>4, <3>1, <3>3, <4>1 DEF RetentionKept
    <3>5. LockKept(o)'
      BY <1>1, <2>4, <3>1 DEF OpInv, LockKept, Locking
    <3>6. KindKept(o)'
      BY <1>3, <2>4 DEF KindKept
    <3> QED BY <3>2, <3>4, <3>5, <3>6 DEF OpInv
  <2> QED BY <2>6, <2>7, <2>8, <2>9, <2>10, <2>11, <2>12, FsStep
<1> QED BY <1>2, <1>3 DEF Publish

LEMMA ExchangeStep == ASSUME IInv, NEW o \in Ops, Exchange(o) PROVE IInv'
<1>1. pc[o] = "checked" /\ OpInv(o)
  BY DEF Exchange, IInv
<1>2. CASE End(o, "failed")
  BY <1>2, EndFailed
<1> DEFINE x == staged[o]
           y == Target(o)
           T == TargetOf[o]
<1>3. CASE /\ y # None
           /\ dir' = [dir EXCEPT ![T] = x]
           /\ hidden' = [hidden EXCEPT !["write"] = (hidden["write"] \ {x}) \cup {y}]
           /\ retained' = [retained EXCEPT ![o] = y]
           /\ Goto(o, "moved")
           /\ UNCHANGED <<data, maker, lockVars, seen, staged, published, outside>>
  <2>1. Unpublished(o) /\ T \in Names /\ KindOf[o] = "write" /\ AreaOf(o) = "write"
    BY <1>1, AreaFacts, PublicationAssumption DEF Unpublished, OpInv, KindKept
  <2>2. /\ x \in hidden["write"] /\ x \in Inodes /\ "write" \in Areas
        /\ data[x] # "free" /\ maker[x] = o
        /\ \A n \in Names : dir[n] # x
        /\ \A a \in Areas : x \in hidden[a] => a = "write"
        /\ \A q \in Ops : retained[q] # x
    BY <2>1, OwnStaging
  <2>3. data[x] # "partial"
    BY <1>1, <2>1 DEF OpInv, StagingKept
  <2>4. /\ pc' = [pc EXCEPT ![o] = "moved"] /\ pc'[o] = "moved" /\ "moved" \in Steps
        /\ UNCHANGED <<data, maker, publication, flock, seen, staged, published, outside>>
    BY <1>3, FsTypes DEF Goto, lockVars, Steps
  <2>5. y = dir[T] /\ y \in Inodes
    BY <1>3, <2>1, FsTypes DEF Target
  <2>6. /\ \A a \in Areas : y \notin hidden[a]
        /\ \A q \in Ops : Unpublished(q) => staged[q] # y
        /\ \A n \in Names : dir[n] = y => n = T
        /\ data[y] # "free" /\ y # x
    <3>1. \E n \in Names : dir[n] = y
      BY <2>1, <2>5
    <3>2. /\ \A a \in Areas : y \notin hidden[a]
          /\ \A q \in Ops : Unpublished(q) => staged[q] # y
      BY <1>3, <3>1, NotHidden
    <3>3. (\A n \in Names : dir[n] = y => n = T) /\ data[y] # "free"
      BY <1>3, <2>1, <2>5 DEF IInv, Placed
    <3> QED BY <2>2, <3>2, <3>3
  <2> HIDE DEF x, y, T
  <2>7. /\ dir'[T] = x /\ \A n \in Names \ {T} : dir'[n] = dir[n]
        /\ hidden'["write"] = (hidden["write"] \ {x}) \cup {y}
        /\ \A a \in Areas \ {"write"} : hidden'[a] = hidden[a]
        /\ retained'[o] = y
    BY <1>3, <2>1, <2>2, FsTypes
  <2>8. TypeOK'
    <3>1. /\ pc' \in [Ops -> Steps] /\ retained' \in [Ops -> Inodes \cup {None}]
          /\ dir' \in [Names -> Inodes \cup {None}] /\ hidden' \in [Areas -> SUBSET Inodes]
      BY <1>3, <2>2, <2>4, <2>5, FsTypes
    <3> QED BY <2>4, <3>1 DEF IInv, TypeOK
  <2>9. Placed'
    <3>1. \A a \in Areas : \A j \in hidden'[a] : (j \in hidden[a] /\ j # x) \/ (j = y /\ a = "write")
      BY <2>2, <2>7
    <3>2. \A n \in Names : dir'[n] # y /\ (dir'[n] = dir[n] \/ dir'[n] = x)
      BY <2>6, <2>7
    <3>3. \A j \in Inodes : data'[j] = "free" =>
            (\A n \in Names : dir'[n] # j) /\ \A a \in Areas : j \notin hidden'[a]
      BY <2>2, <2>4, <2>6, <3>1, <3>2 DEF IInv, Placed
    <3>4. \A m, n \in Names : dir'[m] = dir'[n] /\ dir'[m] # None => m = n
      BY <2>2, <2>7 DEF IInv, Placed
    <3>5. \A a \in Areas : \A j \in hidden'[a] :
            (\A n \in Names : dir'[n] # j) /\ \A b \in Areas : j \in hidden'[b] => a = b
      BY <2>6, <3>1, <3>2 DEF IInv, Placed
    <3> QED BY <3>3, <3>4, <3>5 DEF Placed
  <2>10. ASSUME NEW a \in Areas
         PROVE  /\ IsFiniteSet(hidden'[a]) /\ Cardinality(hidden'[a]) <= Cardinality(hidden[a])
                /\ Cardinality(hidden'[a]) \in Nat /\ Cardinality(hidden[a]) \in Nat
    <3>1. IsFiniteSet(hidden[a])
      BY DEF IInv
    <3>2. /\ Cardinality(hidden[a]) \in Nat /\ IsFiniteSet((hidden[a] \ {x}) \cup {y})
          /\ Cardinality((hidden[a] \ {x}) \cup {y}) \in Nat
          /\ x \in hidden[a] => Cardinality((hidden[a] \ {x}) \cup {y}) <= Cardinality(hidden[a])
      BY <3>1, Counting
    <3>3. CASE a = "write"
      BY <2>2, <2>7, <3>2, <3>3
    <3>4. CASE a # "write"
      BY <2>7, <3>1, <3>2, <3>4
    <3> QED BY <3>3, <3>4
  <2>11. QuarantinesBounded'
    <3> SUFFICES ASSUME NEW a \in {"write", "trash"} PROVE Cardinality(hidden'[a]) <= MaxArtifacts
      BY DEF QuarantinesBounded
    <3>1. a \in Areas /\ MaxArtifacts \in Nat /\ Cardinality(hidden[a]) <= MaxArtifacts
      BY PublicationAssumption DEF Areas, IInv, QuarantinesBounded
    <3> QED BY <2>10, <3>1
  <2>12. PublicNeverPartial'
    BY <2>2, <2>3, <2>4, <2>7 DEF IInv, PublicNeverPartial
  <2>13. Frame(o, x)
    <3>1. \A q \in Ops \ {o} :
            /\ pc'[q] = pc[q] /\ staged'[q] = staged[q] /\ retained'[q] = retained[q]
            /\ q \in published' <=> q \in published
            /\ \A a \in Areas : flock[a] = q => flock'[a] = q
      BY <1>3, <2>4, FsTypes
    <3>2. \A q \in Ops \ {o} : Unpublished(q) => retained'[o] # staged[q]
      BY <2>6, <2>7
    <3>3. ASSUME NEW q \in Ops \ {o}, pc[q] = "opened"
          PROVE  Cardinality(hidden'[AreaOf(q)]) < MaxArtifacts
      <4>1. AreaOf(q) \in Areas /\ Cardinality(hidden[AreaOf(q)]) < MaxArtifacts /\ MaxArtifacts \in Nat
        BY <3>3, AreaFacts, PublicationAssumption DEF IInv, OpInv, LockKept
      <4> QED BY <2>10, <4>1
    <3>4. \A a \in Areas : \A j \in hidden[a] \ {x} : data'[j] = data[j]
      BY <2>4
    <3>5. \A j \in Inodes : data[j] # "free" => data'[j] # "free" /\ maker'[j] = maker[j]
      BY <2>4
    <3>6. \A a \in Areas : hidden[a] \ {x} \subseteq hidden'[a]
      BY <2>7
    <3>7. x = None \/ (Unpublished(o) /\ x = staged[o])
      BY <2>1 DEF x
    <3> QED BY <2>4, <3>1, <3>2, <3>3, <3>4, <3>5, <3>6, <3>7, FrameOf
  <2>14. OpInv(o)'
    <3>1. AreaOf(o)' = "write" /\ staged'[o] = x
      BY <2>1, <2>4 DEF AreaOf, x
    <3>2. StagingKept(o)'
      <4>1. ~Unpublished(o)'
        BY <2>4 DEF Unpublished
      <4> QED BY <2>2, <2>4, <3>1, <4>1 DEF StagingKept
    <3>3. RetentionKept(o)'
      BY <2>1, <2>4, <2>7, <3>1 DEF RetentionKept
    <3>4. LockKept(o)'
      BY <1>1, <2>1, <2>4, <3>1 DEF OpInv, LockKept, Locking
    <3>5. KindKept(o)'
      BY <2>1, <2>4 DEF KindKept
    <3> QED BY <3>2, <3>3, <3>4, <3>5 DEF OpInv
  <2> QED BY <2>8, <2>9, <2>10, <2>11, <2>12, <2>13, <2>14, FsStep
<1> QED BY <1>2, <1>3 DEF Exchange

LEMMA MoveToTrashStep == ASSUME IInv, NEW o \in Ops, MoveToTrash(o) PROVE IInv'
<1>1. pc[o] = "opened" /\ KindOf[o] = "trash" /\ OpInv(o)
  BY DEF MoveToTrash, IInv
<1>2. CASE End(o, "failed")
  BY <1>2, EndFailed
<1> DEFINE y == Target(o)
           T == TargetOf[o]
<1>3. CASE /\ y # None
           /\ dir' = [dir EXCEPT ![T] = None]
           /\ hidden' = [hidden EXCEPT !["trash"] = hidden["trash"] \cup {y}]
           /\ retained' = [retained EXCEPT ![o] = y]
           /\ Goto(o, "moved")
           /\ UNCHANGED <<data, maker, lockVars, seen, staged, published, outside>>
  <2>1. T \in Names /\ AreaOf(o) = "trash" /\ "trash" \in Areas
    BY <1>1, AreaFacts, PublicationAssumption
  <2>2. /\ pc' = [pc EXCEPT ![o] = "moved"] /\ pc'[o] = "moved" /\ "moved" \in Steps
        /\ UNCHANGED <<data, maker, publication, flock, seen, staged, published, outside>>
    BY <1>3, FsTypes DEF Goto, lockVars, Steps
  <2>3. y = dir[T] /\ y \in Inodes
    BY <1>3, <2>1, FsTypes DEF Target
  <2>4. /\ \A a \in Areas : y \notin hidden[a]
        /\ \A q \in Ops : Unpublished(q) => staged[q] # y
        /\ \A n \in Names : dir[n] = y => n = T
        /\ data[y] # "free"
    <3>1. \E n \in Names : dir[n] = y
      BY <2>1, <2>3
    <3>2. /\ \A a \in Areas : y \notin hidden[a]
          /\ \A q \in Ops : Unpublished(q) => staged[q] # y
      BY <1>3, <3>1, NotHidden
    <3>3. (\A n \in Names : dir[n] = y => n = T) /\ data[y] # "free"
      BY <1>3, <2>1, <2>3 DEF IInv, Placed
    <3> QED BY <3>2, <3>3
  <2> HIDE DEF y, T
  <2>5. /\ dir'[T] = None /\ \A n \in Names \ {T} : dir'[n] = dir[n]
        /\ hidden'["trash"] = hidden["trash"] \cup {y}
        /\ \A a \in Areas \ {"trash"} : hidden'[a] = hidden[a]
        /\ retained'[o] = y
    BY <1>3, <2>1, FsTypes
  <2>6. TypeOK'
    <3>1. /\ pc' \in [Ops -> Steps] /\ retained' \in [Ops -> Inodes \cup {None}]
          /\ dir' \in [Names -> Inodes \cup {None}] /\ hidden' \in [Areas -> SUBSET Inodes]
      BY <1>3, <2>2, <2>3, FsTypes
    <3> QED BY <2>2, <3>1 DEF IInv, TypeOK
  <2>7. Placed'
    <3>1. \A a \in Areas : \A j \in hidden'[a] : j \in hidden[a] \/ (j = y /\ a = "trash")
      BY <2>5
    <3>2. \A n \in Names : dir'[n] # y /\ (dir'[n] = dir[n] \/ dir'[n] = None)
      BY <1>3, <2>4, <2>5
    <3>3. \A j \in Inodes : data'[j] = "free" =>
            (\A n \in Names : dir'[n] # j) /\ \A a \in Areas : j \notin hidden'[a]
      BY <2>2, <2>4, <3>1, <3>2, FsTypes DEF IInv, Placed
    <3>4. \A m, n \in Names : dir'[m] = dir'[n] /\ dir'[m] # None => m = n
      BY <2>5 DEF IInv, Placed
    <3>5. \A a \in Areas : \A j \in hidden'[a] :
            (\A n \in Names : dir'[n] # j) /\ \A b \in Areas : j \in hidden'[b] => a = b
      <4>1. \A a \in Areas : None \notin hidden[a]
        BY FsTypes
      <4> QED BY <2>4, <3>1, <3>2, <4>1 DEF IInv, Placed
    <3> QED BY <3>3, <3>4, <3>5 DEF Placed
  <2>8. /\ \A a \in Areas : IsFiniteSet(hidden[a]) /\ IsFiniteSet(hidden'[a])
        /\ Cardinality(hidden'["trash"]) <= MaxArtifacts
    <3>1. \A a \in Areas : IsFiniteSet(hidden[a])
      BY DEF IInv
    <3>2. IsFiniteSet(hidden["trash"])
      BY <2>1, <3>1
    <3>3. /\ IsFiniteSet(hidden["trash"] \cup {y}) /\ Cardinality(hidden["trash"] \cup {y}) \in Nat
          /\ Cardinality(hidden["trash"] \cup {y}) <= Cardinality(hidden["trash"]) + 1
          /\ Cardinality(hidden["trash"]) \in Nat
      BY <3>2, Counting
    <3>4. Cardinality(hidden["trash"]) < MaxArtifacts /\ MaxArtifacts \in Nat
      BY <1>1, <2>1, PublicationAssumption DEF OpInv, LockKept
    <3>5. Cardinality(hidden'["trash"]) <= MaxArtifacts
      BY <2>5, <3>3, <3>4
    <3> QED BY <2>5, <3>1, <3>3, <3>5
  <2>9. QuarantinesBounded'
    <3>1. "write" \in Areas \ {"trash"}
      BY DEF Areas
    <3> QED BY <2>5, <2>8, <3>1 DEF IInv, QuarantinesBounded
  <2>10. PublicNeverPartial'
    BY <2>2, <2>5 DEF IInv, PublicNeverPartial
  <2>11. Frame(o, None)
    <3>1. \A q \in Ops \ {o} :
            /\ pc'[q] = pc[q] /\ staged'[q] = staged[q] /\ retained'[q] = retained[q]
            /\ q \in published' <=> q \in published
            /\ \A a \in Areas : flock[a] = q => flock'[a] = q
      BY <1>3, <2>2, FsTypes
    <3>2. \A q \in Ops \ {o} : Unpublished(q) => retained'[o] # staged[q]
      BY <2>4, <2>5
    <3>3. ASSUME NEW q \in Ops \ {o}, pc[q] = "opened"
          PROVE  Cardinality(hidden'[AreaOf(q)]) < MaxArtifacts
      <4>1. AreaOf(q) \in Areas /\ Cardinality(hidden[AreaOf(q)]) < MaxArtifacts
        BY <3>3, AreaFacts DEF IInv, OpInv, LockKept
      <4>2. AreaOf(q) # "trash"
        BY <1>1, <2>1, <3>3, AloneInside
      <4> QED BY <2>5, <4>1, <4>2
    <3>4. \A a \in Areas : \A j \in hidden[a] \ {None} : data'[j] = data[j]
      BY <2>2
    <3>5. \A j \in Inodes : data[j] # "free" => data'[j] # "free" /\ maker'[j] = maker[j]
      BY <2>2
    <3>6. \A a \in Areas : hidden[a] \ {None} \subseteq hidden'[a]
      BY <2>5
    <3> QED BY <2>2, <3>1, <3>2, <3>3, <3>4, <3>5, <3>6, FrameOf
  <2>12. OpInv(o)'
    <3>1. AreaOf(o)' = "trash"
      BY <2>1 DEF AreaOf
    <3>2. StagingKept(o)'
      <4>1. ~Unpublished(o)'
        BY <2>2 DEF Unpublished
      <4> QED BY <1>1, <2>2, <4>1 DEF OpInv, StagingKept
    <3>3. RetentionKept(o)'
      BY <1>3, <2>2, <2>5, <3>1 DEF RetentionKept
    <3>4. LockKept(o)'
      BY <1>1, <2>1, <2>2, <3>1 DEF OpInv, LockKept, Locking
    <3>5. KindKept(o)'
      BY <1>1, <2>2 DEF KindKept
    <3> QED BY <3>2, <3>3, <3>4, <3>5 DEF OpInv
  <2> QED BY <2>6, <2>7, <2>8, <2>9, <2>10, <2>11, <2>12, FsStep
<1> QED BY <1>2, <1>3 DEF MoveToTrash

LEMMA CleanupUnlinkStep == ASSUME IInv, NEW o \in Ops, CleanupUnlink(o) PROVE IInv'
<1> DEFINE T == TargetOf[o]
           A == AreaOf(o)
<1>1. /\ pc[o] = "unlinking" /\ Goto(o, "failed") /\ Unlock(o)
      /\ UNCHANGED <<data, maker, seen, staged, retained, published, outside>>
  BY DEF CleanupUnlink
<1>2. CASE UNCHANGED <<dir, hidden>>
  BY <1>1, <1>2, EndFailed DEF End, fsVars
<1>3. /\ pc' = [pc EXCEPT ![o] = "failed"] /\ pc'[o] = "failed" /\ "failed" \in Steps
      /\ T \in Names /\ A \in Areas /\ OpInv(o)
  BY <1>1, FsTypes, AreaFacts, PublicationAssumption DEF Goto, Steps, IInv
<1>4. /\ publication' \in [Processes -> Ops \cup {None}] /\ flock' \in [Areas -> Ops \cup {None}]
      /\ \A q \in Ops \ {o} : \A a \in Areas : flock[a] = q => flock'[a] = q
  BY <1>1, UnlockFacts
<1>5. \A q \in Ops \ {o} :
        /\ pc'[q] = pc[q] /\ staged'[q] = staged[q] /\ retained'[q] = retained[q]
        /\ q \in published' <=> q \in published
        /\ \A a \in Areas : flock[a] = q => flock'[a] = q
  BY <1>1, <1>3, <1>4, FsTypes
<1>6. \A q \in Ops \ {o} : Unpublished(q) => retained'[o] # staged[q]
  BY <1>1, OwnStaging
<1>7. ASSUME retained[o] # None => retained[o] \in hidden'[A] PROVE OpInv(o)'
  <2>1. AreaOf(o)' = A /\ ~Unpublished(o)'
    BY <1>3 DEF AreaOf, A, Unpublished
  <2>2. StagingKept(o)'
    BY <1>1, <1>3, <2>1 DEF OpInv, StagingKept
  <2>3. RetentionKept(o)' /\ LockKept(o)' /\ KindKept(o)'
    BY <1>1, <1>3, <1>7, <2>1 DEF RetentionKept, LockKept, KindKept, Locking
  <2> QED BY <2>2, <2>3 DEF OpInv
<1>8. /\ \A a \in Areas : \A j \in hidden[a] : data'[j] = data[j]
      /\ \A j \in Inodes : data[j] # "free" => data'[j] # "free" /\ maker'[j] = maker[j]
  BY <1>1
<1>9. CASE dir' = [dir EXCEPT ![T] = None] /\ UNCHANGED hidden
  <2>1. dir' \in [Names -> Inodes \cup {None}] /\ pc' \in [Ops -> Steps]
        /\ \A n \in Names : dir'[n] = dir[n] \/ dir'[n] = None
    BY <1>3, <1>9, FsTypes
  <2>2. TypeOK'
    BY <1>1, <1>4, <1>9, <2>1 DEF IInv, TypeOK
  <2>3. Placed'
    <3>1. \A a \in Areas : None \notin hidden[a]
      BY FsTypes
    <3> QED BY <1>1, <1>9, <2>1, <3>1, FsTypes DEF IInv, Placed
  <2>4. QuarantinesBounded' /\ \A a \in Areas : IsFiniteSet(hidden'[a])
    BY <1>9 DEF IInv, QuarantinesBounded
  <2>5. PublicNeverPartial'
    BY <1>1, <2>1 DEF IInv, PublicNeverPartial
  <2>6. OpInv(o)'
    BY <1>3, <1>7, <1>9 DEF OpInv, RetentionKept
  <2>7. \A q \in Ops \ {o} : pc[q] = "opened" => Cardinality(hidden'[AreaOf(q)]) < MaxArtifacts
    BY <1>9 DEF IInv, OpInv, LockKept
  <2>8. Frame(o, None)
    BY <1>1, <1>5, <1>6, <1>8, <1>9, <2>7, FrameOf
  <2> QED BY <2>2, <2>3, <2>4, <2>5, <2>6, <2>8, FsStep
<1> DEFINE x == staged[o]
<1>10. CASE o \notin published /\ hidden' = [hidden EXCEPT ![A] = hidden[A] \ {x}] /\ UNCHANGED dir
  <2>1. Unpublished(o)
    BY <1>1, <1>10 DEF Unpublished
  <2>2. \A q \in Ops : retained[q] # x
    BY <2>1, OwnStaging
  <2> HIDE DEF x, A
  <2>3. hidden'[A] = hidden[A] \ {x} /\ \A a \in Areas \ {A} : hidden'[a] = hidden[a]
    BY <1>3, <1>10, FsTypes
  <2>4. TypeOK'
    <3>1. hidden' \in [Areas -> SUBSET Inodes] /\ pc' \in [Ops -> Steps]
      BY <1>3, <1>10, FsTypes
    <3> QED BY <1>1, <1>4, <1>10, <3>1 DEF IInv, TypeOK
  <2>5. \A a \in Areas : hidden'[a] \subseteq hidden[a] /\ hidden[a] \ {x} \subseteq hidden'[a]
    BY <2>3
  <2>6. Placed'
    BY <1>1, <1>10, <2>5 DEF IInv, Placed
  <2>7. ASSUME NEW a \in Areas
        PROVE  /\ IsFiniteSet(hidden'[a]) /\ Cardinality(hidden'[a]) <= Cardinality(hidden[a])
               /\ Cardinality(hidden'[a]) \in Nat /\ Cardinality(hidden[a]) \in Nat
    <3>1. IsFiniteSet(hidden[a]) /\ hidden'[a] \in SUBSET hidden[a]
      BY <2>5 DEF IInv
    <3>2. IsFiniteSet(hidden'[a]) /\ Cardinality(hidden'[a]) <= Cardinality(hidden[a])
      BY <3>1, FS_Subset
    <3> QED BY <3>1, <3>2, FS_CardinalityType
  <2>8. QuarantinesBounded'
    <3> SUFFICES ASSUME NEW a \in {"write", "trash"} PROVE Cardinality(hidden'[a]) <= MaxArtifacts
      BY DEF QuarantinesBounded
    <3>1. a \in Areas /\ MaxArtifacts \in Nat /\ Cardinality(hidden[a]) <= MaxArtifacts
      BY PublicationAssumption DEF Areas, IInv, QuarantinesBounded
    <3> QED BY <2>7, <3>1
  <2>9. PublicNeverPartial'
    BY <1>1, <1>10 DEF IInv, PublicNeverPartial
  <2>10. ASSUME NEW q \in Ops \ {o}, pc[q] = "opened"
         PROVE  Cardinality(hidden'[AreaOf(q)]) < MaxArtifacts
    <3>1. AreaOf(q) \in Areas /\ Cardinality(hidden[AreaOf(q)]) < MaxArtifacts /\ MaxArtifacts \in Nat
      BY <2>10, AreaFacts, PublicationAssumption DEF IInv, OpInv, LockKept
    <3> QED BY <2>7, <3>1
  <2>11. Frame(o, x)
    <3>1. x = None \/ (Unpublished(o) /\ x = staged[o])
      BY <2>1 DEF x
    <3> QED BY <1>1, <1>5, <1>6, <1>8, <2>5, <2>10, <3>1, FrameOf
  <2>12. OpInv(o)'
    <3>1. retained[o] # None => retained[o] \in hidden[A]
      BY <1>3 DEF OpInv, RetentionKept, A
    <3> QED BY <1>7, <2>2, <2>3, <3>1
  <2> QED BY <2>4, <2>6, <2>7, <2>8, <2>9, <2>11, <2>12, FsStep
<1> QED BY <1>2, <1>9, <1>10 DEF CleanupUnlink

-----------------------------------------------------------------------------
(* A process is killed *)

LEMMA KillStep == ASSUME IInv, NEW p \in Processes, Kill(p) PROVE IInv'
<1> DEFINE mine == {o \in Ops : ProcessOf[o] = p}
<1>1. /\ pc' = [o \in Ops |-> IF o \in mine /\ pc[o] \notin {"ok", "failed"}
                              THEN "killed" ELSE pc[o]]
      /\ publication' = [publication EXCEPT ![p] = None]
      /\ flock' = [a \in Areas |-> IF flock[a] \in mine THEN None ELSE flock[a]]
      /\ UNCHANGED <<dir, hidden, data, maker, seen, staged, retained, published, outside>>
  BY DEF Kill, fsVars
<1>2. TypeOK'
  <2>1. pc' \in [Ops -> Steps]
    BY <1>1 DEF IInv, TypeOK, Steps
  <2>2. publication' \in [Processes -> Ops \cup {None}] /\ flock' \in [Areas -> Ops \cup {None}]
    BY <1>1, LockTypes
  <2> QED BY <1>1, <2>1, <2>2 DEF IInv, TypeOK
<1>3. /\ Placed' /\ QuarantinesBounded' /\ PublicNeverPartial'
      /\ \A a \in Areas : IsFiniteSet(hidden'[a])
  BY <1>1 DEF IInv, Placed, QuarantinesBounded, PublicNeverPartial
<1>4. ASSUME NEW o \in Ops PROVE OpInv(o)'
  <2>1. OpInv(o) /\ AreaOf(o)' = AreaOf(o) /\ Replaces(o)' = Replaces(o) /\ AreaOf(o) \in Areas
    BY <1>1, AreaFacts DEF IInv, AreaOf, Replaces
  <2>2. CASE pc'[o] = "killed"
    <3>1. ~Unpublished(o)' /\ LockKept(o)' /\ KindKept(o)'
      BY <2>2 DEF Unpublished, LockKept, KindKept, Locking
    <3>2. StagingKept(o)' /\ RetentionKept(o)'
      BY <1>1, <2>1, <2>2, <3>1 DEF OpInv, StagingKept, RetentionKept
    <3> QED BY <3>1, <3>2 DEF OpInv
  <2>3. CASE pc'[o] = pc[o]
    <3>1. Unpublished(o)' = Unpublished(o)
      BY <1>1, <2>3 DEF Unpublished
    <3>2. StagingKept(o)' /\ RetentionKept(o)' /\ KindKept(o)'
      BY <1>1, <2>1, <2>3, <3>1 DEF OpInv, StagingKept, RetentionKept, KindKept
    <3>3. ASSUME pc[o] \in Locking PROVE o \notin mine
      BY <1>1, <2>3, <3>3 DEF Locking
    <3>4. LockKept(o)'
      BY <1>1, <2>1, <2>3, <3>3 DEF OpInv, LockKept
    <3> QED BY <3>2, <3>4 DEF OpInv
  <2> QED BY <1>1, <2>2, <2>3
<1> QED BY <1>2, <1>3, <1>4 DEF IInv

-----------------------------------------------------------------------------
(* The inductive invariant *)

LEMMA InitInv == Init => IInv
<1> SUFFICES ASSUME Init PROVE IInv
  OBVIOUS
<1>1. /\ dir \in [Names -> Inodes \cup {None}]
      /\ \A n \in Names : dir[n] # None => n \in DOMAIN Initial /\ dir[n] = Initial[n]
  BY PublicationAssumption DEF Init
<1>2. data \in [Inodes -> {"file", "free"}] /\ "file" \in Contents /\ "free" \in Contents
  BY DEF Init, Contents
<1>3. TypeOK
  <2>1. seen \in [Ops -> [inode : Inodes \cup {None}, data : Contents]]
    BY <1>2 DEF Init, Unseen, Identity
  <2>2. pc \in [Ops -> Steps] /\ hidden \in [Areas -> SUBSET Inodes]
    BY DEF Init, Steps
  <2>3. data \in [Inodes -> Contents]
    BY <1>2
  <2>4. outside \in 0..MaxOutside
    BY PublicationAssumption DEF Init
  <2> QED BY <1>1, <2>1, <2>2, <2>3, <2>4 DEF Init, TypeOK
<1>4. \A n \in Names : dir[n] # None => data[dir[n]] = "file"
  BY <1>1, PublicationAssumption DEF Init
<1>5. Placed
  <2>1. \A a \in Areas : hidden[a] = {}
    BY DEF Init
  <2>2. \A i \in Inodes : data[i] = "free" => \A n \in Names : dir[n] # i
    BY <1>4, PublicationAssumption
  <2>3. \A m, n \in Names : dir[m] = dir[n] /\ dir[m] # None => m = n
    BY <1>1, LinkAssumption
  <2> QED BY <2>1, <2>2, <2>3 DEF Placed
<1>6. PublicNeverPartial
  BY <1>4 DEF PublicNeverPartial
<1>7. (\A a \in Areas : IsFiniteSet(hidden[a])) /\ QuarantinesBounded
  <2>1. \A a \in Areas : hidden[a] = {}
    BY DEF Init
  <2>2. IsFiniteSet({}) /\ Cardinality({}) = 0 /\ MaxArtifacts \in Nat
    BY FS_EmptySet, PublicationAssumption
  <2> QED BY <2>1, <2>2 DEF QuarantinesBounded, Areas
<1>8. ASSUME NEW o \in Ops PROVE OpInv(o)
  BY DEF Init, OpInv, StagingKept, RetentionKept, LockKept, KindKept, Unpublished, Locking
<1> QED BY <1>3, <1>5, <1>6, <1>7, <1>8 DEF IInv

\* One step per action.
LEMMA NextInv == IInv /\ [Next]_vars => IInv'
<1> SUFFICES ASSUME IInv, [Next]_vars PROVE IInv'
  OBVIOUS
<1>1. CASE UNCHANGED vars
  <2>1. /\ UNCHANGED <<dir, hidden, data, maker, publication, flock>>
        /\ UNCHANGED <<pc, seen, staged, retained, published, outside>>
    BY <1>1 DEF vars, fsVars, lockVars, opVars
  <2>2. TypeOK' /\ Placed' /\ QuarantinesBounded' /\ PublicNeverPartial'
        /\ \A a \in Areas : IsFiniteSet(hidden'[a])
    BY <2>1 DEF IInv, TypeOK, Placed, QuarantinesBounded, PublicNeverPartial
  <2>3. ASSUME NEW o \in Ops PROVE OpInv(o)'
    <3>1. OpInv(o)
      BY DEF IInv
    <3> QED BY <2>1, <3>1 DEF OpInv, StagingKept, RetentionKept, LockKept, KindKept,
                              Unpublished, AreaOf, Replaces
  <2> QED BY <2>2, <2>3 DEF IInv
<1>2. ASSUME NEW n \in Names, NEW i \in Inodes, OutsideWrite(n, i) PROVE IInv'
  BY <1>2, OutsideStep
<1>3. ASSUME NEW p \in Processes, Kill(p) PROVE IInv'
  BY <1>3, KillStep
<1>4. ASSUME NEW o \in Ops, Prepare(o) \/ LockPublication(o) \/ Revalidate(o) \/ Authorize(o)
      PROVE  IInv'
  BY <1>4, PrepareStep, LockPublicationStep, RevalidateStep, AuthorizeStep
<1>5. ASSUME NEW o \in Ops, OpenQuarantine(o) \/ (\E i \in Inodes : Stage(o, i)) \/ StageFails(o)
      PROVE  IInv'
  BY <1>5, OpenQuarantineStep, StageStep, EndFailed DEF StageFails
<1>6. ASSUME NEW o \in Ops, Fill(o) \/ Publish(o) \/ Exchange(o) \/ MoveToTrash(o) PROVE IInv'
  BY <1>6, FillStep, PublishStep, ExchangeStep, MoveToTrashStep
<1>7. ASSUME NEW o \in Ops, Recheck(o) PROVE IInv'
  BY <1>7, LookStep, EndFailed DEF Recheck
<1>8. ASSUME NEW o \in Ops, CleanupStat(o) PROVE IInv'
  BY <1>8, LookStep, EndFailed DEF CleanupStat
<1>9. ASSUME NEW o \in Ops, Verify(o) \/ CleanupUnlink(o) PROVE IInv'
  BY <1>9, VerifyStep, CleanupUnlinkStep
<1> QED BY <1>1, <1>2, <1>3, <1>4, <1>5, <1>6, <1>7, <1>8, <1>9 DEF Next

\* The invariant holds for every number of operations, processes and inodes,
\* with a writer outside, failures and kills between any two calls.
THEOREM InductiveInvariant == Spec => []IInv
BY InitInv, NextInv, PTL DEF Spec

\* Every variable keeps its type.
THEOREM TypeCorrect == Spec => []TypeOK
<1>1. IInv => TypeOK
  BY DEF IInv
<1> QED BY <1>1, InductiveInvariant, PTL

\* Two processes never overfill a quarantine: the room checked under its
\* advisory lock is still there when the operation takes it.
THEOREM QuarantineSafety == Spec => []QuarantinesBounded
<1>1. IInv => QuarantinesBounded
  BY DEF IInv
<1> QED BY <1>1, InductiveInvariant, PTL

\* A public name never shows a file before its contents are complete.
THEOREM PublicationSafety == Spec => []PublicNeverPartial
<1>1. IInv => PublicNeverPartial
  BY DEF IInv
<1> QED BY <1>1, InductiveInvariant, PTL

\* What a successful replacement or trash took from its public name is the
\* inode of the grant and stays in the quarantine.
THEOREM RecoverySafety == Spec => []RecoveryRetained
<1>1. IInv => RecoveryRetained
  <2> SUFFICES ASSUME IInv, NEW o \in Ops, pc[o] = "ok"
               PROVE  /\ Replaces(o) => seen[o].inode \in hidden["write"]
                      /\ KindOf[o] = "trash" => /\ seen[o].inode \in hidden["trash"]
                                                /\ data[seen[o].inode] = seen[o].data
    BY DEF RecoveryRetained
  <2>1. RetentionKept(o)
    BY DEF IInv, OpInv
  <2>2. Replaces(o) => KindOf[o] = "write" /\ retained[o] # None /\ retained[o] = seen[o].inode
    BY <2>1 DEF RetentionKept, Replaces
  <2> QED BY <2>1, <2>2, AreaFacts DEF RetentionKept
<1> QED BY <1>1, InductiveInvariant, PTL

-----------------------------------------------------------------------------
(* What may be lost *)

LEMMA LinkedIff ==
    ASSUME NEW i
    PROVE  i \in Linked <=> \/ i # None /\ \E n \in Names : dir[n] = i
                            \/ \E a \in Areas : i \in hidden[a]
BY DEF Linked

LEMMA LinkedIffNext ==
    ASSUME NEW i
    PROVE  i \in Linked' <=> \/ i # None /\ \E n \in Names : dir'[n] = i
                             \/ \E a \in Areas : i \in hidden'[a]
BY DEF Linked

\* The three renames and the staging keep a name for everything that has one.
LEMMA RenameKeeps ==
    ASSUME IInv, NEW o \in Ops,
           (\E i \in Inodes : Stage(o, i)) \/ Publish(o) \/ Exchange(o) \/ MoveToTrash(o)
    PROVE  Linked \subseteq Linked'
<1>1. /\ TargetOf[o] \in Names /\ AreaOf(o) \in Areas /\ "write" \in Areas /\ "trash" \in Areas
      /\ dir \in [Names -> Inodes \cup {None}] /\ hidden \in [Areas -> SUBSET Inodes]
  BY AreaFacts, FsTypes, PublicationAssumption DEF Areas
<1>2. CASE UNCHANGED <<dir, hidden>>
  BY <1>2 DEF Linked
<1>3. ASSUME NEW i \in Inodes, Stage(o, i) PROVE Linked \subseteq Linked'
  <2>1. dir' = dir /\ hidden' = [hidden EXCEPT ![AreaOf(o)] = hidden[AreaOf(o)] \cup {i}]
    BY <1>3 DEF Stage
  <2>2. \A a \in Areas : hidden[a] \subseteq hidden'[a]
    BY <1>1, <2>1
  <2> QED BY <2>1, <2>2, LinkedIff, LinkedIffNext
<1>4. CASE Publish(o) /\ ~UNCHANGED <<dir, hidden>>
  <2>1. /\ Target(o) = None /\ pc[o] = "staged"
        /\ dir' = [dir EXCEPT ![TargetOf[o]] = staged[o]]
        /\ hidden' = [hidden EXCEPT ![AreaOf(o)] = hidden[AreaOf(o)] \ {staged[o]}]
    BY <1>4 DEF Publish, Fail, End, fsVars
  <2>2. /\ dir'[TargetOf[o]] = staged[o] /\ \A a \in Areas : hidden[a] \ {staged[o]} \subseteq hidden'[a]
        /\ \A n \in Names \ {TargetOf[o]} : dir'[n] = dir[n]
    BY <1>1, <2>1
  <2>3. Unpublished(o) /\ staged[o] # None
    <3>1. Unpublished(o)
      BY <2>1 DEF Unpublished
    <3> QED BY <3>1, OwnStaging, FsTypes
  <2> QED BY <1>1, <2>1, <2>2, <2>3, LinkedIff, LinkedIffNext DEF Target
<1>5. CASE Exchange(o) /\ ~UNCHANGED <<dir, hidden>>
  <2>1. /\ Target(o) # None /\ pc[o] = "checked"
        /\ dir' = [dir EXCEPT ![TargetOf[o]] = staged[o]]
        /\ hidden' = [hidden EXCEPT !["write"] = (hidden["write"] \ {staged[o]}) \cup {Target(o)}]
    BY <1>5 DEF Exchange, End, fsVars
  <2>2. /\ dir'[TargetOf[o]] = staged[o] /\ \A a \in Areas : hidden[a] \ {staged[o]} \subseteq hidden'[a]
        /\ \A n \in Names \ {TargetOf[o]} : dir'[n] = dir[n]
        /\ Target(o) \in hidden'["write"]
    BY <1>1, <2>1
  <2>3. Unpublished(o) /\ staged[o] # None
    <3>1. Unpublished(o)
      BY <2>1 DEF Unpublished
    <3> QED BY <3>1, OwnStaging, FsTypes
  <2> QED BY <1>1, <2>2, <2>3, LinkedIff, LinkedIffNext DEF Target
<1>6. CASE MoveToTrash(o) /\ ~UNCHANGED <<dir, hidden>>
  <2>1. /\ Target(o) # None
        /\ dir' = [dir EXCEPT ![TargetOf[o]] = None]
        /\ hidden' = [hidden EXCEPT !["trash"] = hidden["trash"] \cup {Target(o)}]
    BY <1>6 DEF MoveToTrash, End, fsVars
  <2>2. /\ \A a \in Areas : hidden[a] \subseteq hidden'[a]
        /\ \A n \in Names \ {TargetOf[o]} : dir'[n] = dir[n]
        /\ Target(o) \in hidden'["trash"]
    BY <1>1, <2>1
  <2> QED BY <1>1, <2>2, LinkedIff, LinkedIffNext DEF Target
<1> QED BY <1>2, <1>3, <1>4, <1>5, <1>6

\* Only a writer outside and a cleanup take a name away for good.
LEMMA LostHow ==
    ASSUME IInv, [Next]_vars, outside' = outside, ~(Linked \subseteq Linked')
    PROVE  \E o \in Ops : CleanupUnlink(o)
<1>1. ~UNCHANGED <<dir, hidden>>
  BY DEF Linked
<1>2. Next
  BY <1>1 DEF vars, fsVars
<1>3. ASSUME NEW n \in Names, NEW i \in Inodes, OutsideWrite(n, i) PROVE FALSE
  <2>1. outside' = outside + 1 /\ outside \in Nat
    BY <1>3 DEF OutsideWrite, IInv, TypeOK
  <2> QED BY <2>1
<1>4. ASSUME NEW p \in Processes, Kill(p) PROVE FALSE
  BY <1>1, <1>4 DEF Kill, fsVars
<1>5. ASSUME NEW o \in Ops, Prepare(o) \/ LockPublication(o) \/ Revalidate(o) \/ Authorize(o)
      PROVE  FALSE
  BY <1>1, <1>5 DEF Prepare, LockPublication, Revalidate, Authorize, End, fsVars
<1>6. ASSUME NEW o \in Ops,
             OpenQuarantine(o) \/ StageFails(o) \/ Fill(o) \/ Recheck(o) \/ Verify(o) \/ CleanupStat(o)
      PROVE  FALSE
  BY <1>1, <1>6 DEF OpenQuarantine, StageFails, Fill, Recheck, Verify, CleanupStat, Fail, End, fsVars
<1>7. ASSUME NEW o \in Ops,
             (\E i \in Inodes : Stage(o, i)) \/ Publish(o) \/ Exchange(o) \/ MoveToTrash(o)
      PROVE  FALSE
  BY <1>7, RenameKeeps
<1> QED BY <1>2, <1>3, <1>4, <1>5, <1>6, <1>7 DEF Next

\* Whoever is outside, the renames lose nothing.
THEOREM RenameSafety == Spec => RenamesLoseNothing
<1>1. IInv /\ [Next]_vars => [RenamesKeep]_vars
  <2> SUFFICES ASSUME IInv, [Next]_vars, outside' = outside,
                      \A o \in Ops : pc[o] = "unlinking" => pc'[o] = "unlinking",
                      ~(Linked \subseteq Linked')
               PROVE  FALSE
    BY DEF RenamesKeep
  <2>1. PICK o \in Ops : CleanupUnlink(o)
    BY LostHow
  <2>2. pc[o] = "unlinking" /\ pc'[o] = "failed"
    BY <2>1, FsTypes DEF CleanupUnlink, Goto
  <2> QED BY <2>2
<1> QED BY <1>1, InductiveInvariant, PTL DEF Spec, RenamesLoseNothing

-----------------------------------------------------------------------------
(* Cleanups, with nobody outside *)

LEMMA GuardsStep == ASSUME IInv, GuardsKept, [Next]_vars PROVE GuardsKept'
<1> DEFINE Late == {"moved", "failing", "unlinking", "ok", "failed", "killed"}
<1> SUFFICES ASSUME NEW q \in Ops, q \in published' PROVE pc'[q] \in Late
  <2>1. published' \subseteq Ops
    BY NextInv DEF IInv, TypeOK
  <2> QED BY <2>1 DEF GuardsKept
<1>1. q \in published => pc[q] \in Late
  BY DEF GuardsKept
<1>2. CASE UNCHANGED <<pc, published>>
  BY <1>1, <1>2
<1>3. ASSUME NEW p \in Processes, Kill(p) PROVE pc'[q] \in Late
  BY <1>1, <1>3 DEF Kill
<1>4. ASSUME NEW o \in Ops, NEW step, Goto(o, step), UNCHANGED published,
             pc[o] \in Late => step \in Late
      PROVE  pc'[q] \in Late
  BY <1>1, <1>4, FsTypes DEF Goto
<1>5. ASSUME NEW o \in Ops, NEW step \in Late, Goto(o, step), published' \subseteq published \cup {o}
      PROVE  pc'[q] \in Late
  BY <1>1, <1>5, FsTypes DEF Goto
<1>6. ASSUME NEW o \in Ops, End(o, "ok") \/ End(o, "failed") \/ Fail(o) PROVE pc'[q] \in Late
  <2>1. PICK step \in Late : Goto(o, step) /\ UNCHANGED published
    BY <1>6 DEF Fail, End
  <2> QED BY <1>5, <2>1
<1>7. ASSUME NEW n \in Names, NEW i \in Inodes, OutsideWrite(n, i) PROVE pc'[q] \in Late
  BY <1>2, <1>7 DEF OutsideWrite, opVars
<1>8. ASSUME NEW o \in Ops,
             \/ Prepare(o) \/ LockPublication(o) \/ Revalidate(o) \/ Authorize(o)
             \/ OpenQuarantine(o) \/ (\E i \in Inodes : Stage(o, i)) \/ StageFails(o)
      PROVE  pc'[q] \in Late
  <2>1. CASE End(o, "failed")
    BY <1>6, <2>1
  <2>2. CASE ~End(o, "failed")
    <3>1. pc[o] \notin Late /\ UNCHANGED published
      BY <1>8, <2>2 DEF Prepare, LockPublication, Revalidate, Authorize, OpenQuarantine,
                        Stage, StageFails
    <3>2. PICK step : Goto(o, step)
      BY <1>8, <2>2 DEF Prepare, LockPublication, Revalidate, Authorize, OpenQuarantine,
                        Stage, StageFails
    <3> QED BY <1>4, <3>1, <3>2
  <2> QED BY <2>1, <2>2
<1>9. ASSUME NEW o \in Ops,
             \/ Fill(o) \/ Publish(o) \/ Recheck(o) \/ Exchange(o) \/ MoveToTrash(o)
             \/ Verify(o) \/ CleanupStat(o) \/ CleanupUnlink(o)
      PROVE  pc'[q] \in Late
  <2>1. CASE End(o, "ok") \/ End(o, "failed") \/ Fail(o)
    BY <1>6, <2>1
  <2>2. CASE Fill(o) /\ ~Fail(o)
    BY <1>4, <2>2 DEF Fill
  <2>3. CASE Recheck(o) /\ ~End(o, "failed")
    BY <1>4, <2>3 DEF Recheck
  <2>4. CASE Publish(o) /\ ~Fail(o)
    BY <1>5, <2>4 DEF Publish
  <2>5. CASE (Exchange(o) \/ MoveToTrash(o)) /\ ~End(o, "failed")
    <3>1. Goto(o, "moved") /\ UNCHANGED published
      BY <2>5 DEF Exchange, MoveToTrash
    <3> QED BY <1>5, <3>1
  <2>6. CASE CleanupStat(o) /\ ~End(o, "failed")
    BY <1>5, <2>6 DEF CleanupStat
  <2>7. CASE CleanupUnlink(o)
    BY <1>5, <2>7 DEF CleanupUnlink
  <2>8. CASE Verify(o)
    BY <2>1, <2>8 DEF Verify
  <2> QED BY <1>9, <2>1, <2>2, <2>3, <2>4, <2>5, <2>6, <2>7, <2>8
<1>10. CASE UNCHANGED vars
  BY <1>2, <1>10 DEF vars, opVars
<1> QED BY <1>3, <1>7, <1>8, <1>9, <1>10 DEF Next

\* An operation that ended takes no step again.
LEMMA EndedStays ==
    ASSUME IInv, [Next]_vars, NEW q \in Ops, pc[q] \in {"ok", "failed", "killed"}
    PROVE  pc'[q] \in {"ok", "failed", "killed"}
<1>1. CASE pc' = pc
  BY <1>1
<1>2. ASSUME NEW p \in Processes, Kill(p) PROVE pc'[q] \in {"ok", "failed", "killed"}
  BY <1>2 DEF Kill
<1>3. ASSUME NEW o \in Ops, pc[o] \notin {"ok", "failed", "killed"}, NEW step, Goto(o, step)
      PROVE  pc'[q] \in {"ok", "failed", "killed"}
  BY <1>3, FsTypes DEF Goto
<1>4. ASSUME NEW o \in Ops,
             \/ Prepare(o) \/ LockPublication(o) \/ Revalidate(o) \/ Authorize(o)
             \/ OpenQuarantine(o) \/ (\E i \in Inodes : Stage(o, i)) \/ StageFails(o)
      PROVE  pc'[q] \in {"ok", "failed", "killed"}
  <2>1. pc[o] \notin {"ok", "failed", "killed"}
    BY <1>4 DEF Prepare, LockPublication, Revalidate, Authorize, OpenQuarantine, Stage, StageFails
  <2>2. PICK step : Goto(o, step)
    BY <1>4 DEF Prepare, LockPublication, Revalidate, Authorize, OpenQuarantine, Stage,
                StageFails, End
  <2> QED BY <1>3, <2>1, <2>2
<1>5. ASSUME NEW o \in Ops,
             \/ Fill(o) \/ Publish(o) \/ Recheck(o) \/ Exchange(o) \/ MoveToTrash(o)
             \/ Verify(o) \/ CleanupStat(o) \/ CleanupUnlink(o)
      PROVE  pc'[q] \in {"ok", "failed", "killed"}
  <2>1. pc[o] \notin {"ok", "failed", "killed"}
    BY <1>5 DEF Fill, Publish, Recheck, Exchange, MoveToTrash, Verify, CleanupStat, CleanupUnlink
  <2>2. PICK step : Goto(o, step)
    BY <1>5 DEF Fill, Publish, Recheck, Exchange, MoveToTrash, Verify, CleanupStat,
                CleanupUnlink, Fail, End
  <2> QED BY <1>3, <2>1, <2>2
<1>6. CASE UNCHANGED vars
  BY <1>1, <1>6 DEF vars, opVars
<1>7. ASSUME NEW n \in Names, NEW i \in Inodes, OutsideWrite(n, i) PROVE pc' = pc
  BY <1>7 DEF OutsideWrite, opVars
<1> QED BY <1>1, <1>2, <1>4, <1>5, <1>6, <1>7 DEF Next

\* A cleanup guard comes to follow a public name in a publication only.
LEMMA GuardComes ==
    ASSUME IInv, [Next]_vars, NEW q \in Ops, q \notin published, q \in published'
    PROVE  dir'[TargetOf[q]] = staged'[q]
<1>1. ~UNCHANGED published
  OBVIOUS
<1>2. Next
  BY <1>1 DEF vars, opVars
<1>3. PICK o \in Ops : Publish(o)
  <2>1. ASSUME NEW n \in Names, NEW i \in Inodes, OutsideWrite(n, i) PROVE FALSE
    BY <1>1, <2>1 DEF OutsideWrite, opVars
  <2>2. ASSUME NEW p \in Processes, Kill(p) PROVE FALSE
    BY <1>1, <2>2 DEF Kill
  <2>3. ASSUME NEW o \in Ops,
               \/ Prepare(o) \/ LockPublication(o) \/ Revalidate(o) \/ Authorize(o)
               \/ OpenQuarantine(o) \/ (\E i \in Inodes : Stage(o, i)) \/ StageFails(o)
        PROVE  FALSE
    BY <1>1, <2>3 DEF Prepare, LockPublication, Revalidate, Authorize, OpenQuarantine, Stage,
                      StageFails, End
  <2>4. ASSUME NEW o \in Ops,
               \/ Fill(o) \/ Recheck(o) \/ Exchange(o) \/ MoveToTrash(o)
               \/ Verify(o) \/ CleanupStat(o) \/ CleanupUnlink(o)
        PROVE  FALSE
    BY <1>1, <2>4 DEF Fill, Recheck, Exchange, MoveToTrash, Verify, CleanupStat,
                      CleanupUnlink, Fail, End
  <2> QED BY <1>2, <2>1, <2>2, <2>3, <2>4 DEF Next
<1>4. /\ dir' = [dir EXCEPT ![TargetOf[o]] = staged[o]]
      /\ published' = published \cup {o} /\ staged' = staged
  BY <1>1, <1>3 DEF Publish, Fail, End
<1>5. q = o /\ TargetOf[o] \in Names
  BY <1>4, PublicationAssumption
<1> QED BY <1>4, <1>5, FsTypes

\* The name that copy q published, while it may still clean it up.
LEMMA NameStays ==
    ASSUME IInv, MaxOutside = 0, Next, NEW q \in Ops, KindOf[q] = "copy", q \in published,
           pc[q] \in {"moved", "failing", "unlinking"}
    PROVE  /\ staged'[q] = staged[q]
           /\ \/ /\ dir'[TargetOf[q]] = dir[TargetOf[q]]
                 /\ dir[TargetOf[q]] # None =>
                       data'[dir[TargetOf[q]]] = data[dir[TargetOf[q]]]
              \/ dir'[TargetOf[q]] = None
              \/ data'[dir'[TargetOf[q]]] = "directory"
<1> DEFINE T == TargetOf[q]
           Goal == /\ staged'[q] = staged[q]
                   /\ \/ dir'[T] = dir[T] /\ (dir[T] # None => data'[dir[T]] = data[dir[T]])
                      \/ dir'[T] = None
                      \/ data'[dir'[T]] = "directory"
<1> SUFFICES Goal
  OBVIOUS
<1>1. T \in Names /\ flock["write"] = q
  <2>1. LockKept(q) /\ AreaOf(q) = "write" /\ pc[q] \in Locking
    BY AreaFacts DEF IInv, OpInv, Locking
  <2> QED BY <2>1, PublicationAssumption DEF LockKept
<1>2. ASSUME NEW o \in Ops, pc[o] \in Locking, KindOf[o] \in {"copy", "write"} PROVE o = q
  <2>1. LockKept(o) /\ AreaOf(o) = "write"
    BY <1>2, AreaFacts DEF IInv, OpInv
  <2> QED BY <1>1, <1>2, <2>1 DEF LockKept
<1>3. CASE UNCHANGED <<dir, data, staged>>
  BY <1>3
<1>4. ASSUME NEW n \in Names, NEW i \in Inodes, OutsideWrite(n, i) PROVE FALSE
  <2>1. outside < MaxOutside /\ outside \in Nat
    BY <1>4 DEF OutsideWrite, IInv, TypeOK
  <2> QED BY <2>1
<1>5. ASSUME NEW p \in Processes, Kill(p) PROVE Goal
  BY <1>3, <1>5 DEF Kill, fsVars
<1>6. ASSUME NEW o \in Ops,
             \/ Prepare(o) \/ LockPublication(o) \/ Revalidate(o) \/ Authorize(o)
             \/ OpenQuarantine(o) \/ StageFails(o)
      PROVE  Goal
  BY <1>3, <1>6 DEF Prepare, LockPublication, Revalidate, Authorize, OpenQuarantine,
                    StageFails, End, fsVars
<1>7. ASSUME NEW o \in Ops, Recheck(o) \/ Verify(o) \/ CleanupStat(o) PROVE Goal
  BY <1>3, <1>7 DEF Recheck, Verify, CleanupStat, Fail, End, fsVars
<1>8. ASSUME NEW o \in Ops, NEW i \in Inodes, Stage(o, i) PROVE Goal
  <2>1. /\ data[i] = "free" /\ data' = [data EXCEPT ![i] = IF KindOf[o] = "mkdir" THEN "directory"
                                                                                 ELSE "partial"]
        /\ staged' = [staged EXCEPT ![o] = i] /\ dir' = dir
        /\ pc[o] \in {"opened", "authorized"}
    BY <1>8 DEF Stage
  <2>2. staged'[q] = staged[q]
    BY <2>1, FsTypes
  <2>3. dir[T] # i
    BY <1>1, <2>1 DEF IInv, Placed
  <2>4. dir[T] # None => data'[dir[T]] = data[dir[T]]
    BY <1>1, <2>1, <2>3, FsTypes
  <2> QED BY <2>1, <2>2, <2>4
<1>9. ASSUME NEW o \in Ops, Fill(o) PROVE Goal
  <2>1. CASE Fail(o)
    BY <1>3, <2>1 DEF Fail, End, fsVars
  <2>2. CASE ~Fail(o)
    <3>1. /\ pc[o] = "created" /\ UNCHANGED <<dir, staged>>
          /\ data' = data \/ data' = [data EXCEPT ![staged[o]] = o]
      BY <1>9, <2>2 DEF Fill
    <3>2. Unpublished(o)
      BY <3>1 DEF Unpublished
    <3>3. staged[o] \in Inodes /\ dir[T] # staged[o]
      BY <1>1, <3>2, OwnStaging
    <3>4. dir[T] # None => data'[dir[T]] = data[dir[T]]
      BY <1>1, <3>1, <3>3, FsTypes
    <3> QED BY <3>1, <3>4
  <2> QED BY <2>1, <2>2
<1>10. ASSUME NEW o \in Ops, Publish(o) PROVE Goal
  <2>1. CASE Fail(o)
    BY <1>3, <2>1 DEF Fail, End, fsVars
  <2>2. CASE ~Fail(o)
    <3>1. /\ pc[o] = "staged" /\ UNCHANGED <<data, staged>>
          /\ dir' = [dir EXCEPT ![TargetOf[o]] = staged[o]]
      BY <1>10, <2>2 DEF Publish
    <3>2. OpInv(o) /\ Unpublished(o) /\ pc[o] \in Locking
      BY <3>1 DEF IInv, Unpublished, Locking
    <3>3. KindOf[o] = "mkdir"
      BY <1>2, <3>1, <3>2, AreaFacts DEF OpInv, KindKept
    <3>4. data[staged[o]] = "directory"
      BY <3>2, <3>3 DEF OpInv, StagingKept
    <3> QED BY <1>1, <3>1, <3>4, FsTypes
  <2> QED BY <2>1, <2>2
<1>11. ASSUME NEW o \in Ops, Exchange(o) PROVE Goal
  <2>1. pc[o] = "checked" /\ KindOf[o] = "write" /\ pc[o] \in Locking
    BY <1>11 DEF Exchange, IInv, OpInv, KindKept, Locking
  <2> QED BY <1>2, <2>1
<1>12. ASSUME NEW o \in Ops, MoveToTrash(o) \/ CleanupUnlink(o) PROVE Goal
  <2>1. /\ UNCHANGED <<data, staged>>
        /\ dir' = dir \/ dir' = [dir EXCEPT ![TargetOf[o]] = None]
    BY <1>12 DEF MoveToTrash, CleanupUnlink, End, fsVars
  <2> QED BY <1>1, <2>1, FsTypes
<1> HIDE DEF Goal
<1> QED BY <1>4, <1>5, <1>6, <1>7, <1>8, <1>9, <1>10, <1>11, <1>12 DEF Next

LEMMA NamesStep == ASSUME CleanupInv, [Next]_vars PROVE NamesKept'
<1> SUFFICES ASSUME MaxOutside = 0, NEW q \in Ops, KindOf[q] = "copy", q \in published',
                    pc'[q] \in {"moved", "failing", "unlinking"}, dir'[TargetOf[q]] # None
             PROVE  \/ dir'[TargetOf[q]] = staged'[q]
                    \/ data'[dir'[TargetOf[q]]] = "directory"
  BY DEF NamesKept, NameKept, Target
<1>1. IInv /\ GuardsKept /\ NameKept(q)
  BY DEF CleanupInv, NamesKept
<1>2. CASE q \notin published
  BY <1>1, <1>2, GuardComes
<1>3. CASE q \in published
  <2>1. pc[q] \in {"moved", "failing", "unlinking"}
    BY <1>1, <1>3, EndedStays DEF GuardsKept
  <2>2. \/ dir[TargetOf[q]] = None \/ dir[TargetOf[q]] = staged[q]
        \/ data[dir[TargetOf[q]]] = "directory"
    BY <1>1, <1>3, <2>1 DEF NameKept, Target
  <2>3. CASE Next
    BY <1>1, <1>3, <2>1, <2>2, <2>3, NameStays
  <2>4. CASE UNCHANGED vars
    BY <2>2, <2>4 DEF vars, fsVars, opVars
  <2> QED BY <2>3, <2>4
<1> QED BY <1>2, <1>3

LEMMA CleanupInvariant == Spec => []CleanupInv
<1>1. Init => CleanupInv
  <2> SUFFICES ASSUME Init PROVE CleanupInv
    OBVIOUS
  <2>1. IInv /\ published = {}
    BY InitInv DEF Init
  <2> QED BY <2>1 DEF CleanupInv, GuardsKept, NamesKept, NameKept
<1>2. CleanupInv /\ [Next]_vars => CleanupInv'
  BY NextInv, GuardsStep, NamesStep DEF CleanupInv
<1> QED BY <1>1, <1>2, PTL DEF Spec

\* With nobody outside, nothing is lost but what a cleanup may remove.
THEOREM CleanupSafety == ASSUME MaxOutside = 0 PROVE Spec => NothingLost
<1>1. CleanupInv /\ [Next]_vars => [LosesOnlyCleanups]_vars
  <2> SUFFICES ASSUME CleanupInv, [Next]_vars, outside' = outside, NEW i \in Linked \ Linked'
               PROVE  \E o \in Ops : /\ pc[o] = "unlinking"
                                     /\ \/ maker[i] = o
                                        \/ KindOf[o] = "mkdir" /\ data[i] = "directory"
    BY DEF LosesOnlyCleanups
  <2>1. IInv /\ ~(Linked \subseteq Linked')
    BY DEF CleanupInv
  <2>2. PICK o \in Ops : CleanupUnlink(o)
    BY <2>1, LostHow
  <2>3. /\ pc[o] = "unlinking" /\ OpInv(o) /\ KindOf[o] \in {"mkdir", "copy"}
        /\ TargetOf[o] \in Names /\ AreaOf(o) \in Areas
    BY <2>1, <2>2, AreaFacts, PublicationAssumption DEF CleanupUnlink, IInv, OpInv, KindKept
  <2>4. ~UNCHANGED <<dir, hidden>>
    BY <2>1 DEF Linked
  <2>5. CASE /\ o \in published /\ Target(o) # None /\ UNCHANGED hidden
             /\ data[Target(o)] = "directory" <=> KindOf[o] = "mkdir"
             /\ dir' = [dir EXCEPT ![TargetOf[o]] = None]
    <3>1. \A n \in Names \ {TargetOf[o]} : dir'[n] = dir[n]
      BY <2>1, <2>5, FsTypes
    <3>2. i = Target(o)
      BY <2>5, <3>1, LinkedIff, LinkedIffNext DEF Target
    <3>3. CASE KindOf[o] = "mkdir"
      BY <2>3, <2>5, <3>2, <3>3
    <3>4. CASE KindOf[o] = "copy"
      <4>1. Target(o) = staged[o]
        BY <2>3, <2>5, <3>4 DEF CleanupInv, NamesKept, NameKept
      <4>2. maker[staged[o]] = o
        BY <2>3, <2>5, <4>1 DEF OpInv, StagingKept
      <4> QED BY <2>3, <3>2, <4>1, <4>2
    <3> QED BY <2>3, <3>3, <3>4
  <2>6. CASE /\ o \notin published /\ UNCHANGED dir
             /\ hidden' = [hidden EXCEPT ![AreaOf(o)] = hidden[AreaOf(o)] \ {staged[o]}]
    <3>1. \A a \in Areas : hidden[a] \ {staged[o]} \subseteq hidden'[a]
      BY <2>1, <2>3, <2>6, FsTypes
    <3>2. i = staged[o]
      BY <2>6, <3>1, LinkedIff, LinkedIffNext
    <3>3. Unpublished(o)
      BY <2>3, <2>6 DEF Unpublished
    <3> QED BY <2>1, <2>3, <3>2, <3>3, OwnStaging
  <2> QED BY <2>2, <2>4, <2>5, <2>6 DEF CleanupUnlink
<1> QED BY <1>1, CleanupInvariant, PTL DEF Spec, NothingLost
=============================================================================
