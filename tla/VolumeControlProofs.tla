-------------------------- MODULE VolumeControlProofs -------------------------
(***************************************************************************)
(* Proofs about VolumeControl for every set of calls, streams and grants   *)
(* and every range of levels.                                              *)
(***************************************************************************)
EXTENDS VolumeControl, TLAPS

\* A report that passes parse_volume_status tells the level of the stream as it
\* is: read_stream returns that level or nothing.
LEMMA ReadTrue ==
    ASSUME TypeOK, NEW s \in Streams, NEW read \in ReadStream(s)
    PROVE  read = {} \/ read = {device[s]}
<1>1. PICK doc \in Printed :
        read = {e.volume : e \in {x \in doc.entries : x.stream = s /\ ParseVolumeStatus(doc)}}
  BY DEF ReadStream
<1>2. CASE ~ParseVolumeStatus(doc)
  BY <1>1, <1>2
<1>3. CASE ParseVolumeStatus(doc)
  <2>1. ASSUME NEW e \in Report, doc.entries = (Report \ {e}) \cup {[e EXCEPT !.volume = MaxLevel + 1]}
        PROVE  FALSE
    <3> DEFINE wrong == [e EXCEPT !.volume = MaxLevel + 1]
    <3>1. PICK t \in Streams : e = [stream |-> t, volume |-> device[t], max |-> MaxLevel]
      BY DEF Report
    <3>2. wrong.volume = MaxLevel + 1 /\ wrong.max = MaxLevel
      BY <3>1
    <3>3. wrong \in doc.entries
      BY <2>1
    <3>4. MaxLevel + 1 \in 0 .. MaxLevel
      BY <1>3, <3>2, <3>3 DEF ParseVolumeStatus
    <3> QED BY <3>4, VolumeAssumption
  <2>2. ASSUME NEW e \in Report, doc.entries = Report \ {e} PROVE FALSE
    <3>1. PICK t \in Streams : e = [stream |-> t, volume |-> device[t], max |-> MaxLevel]
      BY DEF Report
    <3>2. PICK x \in doc.entries : x.stream = t
      BY <1>3 DEF ParseVolumeStatus
    <3>3. x \in Report /\ x # e
      BY <2>2, <3>2
    <3>4. PICK u \in Streams : x = [stream |-> u, volume |-> device[u], max |-> MaxLevel]
      BY <3>3 DEF Report
    <3> QED BY <3>1, <3>2, <3>3, <3>4
  <2>3. doc.entries = Report
    BY <2>1, <2>2 DEF Printed
  <2>4. \A e \in Report : e.stream = s => e.volume = device[s]
    BY DEF Report
  <2>5. \E e \in Report : e.stream = s
    <3>1. [stream |-> s, volume |-> device[s], max |-> MaxLevel] \in Report
      BY DEF Report
    <3> QED BY <3>1
  <2> QED BY <1>1, <1>3, <2>3, <2>4, <2>5
<1> QED BY <1>2, <1>3

-----------------------------------------------------------------------------
(* The end of a call *)

\* The audit records of a call that had none stay within one of each kind.
LEMMA RecordType ==
    ASSUME TypeOK, NEW c \in Calls, \A d \in Decisions : audit[c][d] = 0,
           NEW decision \in Decisions, Record(c, decision)
    PROVE  audit' \in [Calls -> [Decisions -> 0 .. 1]]
<1>1. audit[c] \in [Decisions -> 0 .. 1] /\ audit[c][decision] + 1 \in 0 .. 1
  BY DEF TypeOK
<1> QED BY <1>1 DEF Record, TypeOK

\* What a refusal of the handler and the end of a task have in common.
Ends(c, r) ==
    /\ task' = [task EXCEPT ![c] = "ended"]
    /\ result' = [result EXCEPT ![c] = r]
    /\ \E d \in Decisions : Record(c, d)
    /\ lane' = IF lane = c THEN NoOne ELSE lane

\* What the lemmas below say of a step: types and the invariant of every call
\* and of the grants, in the variables that a call's steps change.
CallTypes ==
    /\ lane \in Calls \cup {NoOne}
    /\ waiter \in [Calls -> {"new", "waiting", "answered", "dropped"}]
    /\ task \in [Calls -> {"none", "previewing", "preparing", "prepared", "ended"} \cup Executing]
    /\ result \in [Calls -> Results]
    /\ audit \in [Calls -> [Decisions -> 0 .. 1]]

\* A call that ends, refused by its handler or at the end of its task, keeps the
\* types of the call variables, frees its permit and leaves the other calls
\* alone.
LEMMA EndStep ==
    ASSUME TypeOK, \A q \in Calls : CallInv(q), NEW c \in Calls, task[c] # "ended",
           NEW r \in Results, Ends(c, r),
           waiter' \in [Calls -> {"new", "waiting", "answered", "dropped"}], waiter'[c] # "new",
           \A q \in Calls \ {c} : waiter'[q] = waiter[q] /\ args'[q] = args[q]
    PROVE  CallTypes' /\ \A q \in Calls : CallInv(q)'
<1>1. audit' \in [Calls -> [Decisions -> 0 .. 1]]
  BY RecordType DEF CallInv, Ends
<1>2. /\ lane' \in Calls \cup {NoOne} /\ result' \in [Calls -> Results]
      /\ task' \in [Calls -> {"none", "previewing", "preparing", "prepared", "ended"} \cup Executing]
  BY DEF Ends, TypeOK
<1>3. CallInv(c)'
  BY VolumeAssumption DEF CallInv, Ends, TypeOK, Executing
<1>4. ASSUME NEW q \in Calls \ {c} PROVE CallInv(q)'
  <2>1. /\ task'[q] = task[q] /\ result'[q] = result[q] /\ audit'[q] = audit[q]
        /\ (lane' = q) = (lane = q) /\ waiter'[q] = waiter[q] /\ args'[q] = args[q]
    BY VolumeAssumption DEF Ends, Record, TypeOK
  <2> QED BY <2>1 DEF CallInv
<1> QED BY <1>1, <1>2, <1>3, <1>4 DEF CallTypes

\* A call that moves to another step of its operation without a result.
LEMMA MoveStep ==
    ASSUME TypeOK, \A q \in Calls : CallInv(q), NEW c \in Calls, task[c] # "ended",
           NEW t \in {"previewing", "preparing", "prepared"} \cup Executing,
           task' = [task EXCEPT ![c] = t], UNCHANGED <<result, audit>>,
           waiter' \in [Calls -> {"new", "waiting", "answered", "dropped"}], waiter'[c] # "new",
           \A q \in Calls \ {c} : waiter'[q] = waiter[q] /\ args'[q] = args[q],
           t \in {"prepared"} \cup Executing => args'[c].level \in Levels,
           \/ t = "previewing" /\ lane # c /\ UNCHANGED lane
           \/ t # "previewing" /\ lane = c /\ UNCHANGED lane
           \/ t # "previewing" /\ lane = NoOne /\ lane' = c
    PROVE  CallTypes' /\ \A q \in Calls : CallInv(q)'
<1>1. CallTypes'
  BY DEF CallTypes, TypeOK
<1>2. CallInv(c)'
  <2>1. task'[c] = t /\ (t # "previewing" <=> lane' = c)
    BY VolumeAssumption DEF TypeOK
  <2>2. lane' = c <=> t \in {"preparing", "prepared"} \cup Executing
    BY <2>1 DEF Executing
  <2> QED BY <2>1, <2>2 DEF CallInv, Executing
<1>3. ASSUME NEW q \in Calls \ {c} PROVE CallInv(q)'
  <2>1. /\ task'[q] = task[q] /\ result'[q] = result[q] /\ audit'[q] = audit[q]
        /\ (lane' = q) = (lane = q) /\ waiter'[q] = waiter[q] /\ args'[q] = args[q]
    BY VolumeAssumption DEF TypeOK
  <2> QED BY <2>1 DEF CallInv
<1> QED BY <1>1, <1>2, <1>3

\* Grants stay spent, each for one call, in a step by which no call starts to
\* use one.
LEMMA GrantFrame ==
    ASSUME GrantInv, spent \subseteq spent',
           \A q \in Calls : Uses(q)' => Uses(q) /\ args'[q].grant = args[q].grant
    PROVE  GrantInv'
<1>1. ASSUME NEW q \in Calls, Uses(q)' PROVE args'[q].grant \in spent'
  BY <1>1 DEF GrantInv
<1>2. ASSUME NEW q \in Calls, NEW d \in Calls, Uses(q)', Uses(d)', args'[q].grant = args'[d].grant
      PROVE  q = d
  BY <1>2 DEF GrantInv
<1> QED BY <1>1, <1>2 DEF GrantInv

-----------------------------------------------------------------------------
(* Every step keeps the invariant *)

\* The state outside the call variables.
DeviceTypes ==
    /\ device \in [Streams -> Levels]
    /\ spent \subseteq Grants
    /\ args \in [Calls -> Args]
    /\ before \in [Calls -> Levels]
    /\ late \subseteq [stream : Streams, level : Levels]
    /\ outside \in 0 .. MaxOutside
    /\ touched \in BOOLEAN

\* The invariant holds of the initial state.
LEMMA InitInv == Init => IInv
<1> SUFFICES ASSUME Init PROVE IInv
  OBVIOUS
<1>1. NoArgs \in Args
  <2>1. (CHOOSE s \in Streams : TRUE) \in Streams
    BY VolumeAssumption
  <2>2. 0 \in 0 .. MaxLevel + 1
    BY VolumeAssumption
  <2> QED BY <2>1, <2>2 DEF NoArgs, Args
<1>2. TypeOK
  <2>1. 0 \in Levels /\ 0 \in 0 .. MaxOutside /\ "none" \in Results
    BY VolumeAssumption DEF Levels, Results
  <2>2. audit \in [Calls -> [Decisions -> 0 .. 1]]
    BY DEF Init
  <2> QED BY <1>1, <2>1, <2>2 DEF Init, TypeOK
<1>3. \A c \in Calls : CallInv(c)
  BY VolumeAssumption DEF Init, CallInv, Executing
<1>4. GrantInv
  BY DEF Init, GrantInv, Uses, Used, Executing, RolledBack, Unconfirmed
<1> QED BY <1>2, <1>3, <1>4 DEF IInv

\* A refused call ends without having used its grant.
LEMMA RefuseStep ==
    ASSUME IInv, NEW c \in Calls, task[c] \notin {"ended"} \cup Executing,
           NEW e \in {"busy", "unavailable", "out_of_range", "denied"}, Refuse(c, e),
           \A q \in Calls \ {c} : args'[q] = args[q], UNCHANGED spent
    PROVE  CallTypes' /\ (\A q \in Calls : CallInv(q)') /\ GrantInv'
<1>1. TypeOK /\ \A q \in Calls : CallInv(q)
  BY DEF IInv
<1>2. Ends(c, e) /\ e \in Results
  BY DEF Refuse, Ends, Decisions, Results
<1>3. /\ waiter' \in [Calls -> {"new", "waiting", "answered", "dropped"}] /\ waiter'[c] # "new"
      /\ \A q \in Calls \ {c} : waiter'[q] = waiter[q]
  BY <1>1 DEF Refuse, TypeOK
<1>4. CallTypes' /\ \A q \in Calls : CallInv(q)'
  BY <1>1, <1>2, <1>3, EndStep
<1>5. ASSUME NEW q \in Calls, Uses(q)' PROVE Uses(q) /\ args'[q].grant = args[q].grant
  <2>1. task'[c] = "ended" /\ result'[c] = e
    BY <1>1, <1>2 DEF Ends, TypeOK
  <2>2. q # c
    BY <1>5, <2>1 DEF Uses, Used, Executing, RolledBack, Unconfirmed
  <2>3. task'[q] = task[q] /\ result'[q] = result[q]
    BY <1>1, <1>2, <2>2 DEF Ends, TypeOK
  <2> QED BY <1>5, <2>2, <2>3 DEF Uses
<1> QED BY <1>4, <1>5, GrantFrame DEF IInv

\* The end of a task.
LEMMA FinishStep ==
    ASSUME IInv, NEW c \in Calls, task[c] \in Executing, NEW r \in Results, Finish(c, r),
           UNCHANGED <<waiter, args, spent>>
    PROVE  CallTypes' /\ (\A q \in Calls : CallInv(q)') /\ GrantInv'
<1>1. TypeOK /\ (\A q \in Calls : CallInv(q)) /\ task[c] # "ended" /\ waiter[c] # "new"
  BY DEF IInv, CallInv, Executing
<1>2. Ends(c, r)
  BY DEF Finish, Ends, Decisions
<1>3. waiter' \in [Calls -> {"new", "waiting", "answered", "dropped"}]
  BY <1>1 DEF TypeOK
<1>4. CallTypes' /\ \A q \in Calls : CallInv(q)'
  BY <1>1, <1>2, <1>3, EndStep
<1>5. ASSUME NEW q \in Calls, Uses(q)' PROVE Uses(q) /\ args'[q].grant = args[q].grant
  <2>1. CASE q = c
    BY <2>1 DEF Uses
  <2>2. CASE q # c
    <3>1. task'[q] = task[q] /\ result'[q] = result[q]
      BY <1>1, <1>2, <2>2 DEF Ends, TypeOK
    <3> QED BY <1>5, <3>1 DEF Uses
  <2> QED BY <2>1, <2>2
<1> QED BY <1>4, <1>5, GrantFrame DEF IInv

\* A task that goes on to its next command.
LEMMA GotoStep ==
    ASSUME IInv, NEW c \in Calls, task[c] \in Executing, NEW t \in Executing, Goto(c, t),
           UNCHANGED <<waiter, args, spent>>
    PROVE  CallTypes' /\ (\A q \in Calls : CallInv(q)') /\ GrantInv'
<1>1. /\ TypeOK /\ (\A q \in Calls : CallInv(q)) /\ task[c] # "ended" /\ waiter[c] # "new"
      /\ lane = c /\ args[c].level \in Levels /\ t # "previewing"
  BY DEF IInv, CallInv, Executing
<1>2. waiter' \in [Calls -> {"new", "waiting", "answered", "dropped"}]
  BY <1>1 DEF TypeOK
<1>3. CallTypes' /\ \A q \in Calls : CallInv(q)'
  BY <1>1, <1>2, MoveStep DEF Goto
<1>4. ASSUME NEW q \in Calls, Uses(q)' PROVE Uses(q) /\ args'[q].grant = args[q].grant
  <2>1. CASE q = c
    BY <2>1 DEF Uses
  <2>2. CASE q # c
    <3>1. task'[q] = task[q] /\ result'[q] = result[q]
      BY <1>1, <2>2 DEF Goto, TypeOK
    <3> QED BY <1>4, <3>1 DEF Uses
  <2> QED BY <2>1, <2>2
<1> QED BY <1>3, <1>4, GrantFrame DEF IInv

\* The set command changes the device, or will, by a level in the range.
LEMMA SetEffectType ==
    ASSUME TypeOK, NEW c \in Calls, NEW level \in Levels, NEW ok \in BOOLEAN, SetEffect(c, level, ok)
    PROVE  device' \in [Streams -> Levels] /\ late' \subseteq [stream : Streams, level : Levels]
<1>1. args[c].stream \in Streams
  BY DEF TypeOK, Args
<1> QED BY <1>1 DEF SetEffect, TypeOK

\* Every step of a handler, a task, the device or its user keeps the invariant.
LEMMA NextInv == IInv /\ [Next]_vars => IInv'
<1> SUFFICES ASSUME IInv, [Next]_vars PROVE IInv'
  OBVIOUS
<1> USE DEF callVars
<1> DEFINE Kept == CallTypes' /\ (\A q \in Calls : CallInv(q)') /\ GrantInv'
<1>0. /\ TypeOK /\ (\A q \in Calls : CallInv(q)) /\ GrantInv /\ DeviceTypes
      /\ \A c \in Calls : args[c] \in Args /\ args[c].stream \in Streams
  BY DEF IInv, TypeOK, DeviceTypes, Args
<1>1. ASSUME Kept, DeviceTypes' PROVE IInv'
  BY <1>1 DEF IInv, TypeOK, CallTypes, DeviceTypes
<1>2. ASSUME NEW c \in Calls, Call(c) PROVE IInv'
  <2>1. PICK a \in Args :
          /\ args' = [args EXCEPT ![c] = a]
          /\ \/ /\ waiter' = [waiter EXCEPT ![c] = "waiting"]
                /\ task' = [task EXCEPT ![c] = "previewing"]
                /\ UNCHANGED <<lane, result, audit, touched>>
             \/ /\ lane = NoOne
                /\ lane' = c
                /\ waiter' = [waiter EXCEPT ![c] = "waiting"]
                /\ task' = [task EXCEPT ![c] = "preparing"]
                /\ touched' = FALSE
                /\ UNCHANGED <<result, audit>>
             \/ /\ Refuse(c, "busy")
                /\ UNCHANGED touched
    BY <1>2 DEF Call
  <2>2. /\ task[c] = "none" /\ lane # c /\ ~Uses(c)
        /\ UNCHANGED <<device, spent, before, late, outside>>
    BY <1>0, <1>2 DEF Call, CallInv, Executing, Uses, Used, RolledBack, Unconfirmed
  <2>3. DeviceTypes'
    BY <1>0, <2>1, <2>2 DEF DeviceTypes
  <2>4. \A q \in Calls \ {c} : args'[q] = args[q]
    BY <1>0, <2>1 DEF TypeOK
  <2>5. CASE Refuse(c, "busy")
    <3>1. Kept
      BY <2>2, <2>4, <2>5, RefuseStep DEF Executing
    <3> QED BY <1>1, <2>3, <3>1
  <2>6. ASSUME NEW t \in {"previewing", "preparing"},
               waiter' = [waiter EXCEPT ![c] = "waiting"], task' = [task EXCEPT ![c] = t],
               UNCHANGED <<result, audit>>,
               \/ t = "previewing" /\ UNCHANGED lane
               \/ t = "preparing" /\ lane = NoOne /\ lane' = c
        PROVE  IInv'
    <3>1. /\ waiter' \in [Calls -> {"new", "waiting", "answered", "dropped"}] /\ waiter'[c] # "new"
          /\ \A q \in Calls \ {c} : waiter'[q] = waiter[q]
      BY <1>0, <2>6 DEF TypeOK
    <3>2. t \notin {"prepared"} \cup Executing /\ task[c] # "ended"
      BY <2>2 DEF Executing
    <3>3. CallTypes' /\ \A q \in Calls : CallInv(q)'
      BY <1>0, <2>2, <2>4, <2>6, <3>1, <3>2, MoveStep
    <3>4. ASSUME NEW q \in Calls, Uses(q)' PROVE Uses(q) /\ args'[q].grant = args[q].grant
      <4>1. task'[c] = t /\ result'[c] = result[c]
        BY <1>0, <2>6 DEF TypeOK
      <4>2. q # c
        BY <2>2, <3>2, <3>4, <4>1 DEF Uses
      <4>3. task'[q] = task[q] /\ result'[q] = result[q]
        BY <1>0, <2>6, <4>2 DEF TypeOK
      <4> QED BY <2>4, <3>4, <4>2, <4>3 DEF Uses
    <3>5. GrantInv'
      BY <1>0, <2>2, <3>4, GrantFrame
    <3> QED BY <1>1, <2>3, <3>3, <3>5
  <2> QED BY <2>1, <2>5, <2>6
<1>3. ASSUME NEW c \in Calls, Preview(c) PROVE IInv'
  <2>1. /\ DeviceTypes' /\ UNCHANGED <<args, spent>> /\ task[c] = "previewing"
        /\ task[c] \notin {"ended"} \cup Executing /\ lane # c
    BY <1>0, <1>3 DEF Preview, DeviceTypes, CallInv, Executing
  <2>2. CASE \E e \in {"unavailable", "out_of_range"} : Refuse(c, e)
    <3>1. Kept
      BY <2>1, <2>2, RefuseStep
    <3> QED BY <1>1, <2>1, <3>1
  <2>3. CASE /\ waiter' = [waiter EXCEPT ![c] = "answered"]
             /\ task' = [task EXCEPT ![c] = "ended"]
             /\ result' = [result EXCEPT ![c] = "preview"]
             /\ Record(c, "allowed")
             /\ UNCHANGED lane
    <3>1. Ends(c, "preview") /\ "preview" \in Results
      BY <2>1, <2>3 DEF Ends, Decisions, Results
    <3>2. /\ waiter' \in [Calls -> {"new", "waiting", "answered", "dropped"}] /\ waiter'[c] # "new"
          /\ \A q \in Calls \ {c} : waiter'[q] = waiter[q]
      BY <1>0, <2>3 DEF TypeOK
    <3>3. CallTypes' /\ \A q \in Calls : CallInv(q)'
      BY <1>0, <2>1, <3>1, <3>2, EndStep
    <3>4. ASSUME NEW q \in Calls, Uses(q)' PROVE Uses(q) /\ args'[q].grant = args[q].grant
      <4>1. task'[c] = "ended" /\ result'[c] = "preview"
        BY <1>0, <2>3 DEF TypeOK
      <4>2. q # c
        BY <3>4, <4>1 DEF Uses, Used, Executing, RolledBack, Unconfirmed
      <4>3. task'[q] = task[q] /\ result'[q] = result[q]
        BY <1>0, <2>3, <4>2 DEF TypeOK
      <4> QED BY <2>1, <3>4, <4>3 DEF Uses
    <3>5. GrantInv'
      BY <1>0, <2>1, <3>4, GrantFrame
    <3> QED BY <1>1, <2>1, <3>3, <3>5
  <2> QED BY <1>3, <2>2, <2>3 DEF Preview
<1>4. ASSUME NEW c \in Calls, PrepareMutation(c) PROVE IInv'
  <2>1. /\ UNCHANGED <<device, args, spent, late, outside, touched>>
        /\ task[c] \notin {"ended"} \cup Executing /\ lane = c /\ waiter[c] = "waiting"
    BY <1>0, <1>4 DEF PrepareMutation, CallInv, Executing
  <2>2. CASE (\E e \in {"unavailable", "out_of_range"} : Refuse(c, e)) /\ UNCHANGED before
    <3>1. Kept
      BY <2>1, <2>2, RefuseStep
    <3>2. DeviceTypes'
      BY <1>0, <2>1, <2>2 DEF DeviceTypes
    <3> QED BY <1>1, <3>1, <3>2
  <2>3. CASE /\ \E read \in ReadStream(args[c].stream) :
                  \E v \in read : before' = [before EXCEPT ![c] = v]
             /\ ValidateLevel(args[c].level)
             /\ task' = [task EXCEPT ![c] = "prepared"]
             /\ UNCHANGED <<waiter, result, audit, lane>>
    <3>1. PICK read \in ReadStream(args[c].stream) :
            \E v \in read : before' = [before EXCEPT ![c] = v]
      BY <2>3
    <3>2. read = {} \/ read = {device[args[c].stream]}
      BY <1>0, ReadTrue
    <3>3. before' = [before EXCEPT ![c] = device[args[c].stream]]
      BY <3>1, <3>2
    <3>4. device[args[c].stream] \in Levels
      BY <1>0 DEF TypeOK
    <3>5. DeviceTypes'
      BY <1>0, <2>1, <3>3, <3>4 DEF DeviceTypes
    <3>6. waiter' \in [Calls -> {"new", "waiting", "answered", "dropped"}] /\ waiter'[c] # "new"
      BY <1>0, <2>1, <2>3 DEF TypeOK
    <3>7. args'[c].level \in Levels
      BY <2>1, <2>3 DEF ValidateLevel
    <3>8. CallTypes' /\ \A q \in Calls : CallInv(q)'
      BY <1>0, <2>1, <2>3, <3>6, <3>7, MoveStep
    <3>9. ASSUME NEW q \in Calls, Uses(q)' PROVE Uses(q) /\ args'[q].grant = args[q].grant
      <4>1. task'[c] = "prepared" /\ result'[q] = result[q]
        BY <1>0, <2>3 DEF TypeOK
      <4>2. CASE q = c
        BY <2>1, <3>9, <4>1, <4>2 DEF Uses, Executing
      <4>3. CASE q # c
        <5>1. task'[q] = task[q]
          BY <1>0, <2>3, <4>3 DEF TypeOK
        <5> QED BY <2>1, <3>9, <4>1, <5>1 DEF Uses
      <4> QED BY <4>2, <4>3
    <3>10. GrantInv'
      BY <1>0, <2>1, <3>9, GrantFrame
    <3> QED BY <1>1, <3>5, <3>8, <3>10
  <2> QED BY <1>4, <2>2, <2>3 DEF PrepareMutation
<1>5. ASSUME NEW c \in Calls, Authorize(c) PROVE IInv'
  <2>1. /\ UNCHANGED <<device, args, before, late, outside, touched>>
        /\ task[c] \notin {"ended"} \cup Executing /\ lane = c /\ waiter[c] # "new"
        /\ args[c].level \in Levels
    BY <1>0, <1>5 DEF Authorize, CallInv, Executing
  <2>2. CASE Refuse(c, "denied") /\ UNCHANGED spent
    <3>1. Kept
      BY <2>1, <2>2, RefuseStep
    <3>2. DeviceTypes'
      BY <1>0, <2>1, <2>2 DEF DeviceTypes
    <3> QED BY <1>1, <3>1, <3>2
  <2>3. CASE /\ args[c].grant \in Grants \ spent
             /\ spent' = spent \cup {args[c].grant}
             /\ task' = [task EXCEPT ![c] = "setting"]
             /\ UNCHANGED <<waiter, result, audit, lane>>
    <3>1. DeviceTypes'
      BY <1>0, <2>1, <2>3 DEF DeviceTypes
    <3>2. waiter' \in [Calls -> {"new", "waiting", "answered", "dropped"}] /\ waiter'[c] # "new"
      BY <1>0, <2>1, <2>3 DEF TypeOK
    <3>3. "setting" \in Executing
      BY DEF Executing
    <3>4. CallTypes' /\ \A q \in Calls : CallInv(q)'
      BY <1>0, <2>1, <2>3, <3>2, <3>3, MoveStep
    <3>5. \A q \in Calls \ {c} : Uses(q)' => Uses(q)
      BY <1>0, <2>3 DEF Uses, TypeOK
    <3>6. \A q \in Calls \ {c} : Uses(q)' => args[q].grant \in spent /\ args[q].grant # args[c].grant
      BY <1>0, <2>3, <3>5 DEF GrantInv
    <3>7. GrantInv'
      BY <1>0, <2>1, <2>3, <3>5, <3>6 DEF GrantInv
    <3> QED BY <1>1, <3>1, <3>4, <3>7
  <2> QED BY <1>5, <2>2, <2>3 DEF Authorize
<1>6. ASSUME NEW c \in Calls, Respond(c) PROVE IInv'
  <2>1. DeviceTypes' /\ CallTypes'
    BY <1>0, <1>6 DEF Respond, DeviceTypes, CallTypes, TypeOK
  <2>2. ASSUME NEW q \in Calls PROVE CallInv(q)'
    <3>1. waiter'[q] = "new" => waiter[q] = "new"
      BY <1>0, <1>6 DEF Respond, TypeOK
    <3> QED BY <1>0, <1>6, <3>1 DEF Respond, CallInv
  <2>3. GrantInv'
    BY <1>0, <1>6, GrantFrame DEF Respond, Uses
  <2> QED BY <1>1, <2>1, <2>2, <2>3
<1>7. ASSUME NEW c \in Calls, DropWaiter(c) PROVE IInv'
  <2>1. DeviceTypes' /\ CallTypes'
    BY <1>0, <1>7 DEF DropWaiter, DeviceTypes, CallTypes, TypeOK
  <2>2. ASSUME NEW q \in Calls \ {c} PROVE CallInv(q)'
    <3>1. task'[q] = task[q] /\ waiter'[q] = waiter[q] /\ (lane' = q) = (lane = q)
      BY <1>0, <1>7, <2>2, VolumeAssumption DEF DropWaiter, TypeOK
    <3> QED BY <1>0, <1>7, <3>1 DEF DropWaiter, CallInv
  <2>3. CallInv(c)'
    <3>1. waiter'[c] = "dropped" /\ task[c] # "prepared" /\ UNCHANGED <<result, audit, args>>
      BY <1>0, <1>7 DEF DropWaiter, TypeOK
    <3>2. CASE task[c] \in Executing
      <4>1. task'[c] = task[c] /\ lane' = lane
        BY <1>0, <1>7, <3>2 DEF DropWaiter, TypeOK, Executing
      <4> QED BY <1>0, <3>1, <4>1 DEF CallInv
    <3>3. CASE task[c] \notin Executing
      <4>1. task'[c] = "ended" /\ lane' # c
        BY <1>0, <1>7, <3>1, <3>3, VolumeAssumption DEF DropWaiter, TypeOK, CallInv
      <4> QED BY <3>1, <4>1 DEF CallInv, Executing
    <3> QED BY <3>2, <3>3
  <2>4. GrantInv'
    <3>1. ASSUME NEW q \in Calls, Uses(q)' PROVE Uses(q)
      BY <1>0, <1>7, <3>1 DEF DropWaiter, Uses, TypeOK, Executing
    <3> QED BY <1>0, <1>7, <3>1, GrantFrame DEF DropWaiter
  <2> QED BY <1>1, <2>1, <2>2, <2>3, <2>4
<1>8. ASSUME NEW c \in Calls, SetLevel(c) PROVE IInv'
  <2>1. PICK ok \in BOOLEAN : /\ SetEffect(c, args[c].level, ok)
                             /\ Goto(c, IF ok THEN "verifying" ELSE "restoring_failed")
    BY <1>8 DEF SetLevel
  <2>2. /\ task[c] \in Executing /\ args[c].level \in Levels
        /\ UNCHANGED <<spent, waiter, args, before, outside, touched>>
    BY <1>0, <1>8 DEF SetLevel, CallInv, Executing
  <2>3. Kept
    BY <2>1, <2>2, GotoStep DEF Executing
  <2>4. DeviceTypes'
    BY <1>0, <2>1, <2>2, SetEffectType DEF DeviceTypes
  <2> QED BY <1>1, <2>3, <2>4
<1>9. ASSUME NEW c \in Calls, Verify(c) PROVE IInv'
  <2>1. DeviceTypes' /\ task[c] \in Executing /\ UNCHANGED <<waiter, args, spent>>
    BY <1>0, <1>9 DEF Verify, DeviceTypes, Executing
  <2>2. Kept
    <3>1. CASE Finish(c, "verified")
      BY <2>1, <3>1, FinishStep DEF Results
    <3>2. CASE Goto(c, "restoring_unverified")
      BY <2>1, <3>2, GotoStep DEF Executing
    <3> QED BY <1>9, <3>1, <3>2 DEF Verify
  <2> QED BY <1>1, <2>1, <2>2
<1>10. ASSUME NEW c \in Calls, Restore(c) PROVE IInv'
  <2>1. PICK ok \in BOOLEAN :
          /\ SetEffect(c, before[c], ok)
          /\ \/ Goto(c, IF task[c] = "restoring_failed" THEN "confirming_failed"
                        ELSE "confirming_unverified")
             \/ Finish(c, Unrestored(c))
    BY <1>10 DEF Restore
  <2>2. /\ task[c] \in Executing /\ before[c] \in Levels
        /\ UNCHANGED <<spent, waiter, args, before, outside, touched>>
    BY <1>0, <1>10 DEF Restore, TypeOK, Executing
  <2>3. Kept
    <3>1. CASE Goto(c, IF task[c] = "restoring_failed" THEN "confirming_failed"
                       ELSE "confirming_unverified")
      BY <2>2, <3>1, GotoStep DEF Executing
    <3>2. CASE Finish(c, Unrestored(c))
      BY <2>2, <3>2, FinishStep DEF Results, Unrestored, Unconfirmed
    <3> QED BY <2>1, <3>1, <3>2
  <2>4. DeviceTypes'
    BY <1>0, <2>1, <2>2, SetEffectType DEF DeviceTypes
  <2> QED BY <1>1, <2>3, <2>4
<1>11. ASSUME NEW c \in Calls, Confirm(c) \/ TaskLost(c) PROVE IInv'
  <2>1. DeviceTypes' /\ task[c] \in Executing /\ UNCHANGED <<waiter, args, spent>>
    BY <1>0, <1>11 DEF Confirm, TaskLost, DeviceTypes, Executing
  <2>2. PICK r \in Results : Finish(c, r)
    BY <1>11 DEF Confirm, TaskLost, Unrestored, Results, RolledBack, Unconfirmed
  <2>3. Kept
    BY <2>1, <2>2, FinishStep
  <2> QED BY <1>1, <2>1, <2>3
<1>12. ASSUME UNCHANGED <<lane, spent, callVars>> PROVE Kept
  BY <1>0, <1>12, GrantFrame DEF CallTypes, TypeOK, CallInv, Uses
<1>13. CASE LateEffect
  <2>1. PICK e \in late : device' = [device EXCEPT ![e.stream] = e.level] /\ late' = late \ {e}
    BY <1>13 DEF LateEffect
  <2>2. e.stream \in Streams /\ e.level \in Levels
    BY <1>0 DEF TypeOK
  <2>3. DeviceTypes'
    BY <1>0, <1>13, <2>1, <2>2 DEF LateEffect, DeviceTypes
  <2> QED BY <1>1, <1>12, <1>13, <2>3 DEF LateEffect
<1>14. CASE OutsideChange
  <2>1. outside' \in 0 .. MaxOutside
    BY <1>0, <1>14, VolumeAssumption DEF OutsideChange, DeviceTypes
  <2>2. DeviceTypes'
    BY <1>0, <1>14, <2>1 DEF OutsideChange, DeviceTypes
  <2> QED BY <1>1, <1>12, <1>14, <2>2 DEF OutsideChange
<1>15. CASE UNCHANGED vars
  <2>1. DeviceTypes'
    BY <1>0, <1>15 DEF vars, DeviceTypes
  <2> QED BY <1>1, <1>12, <1>15, <2>1 DEF vars
<1> QED
  BY <1>2, <1>3, <1>4, <1>5, <1>6, <1>7, <1>8, <1>9, <1>10, <1>11, <1>13, <1>14, <1>15 DEF Next

-----------------------------------------------------------------------------
(* The theorems *)

\* In every reachable state the permit of the mutation lane is with the one
\* operation that is prepared or executing, a call has no result and no audit
\* record before it ends, and a consumed grant belongs to one call.
THEOREM InductiveInvariant == Spec => []IInv
BY InitInv, NextInv, PTL DEF Spec

\* Every variable keeps its type; in particular no call is audited twice.
THEOREM TypeCorrect == Spec => []TypeOK
<1>1. IInv => TypeOK
  BY DEF IInv
<1> QED BY <1>1, InductiveInvariant, PTL

\* The outcome of a volume change is true of the device, and its grant was used
\* by no other call.
THEOREM OutcomeSafety == Spec => OutcomeTruthful
<1>1. IInv /\ [Next]_vars => [\A c \in Calls : Truthful(c)]_vars
  <2> SUFFICES ASSUME IInv, [Next]_vars, NEW c \in Calls,
                      task[c] \in Executing, task'[c] = "ended"
               PROVE  /\ result'[c] = "verified" => device'[args[c].stream] = args[c].level
                      /\ result'[c] \in RolledBack => device'[args[c].stream] = before[c]
                      /\ \A d \in Calls \ {c} : task[d] \notin Executing
                      /\ \A d \in Calls \ {c} : args[d].grant = args[c].grant => result[d] \notin Used
    BY DEF Truthful
  <2> USE DEF callVars
  <2>1. /\ TypeOK /\ (\A q \in Calls : CallInv(q)) /\ GrantInv
        /\ args[c].stream \in Streams
    BY DEF IInv, TypeOK, Args
  <2>2. \A d \in Calls \ {c} : task[d] \notin Executing
    BY <2>1 DEF CallInv
  <2>3. \A d \in Calls \ {c} : args[d].grant = args[c].grant => result[d] \notin Used
    BY <2>1 DEF GrantInv, Uses
  <2>4. ASSUME NEW q \in Calls PROVE q # c => ~Verify(q) /\ ~Restore(q) /\ ~Confirm(q)
                                            /\ ~TaskLost(q) /\ ~SetLevel(q)
    BY <2>2 DEF Verify, Restore, Confirm, TaskLost, SetLevel, Executing
  <2>5. ASSUME NEW r, Finish(c, r) PROVE result'[c] = r
    BY <2>1, <2>5 DEF Finish, TypeOK
  <2>6. CASE Verify(c)
    <3>1. PICK read \in ReadStream(args[c].stream) :
            \/ read = {args[c].level} /\ Finish(c, "verified")
            \/ Goto(c, "restoring_unverified")
      BY <2>6 DEF Verify
    <3>2. ~Goto(c, "restoring_unverified")
      BY <2>1 DEF Goto, TypeOK
    <3>3. read = {args[c].level} /\ result'[c] = "verified"
      BY <2>5, <3>1, <3>2
    <3>4. device[args[c].stream] = args[c].level
      BY <2>1, <3>3, ReadTrue
    <3> QED BY <2>2, <2>3, <2>6, <3>3, <3>4 DEF Verify, RolledBack
  <2>7. CASE Restore(c)
    <3>1. ASSUME NEW t, Goto(c, t) PROVE t = "ended"
      BY <2>1, <3>1 DEF Goto, TypeOK
    <3>2. Finish(c, Unrestored(c))
      BY <2>7, <3>1 DEF Restore
    <3>3. result'[c] \in Unconfirmed
      BY <2>5, <3>2 DEF Unrestored, Unconfirmed
    <3> QED BY <2>2, <2>3, <3>3 DEF Unconfirmed, RolledBack
  <2>8. CASE Confirm(c)
    <3>1. PICK read \in ReadStream(args[c].stream) :
            Finish(c, IF read # {before[c]} THEN Unrestored(c)
                      ELSE IF task[c] = "confirming_failed" THEN "set_failed_confirmed"
                      ELSE "unverified_confirmed")
      BY <2>8 DEF Confirm
    <3>2. result'[c] \in RolledBack => read = {before[c]}
      BY <2>5, <3>1 DEF Unrestored, RolledBack
    <3>3. result'[c] \in RolledBack => device[args[c].stream] = before[c]
      BY <2>1, <3>2, ReadTrue
    <3>4. result'[c] # "verified"
      BY <2>5, <3>1 DEF Unrestored
    <3> QED BY <2>2, <2>3, <2>8, <3>3, <3>4 DEF Confirm
  <2>9. CASE TaskLost(c)
    BY <2>2, <2>3, <2>5, <2>9 DEF TaskLost, RolledBack
  <2>10. ASSUME NEW q \in Calls, \/ Call(q) \/ Preview(q) \/ PrepareMutation(q) \/ Authorize(q)
                                 \/ Respond(q) \/ DropWaiter(q)
         PROVE  FALSE
    <3>1. waiter[c] # "new" /\ task[c] \notin {"none", "previewing", "preparing", "prepared", "ended"}
      BY <2>1 DEF CallInv, Executing
    <3>2. task'[c] = task[c]
      <4>1. CASE q # c
        BY <2>1, <2>10, <4>1 DEF Call, Preview, PrepareMutation, Authorize, Respond, DropWaiter,
                                 Refuse, TypeOK
      <4>2. CASE q = c
        BY <2>1, <2>10, <3>1, <4>2 DEF Call, Preview, PrepareMutation, Authorize, Respond,
                                       DropWaiter, TypeOK
      <4> QED BY <4>1, <4>2
    <3> QED BY <3>1, <3>2
  <2>11. ~SetLevel(c)
    BY <2>1 DEF SetLevel, Goto, TypeOK
  <2>12. CASE LateEffect \/ OutsideChange \/ UNCHANGED vars
    BY <2>12 DEF LateEffect, OutsideChange, vars, Executing
  <2> QED
    BY <2>4, <2>6, <2>7, <2>8, <2>9, <2>10, <2>11, <2>12 DEF Next
<1> QED BY <1>1, InductiveInvariant, PTL DEF Spec, OutcomeTruthful
=============================================================================
