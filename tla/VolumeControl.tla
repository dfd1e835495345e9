---------------------------- MODULE VolumeControl ---------------------------
(***************************************************************************)
(* set_android_volume: android_volume_control.rs, the strict parser of     *)
(* android_volume.rs and the handler in mcp_transport.rs.                  *)
(*                                                                         *)
(* A live call takes the only permit of the mutation lane, reads the       *)
(* volume, spends its grant and hands everything to a detached task that   *)
(* sets, verifies and, if need be, restores.  The HTTP waiter may be       *)
(* dropped at any await; the task goes on.  The device is shared with its  *)
(* user, and a set command that failed may still take effect, at once or   *)
(* later: termux-volume only sends a request to another application.       *)
(* Module GrantReplay says why a grant is spent once, module ProcessLanes  *)
(* what running the two commands involves.                                 *)
(***************************************************************************)
EXTENDS Naturals, Sequences, FiniteSets

CONSTANTS
    Calls,      \* set_android_volume calls
    Streams,    \* audio streams
    MaxLevel,   \* max_volume of every stream
    Grants,     \* capability grants
    NoGrant,    \* a call without the grant header
    NoOne,      \* the lane is free
    MaxOutside  \* bound on changes of the volume by others

ASSUME VolumeAssumption ==
    /\ MaxLevel \in Nat \ {0} /\ MaxOutside \in Nat
    /\ NoGrant \notin Grants /\ NoOne \notin Calls
    /\ IsFiniteSet(Streams) /\ Streams # {}

VARIABLES
    device,  \* the volume of each stream
    lane,    \* holder of the mutation lane's permit
    spent,   \* consumed grants
    waiter,  \* the HTTP future of each call
    task,    \* where the call's operation is
    args,    \* stream, level, grant and mode of each call
    before,  \* the level read by prepare_mutation
    result,  \* Result of the operation
    audit,   \* audit records of each call
    late,    \* effects of failed set commands still to come
    outside, \* changes by others so far
    touched  \* history: others changed the device since the lane was taken

callVars == <<waiter, task, args, before, result, audit>>
vars == <<device, lane, spent, callVars, late, outside, touched>>

Levels == 0 .. MaxLevel
\* One level beyond the range: requests are checked against what was read.
Args == [stream : Streams, level : 0 .. MaxLevel + 1, grant : Grants \cup {NoGrant},
         dryRun : BOOLEAN]
Executing == {"setting", "verifying", "restoring_failed", "restoring_unverified",
              "confirming_failed", "confirming_unverified"}
RolledBack == {"set_failed_confirmed", "unverified_confirmed"}
Unconfirmed == {"set_failed_unconfirmed", "unverified_unconfirmed"}
Results == {"none", "preview", "verified", "busy", "unavailable", "out_of_range", "denied",
            "worker_failed"} \cup RolledBack \cup Unconfirmed

Decisions == {"allowed", "denied"}

NoArgs == [stream |-> CHOOSE s \in Streams : TRUE, level |-> 0, grant |-> NoGrant, dryRun |-> TRUE]

TypeOK ==
    /\ device \in [Streams -> Levels]
    /\ lane \in Calls \cup {NoOne}
    /\ spent \subseteq Grants
    /\ waiter \in [Calls -> {"new", "waiting", "answered", "dropped"}]
    /\ task \in [Calls -> {"none", "previewing", "preparing", "prepared", "ended"} \cup Executing]
    /\ args \in [Calls -> Args]
    /\ before \in [Calls -> Levels]
    /\ result \in [Calls -> Results]
    /\ audit \in [Calls -> [Decisions -> 0 .. 1]]
    /\ late \subseteq [stream : Streams, level : Levels]
    /\ outside \in 0 .. MaxOutside
    /\ touched \in BOOLEAN

Init ==
    /\ device = [s \in Streams |-> 0]
    /\ lane = NoOne
    /\ spent = {}
    /\ waiter = [c \in Calls |-> "new"]
    /\ task = [c \in Calls |-> "none"]
    /\ args = [c \in Calls |-> NoArgs]
    /\ before = [c \in Calls |-> 0]
    /\ result = [c \in Calls |-> "none"]
    /\ audit = [c \in Calls |-> [d \in Decisions |-> 0]]
    /\ late = {}
    /\ outside = 0
    /\ touched = FALSE

-----------------------------------------------------------------------------
(* Reading the volume: a report is a list of entries, one per stream *)

Report == {[stream |-> s, volume |-> device[s], max |-> MaxLevel] : s \in Streams}

\* What termux-volume prints, as the set of its entries and their number.  It
\* may fail, repeat or omit a stream, or report a level out of range.
Printed ==
    LET bad(e) == (Report \ {e}) \cup {[e EXCEPT !.volume = MaxLevel + 1]}
        wrong == {[entries |-> bad(e), length |-> Cardinality(Streams)] : e \in Report}
                 \cup {[entries |-> Report \ {e}, length |-> Cardinality(Streams)] : e \in Report}
                 \cup {[entries |-> Report, length |-> Cardinality(Streams) + 1]}
    IN {[entries |-> Report, length |-> Cardinality(Streams)]} \cup wrong

\* parse_volume_status: exactly one entry per stream, each within its range.
ParseVolumeStatus(doc) ==
    /\ doc.length = Cardinality(Streams)
    /\ \A e \in doc.entries : e.volume \in 0 .. e.max /\ e.max >= 1
    /\ {e.stream : e \in doc.entries} = Streams

\* read_stream: the level of one stream, or nothing.
ReadStream(s) ==
    {{e.volume : e \in {x \in doc.entries : x.stream = s /\ ParseVolumeStatus(doc)}} : doc \in Printed}

\* Mutant: the maximum itself is one too many.
ValidateLevelOffByOne(level) == level \in 0 .. MaxLevel + 1

ValidateLevel(level) == level \in Levels

-----------------------------------------------------------------------------
(* The handler *)

Record(c, decision) == audit' = [audit EXCEPT ![c][decision] = @ + 1]

\* An error of the handler before the task exists: one audit record, the
\* prepared operation and its permit dropped.
Refuse(c, error) ==
    /\ waiter' = [waiter EXCEPT ![c] = "answered"]
    /\ task' = [task EXCEPT ![c] = "ended"]
    /\ result' = [result EXCEPT ![c] = error]
    /\ Record(c, "denied")
    /\ lane' = IF lane = c THEN NoOne ELSE lane

Call(c) ==
    /\ waiter[c] = "new"
    /\ \E a \in Args :
          /\ args' = [args EXCEPT ![c] = a]
          /\ \/ /\ a.dryRun
                /\ waiter' = [waiter EXCEPT ![c] = "waiting"]
                /\ task' = [task EXCEPT ![c] = "previewing"]
                /\ UNCHANGED <<lane, result, audit, touched>>
             \/ /\ ~a.dryRun /\ lane = NoOne
                /\ lane' = c
                /\ waiter' = [waiter EXCEPT ![c] = "waiting"]
                /\ task' = [task EXCEPT ![c] = "preparing"]
                /\ touched' = FALSE
                /\ UNCHANGED <<result, audit>>
             \/ /\ ~a.dryRun /\ lane # NoOne
                /\ Refuse(c, "busy")
                /\ UNCHANGED touched
    /\ UNCHANGED <<device, spent, before, late, outside>>

\* preview: read, check the level, answer.
Preview(c) ==
    /\ task[c] = "previewing" /\ waiter[c] = "waiting"
    /\ \E read \in ReadStream(args[c].stream) :
          \/ read = {} /\ Refuse(c, "unavailable")
          \/ read # {} /\ ~ValidateLevel(args[c].level) /\ Refuse(c, "out_of_range")
          \/ /\ read # {} /\ ValidateLevel(args[c].level)
             /\ waiter' = [waiter EXCEPT ![c] = "answered"]
             /\ task' = [task EXCEPT ![c] = "ended"]
             /\ result' = [result EXCEPT ![c] = "preview"]
             /\ Record(c, "allowed")
             /\ UNCHANGED lane
    /\ UNCHANGED <<device, spent, args, before, late, outside, touched>>

\* prepare_mutation, after try_acquire_owned.
PrepareMutation(c) ==
    /\ task[c] = "preparing" /\ waiter[c] = "waiting"
    /\ \E read \in ReadStream(args[c].stream) :
          \/ read = {} /\ Refuse(c, "unavailable") /\ UNCHANGED before
          \/ read # {} /\ ~ValidateLevel(args[c].level) /\ Refuse(c, "out_of_range") /\ UNCHANGED before
          \/ /\ read # {} /\ ValidateLevel(args[c].level)
             /\ \E v \in read : before' = [before EXCEPT ![c] = v]
             /\ task' = [task EXCEPT ![c] = "prepared"]
             /\ UNCHANGED <<waiter, result, audit, lane>>
    /\ UNCHANGED <<device, spent, args, late, outside, touched>>

\* consume_at and tokio::spawn, with no await between them.
Authorize(c) ==
    /\ task[c] = "prepared"
    /\ \/ /\ args[c].grant \notin Grants \ spent
          /\ Refuse(c, "denied")
          /\ UNCHANGED spent
       \/ /\ args[c].grant \in Grants \ spent
          /\ spent' = spent \cup {args[c].grant}
          /\ task' = [task EXCEPT ![c] = "setting"]
          /\ UNCHANGED <<waiter, result, audit, lane>>
    /\ UNCHANGED <<device, args, before, late, outside, touched>>

Respond(c) ==
    /\ waiter[c] = "waiting" /\ task[c] = "ended"
    /\ waiter' = [waiter EXCEPT ![c] = "answered"]
    /\ UNCHANGED <<device, lane, spent, task, args, before, result, audit, late, outside, touched>>

\* Mutant: the permit is held by the request, not by the prepared operation.
DropWaiterAndLane(c) ==
    /\ waiter[c] = "waiting" /\ task[c] # "prepared"
    /\ waiter' = [waiter EXCEPT ![c] = "dropped"]
    /\ task' = [task EXCEPT ![c] = IF @ \in Executing THEN @ ELSE "ended"]
    /\ lane' = IF lane = c THEN NoOne ELSE lane
    /\ UNCHANGED <<device, spent, args, before, result, audit, late, outside, touched>>

\* A timeout or a disconnect.  Without a task the operation ends here, with
\* its permit and without an audit record; a task is merely detached.
DropWaiter(c) ==
    /\ waiter[c] = "waiting" /\ task[c] # "prepared"
    /\ waiter' = [waiter EXCEPT ![c] = "dropped"]
    /\ task' = [task EXCEPT ![c] = IF @ \in Executing THEN @ ELSE "ended"]
    /\ lane' = IF lane = c /\ task[c] = "preparing" THEN NoOne ELSE lane
    /\ UNCHANGED <<device, spent, args, before, result, audit, late, outside, touched>>

-----------------------------------------------------------------------------
(* PreparedAndroidVolumeMutation::execute *)

\* The end of the task: its audit record and its permit.
Finish(c, r) ==
    /\ task' = [task EXCEPT ![c] = "ended"]
    /\ result' = [result EXCEPT ![c] = r]
    /\ Record(c, IF r = "verified" THEN "allowed" ELSE "denied")
    /\ lane' = IF lane = c THEN NoOne ELSE lane

Goto(c, step) ==
    /\ task' = [task EXCEPT ![c] = step]
    /\ UNCHANGED <<result, audit, lane>>

\* termux-volume with two arguments: a command that fails, or is killed at its
\* deadline, may have had its effect, or may have it later.
SetEffect(c, level, ok) ==
    LET s == args[c].stream IN
    \/ device' = [device EXCEPT ![s] = level] /\ UNCHANGED late
    \/ UNCHANGED <<device, late>>
    \/ ~ok /\ late' = late \cup {[stream |-> s, level |-> level]} /\ UNCHANGED device

SetLevel(c) ==
    /\ task[c] = "setting"
    /\ \E ok \in BOOLEAN :
          /\ SetEffect(c, args[c].level, ok)
          /\ Goto(c, IF ok THEN "verifying" ELSE "restoring_failed")
    /\ UNCHANGED <<spent, waiter, args, before, outside, touched>>

Verify(c) ==
    /\ task[c] = "verifying"
    /\ \E read \in ReadStream(args[c].stream) :
          \/ read = {args[c].level} /\ Finish(c, "verified")
          \/ read # {args[c].level} /\ Goto(c, "restoring_unverified")
    /\ UNCHANGED <<device, spent, waiter, args, before, late, outside, touched>>

Unrestored(c) ==
    IF task[c] \in {"restoring_failed", "confirming_failed"}
    THEN "set_failed_unconfirmed" ELSE "unverified_unconfirmed"

\* recover: set the level that prepare_mutation read ...
Restore(c) ==
    /\ task[c] \in {"restoring_failed", "restoring_unverified"}
    /\ \E ok \in BOOLEAN :
          /\ SetEffect(c, before[c], ok)
          /\ \/ ok /\ Goto(c, IF task[c] = "restoring_failed" THEN "confirming_failed"
                                ELSE "confirming_unverified")
             \/ ~ok /\ Finish(c, Unrestored(c))
    /\ UNCHANGED <<spent, waiter, args, before, outside, touched>>

\* ... and read it back.
Confirm(c) ==
    /\ task[c] \in {"confirming_failed", "confirming_unverified"}
    /\ \E read \in ReadStream(args[c].stream) :
          Finish(c, IF read # {before[c]} THEN Unrestored(c)
                    ELSE IF task[c] = "confirming_failed" THEN "set_failed_confirmed"
                    ELSE "unverified_confirmed")
    /\ UNCHANGED <<device, spent, waiter, args, before, late, outside, touched>>

\* Mutant: the audit guard records nothing when it is dropped.
TaskLostUnaudited(c) ==
    /\ task[c] \in Executing
    /\ task' = [task EXCEPT ![c] = "ended"]
    /\ result' = [result EXCEPT ![c] = "worker_failed"]
    /\ lane' = IF lane = c THEN NoOne ELSE lane
    /\ UNCHANGED <<device, spent, waiter, args, before, audit, late, outside, touched>>

\* The task unwinds or is dropped with its runtime: AndroidVolumeMutationAuditGuard
\* records the denial, nothing is restored.
TaskLost(c) ==
    /\ task[c] \in Executing
    /\ Finish(c, "worker_failed")
    /\ UNCHANGED <<device, spent, waiter, args, before, late, outside, touched>>

-----------------------------------------------------------------------------
(* Others *)

LateEffect ==
    /\ \E e \in late : /\ device' = [device EXCEPT ![e.stream] = e.level]
                       /\ late' = late \ {e}
    /\ touched' = TRUE
    /\ UNCHANGED <<lane, spent, callVars, outside>>

OutsideChange ==
    /\ outside < MaxOutside
    /\ outside' = outside + 1
    /\ \E s \in Streams, v \in Levels : device' = [device EXCEPT ![s] = v]
    /\ touched' = TRUE
    /\ UNCHANGED <<lane, spent, callVars, late>>

-----------------------------------------------------------------------------
TaskStep(c) == SetLevel(c) \/ Verify(c) \/ Restore(c) \/ Confirm(c)

Next ==
    \/ \E c \in Calls :
          \/ Call(c) \/ Preview(c) \/ PrepareMutation(c) \/ Authorize(c)
          \/ Respond(c) \/ DropWaiter(c)
          \/ SetLevel(c) \/ Verify(c) \/ Restore(c) \/ Confirm(c) \/ TaskLost(c)
    \/ LateEffect \/ OutsideChange

Spec == Init /\ [][Next]_vars

\* The runtime polls a spawned task, whose commands end by their deadlines,
\* and runs a handler on between two awaits.
FairSpec == Spec /\ \A c \in Calls : WF_vars(TaskStep(c)) /\ WF_vars(Authorize(c))

-----------------------------------------------------------------------------
(* Properties *)

\* The results of a call that spent its grant.
Used == {"verified", "worker_failed"} \cup RolledBack \cup Unconfirmed

\* What the end of the task of call c must say.
Truthful(c) ==
    task[c] \in Executing /\ task'[c] = "ended" =>
        LET now == device'[args[c].stream] IN
        /\ result'[c] = "verified" /\ ~touched => now = args[c].level
        /\ result'[c] \in RolledBack /\ ~touched => now = before[c]
        /\ \A d \in Calls \ {c} : task[d] \notin Executing
        /\ \A d \in Calls \ {c} : args[d].grant = args[c].grant /\ args[c].grant # NoGrant
              => result[d] \notin Used

\* The outcome tells the truth about the device.  When the task of a call ends
\* and nobody but this server touched the device since the lane was taken,
\* `verified' means that the requested level is set and a confirmed rollback
\* that the level of before is back, although waiters come and go, calls are
\* retried and reports are garbled meanwhile; and no grant is used by two calls.
OutcomeTruthful == [][\A c \in Calls : Truthful(c)]_vars

\* A grant that was spent is accounted for: the task comes to an end whether or
\* not somebody waits, frees the lane and has written exactly one audit record.
EveryMutationEnds ==
    \A c \in Calls :
        task[c] \in {"prepared"} \cup Executing
            ~> task[c] = "ended" /\ lane # c /\ audit[c]["allowed"] + audit[c]["denied"] = 1

-----------------------------------------------------------------------------
(* The inductive invariant behind the outcomes *)

\* The permit is with the operation, wherever that is, and with nothing else; a
\* call that has not ended has no result and no audit record yet.
CallInv(c) ==
    /\ waiter[c] = "new" => task[c] = "none"
    /\ lane = c <=> task[c] \in {"preparing", "prepared"} \cup Executing
    /\ task[c] # "ended" => result[c] = "none" /\ (\A d \in Decisions : audit[c][d] = 0)
    /\ task[c] \in {"prepared"} \cup Executing => args[c].level \in Levels

\* The call has consumed its grant.
Uses(c) == task[c] \in Executing \/ result[c] \in Used

\* A consumed grant is remembered and was consumed for one call.
GrantInv ==
    /\ \A c \in Calls : Uses(c) => args[c].grant \in spent
    /\ \A c, d \in Calls : Uses(c) /\ Uses(d) /\ args[c].grant = args[d].grant => c = d

IInv == TypeOK /\ (\A c \in Calls : CallInv(c)) /\ GrantInv
=============================================================================
