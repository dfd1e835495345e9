-------------------------- MODULE ProcessLanesProofs --------------------------
(***************************************************************************)
(* Proofs about ProcessLanes for every number of calls and permits, every  *)
(* deadline and every size of the DEX file.                                *)
(***************************************************************************)
EXTENDS ProcessLanes, FiniteSetTheorems, TLAPS

\* The arm a poll takes: one that is ready, cancellation before everything and
\* the deadline before every completion.
First(c) == Precedence[Min({i \in DOMAIN Precedence : Precedence[i] \in Ready(c)})]

\* The biased select of the supervisor takes a ready arm, and no later arm while
\* cancellation or the deadline is ready.
LEMMA FirstArm ==
    ASSUME NEW c, Ready(c) # {}
    PROVE  /\ First(c) \in Ready(c)
           /\ "cancel" \in Ready(c) => First(c) = "cancel"
           /\ "deadline" \in Ready(c) => First(c) \in {"cancel", "deadline"}
<1> DEFINE S == {i \in DOMAIN Precedence : Precedence[i] \in Ready(c)}
<1>1. /\ DOMAIN Precedence = 1 .. 5
      /\ Precedence[1] = "cancel" /\ Precedence[2] = "deadline"
      /\ Precedence[3] = "stdout" /\ Precedence[4] = "stderr" /\ Precedence[5] = "child"
  BY DEF Precedence
<1>2. Ready(c) \subseteq {"cancel", "deadline", "stdout", "stderr", "child"}
  BY DEF Ready, Pipes
<1>3. \E m \in S : \A j \in S : m <= j
  <2>1. S \subseteq 1 .. 5 /\ S # {}
    BY <1>1, <1>2
  <2> HIDE DEF S
  <2>2. \A j \in S : j = 1 \/ j = 2 \/ j = 3 \/ j = 4 \/ j = 5
    BY <2>1
  <2>3. CASE 1 \in S
    BY <2>2, <2>3
  <2>4. CASE 1 \notin S /\ 2 \in S
    BY <2>2, <2>4
  <2>5. CASE 1 \notin S /\ 2 \notin S /\ 3 \in S
    BY <2>2, <2>5
  <2>6. CASE 1 \notin S /\ 2 \notin S /\ 3 \notin S /\ 4 \in S
    BY <2>2, <2>6
  <2>7. CASE S = {5}
    BY <2>7
  <2> QED BY <2>1, <2>2, <2>3, <2>4, <2>5, <2>6, <2>7
<1>4. Min(S) \in S /\ \A j \in S : Min(S) <= j
  <2> HIDE DEF S
  <2> QED BY <1>3 DEF Min
<1>5. First(c) = Precedence[Min(S)]
  BY DEF First
<1>6. First(c) \in Ready(c)
  BY <1>4, <1>5
<1>7. ASSUME "cancel" \in Ready(c) PROVE First(c) = "cancel"
  <2>1. 1 \in S
    BY <1>1, <1>7
  <2>2. Min(S) \in 1 .. 5 /\ Min(S) <= 1
    BY <1>1, <1>4, <2>1
  <2> QED BY <1>1, <1>5, <2>2
<1>8. ASSUME "deadline" \in Ready(c) PROVE First(c) \in {"cancel", "deadline"}
  <2>1. 2 \in S
    BY <1>1, <1>8
  <2>2. Min(S) \in 1 .. 5 /\ Min(S) <= 2
    BY <1>1, <1>4, <2>1
  <2>3. Min(S) = 1 \/ Min(S) = 2
    BY <2>2
  <2> QED BY <1>1, <1>5, <2>3
<1> QED BY <1>6, <1>7, <1>8

-----------------------------------------------------------------------------
(* Types *)

\* Every step of a future, a validation, a process group, a timer or a
\* supervisor keeps the state well typed.
LEMMA TypeStep == TypeOK /\ [Next]_vars => TypeOK'
<1> SUFFICES ASSUME TypeOK, [Next]_vars PROVE TypeOK'
  OBVIOUS
<1> USE DEF callerVars, rishVars, dexVars, supVars, groupVars, Lanes, Refusals
<1>1. ASSUME NEW c \in Calls, ExecuteCommand(c) PROVE TypeOK'
  <2>1. CASE Answer(c, "busy") /\ UNCHANGED permits
    BY <1>1, <2>1 DEF ExecuteCommand, Arrive, Answer, TypeOK
  <2>2. CASE /\ permits' = permits \cup {c} /\ UNCHANGED answer
             /\ caller' = [caller EXCEPT ![c] = "starting"]
    BY <1>1, <2>2 DEF ExecuteCommand, Arrive, TypeOK
  <2> QED BY <1>1, <2>1, <2>2 DEF ExecuteCommand
<1>2. ASSUME NEW c \in Calls, Probe(c) PROVE TypeOK'
  <2>1. CASE Answer(c, "busy") /\ UNCHANGED <<permits, check>>
    BY <1>2, <2>1 DEF Probe, Arrive, Answer, TypeOK
  <2>2. CASE /\ permits' = permits \cup {c} /\ UNCHANGED answer
             /\ caller' = [caller EXCEPT ![c] = "validating"]
             /\ check' = [check EXCEPT ![c] = "opened"]
    BY <1>2, <2>2 DEF Probe, Arrive, TypeOK
  <2> QED BY <1>2, <2>1, <2>2 DEF Probe
<1>3. ASSUME NEW c \in Calls, CollectStdout(c) PROVE TypeOK'
  BY <1>3 DEF CollectStdout, Arrive, TypeOK
<1>4. ASSUME NEW c \in Calls, NEW valid \in BOOLEAN, EndCheck(c, valid),
             UNCHANGED <<lane, dexVars, supVars, groupVars, age>>
      PROVE  TypeOK'
  <2>1. check' \in [Calls -> {"none", "opened", "copying", "copied", "sealed", "valid", "invalid"}]
    BY <1>4 DEF EndCheck, TypeOK
  <2>2. snapshot' \in [Calls -> [1 .. Chunks -> {"none", "good", "bad"}]]
    BY <1>4 DEF EndCheck, TypeOK
  <2>3. permits' \subseteq Calls
    BY <1>4 DEF EndCheck, TypeOK
  <2>4. CASE UNCHANGED <<caller, answer>>
    BY <1>4, <2>1, <2>2, <2>3, <2>4 DEF TypeOK
  <2>5. CASE Answer(c, "dex_invalid")
    BY <1>4, <2>1, <2>2, <2>3, <2>5 DEF Answer, TypeOK
  <2> QED BY <1>4, <2>4, <2>5 DEF EndCheck
<1>5. ASSUME NEW c \in Calls, ValidateDexIdentity(c) PROVE TypeOK'
  <2>1. CASE EndCheck(c, FALSE)
    BY <1>4, <1>5, <2>1 DEF ValidateDexIdentity
  <2>2. CASE /\ check' = [check EXCEPT ![c] = "copying"]
             /\ UNCHANGED <<permits, caller, answer, snapshot>>
    BY <1>5, <2>2 DEF ValidateDexIdentity, TypeOK
  <2> QED BY <1>5, <2>1, <2>2 DEF ValidateDexIdentity
<1>6. ASSUME NEW c \in Calls, CopyAndHash(c) PROVE TypeOK'
  <2>1. PICK i \in 1 .. Chunks :
          /\ snapshot' = [snapshot EXCEPT ![c][i] = dex.bytes[i]]
          /\ check' = [check EXCEPT ![c] = IF i = Chunks THEN "copied" ELSE "copying"]
    BY <1>6 DEF CopyAndHash
  <2>2. dex.bytes[i] \in {"good", "bad"}
    BY DEF TypeOK
  <2>3. snapshot' \in [Calls -> [1 .. Chunks -> {"none", "good", "bad"}]]
    BY <2>1, <2>2 DEF TypeOK
  <2>4. check' \in [Calls -> {"none", "opened", "copying", "copied", "sealed", "valid", "invalid"}]
    BY <2>1 DEF TypeOK
  <2> QED BY <1>6, <2>3, <2>4 DEF CopyAndHash, TypeOK
<1>7. ASSUME NEW c \in Calls, SealSnapshot(c) PROVE TypeOK'
  <2>1. CASE EndCheck(c, FALSE)
    BY <1>4, <1>7, <2>1 DEF SealSnapshot
  <2>2. CASE /\ check' = [check EXCEPT ![c] = "sealed"]
             /\ UNCHANGED <<permits, caller, answer, snapshot>>
    BY <1>7, <2>2 DEF SealSnapshot, TypeOK
  <2> QED BY <1>7, <2>1, <2>2 DEF SealSnapshot
<1>8. ASSUME NEW c \in Calls, RevalidateSource(c) PROVE TypeOK'
  <2>1. DexIdentityHolds \in BOOLEAN
    BY DEF DexIdentityHolds, TypeOK
  <2> QED BY <1>4, <1>8, <2>1 DEF RevalidateSource
<1>9. ASSUME NEW c \in Calls, Spawn(c) PROVE TypeOK'
  <2>1. CASE \E a \in {"unavailable", "spawn_failed"} :
               Answer(c, a) /\ permits' = permits \ {c} /\ UNCHANGED <<sup, leader>>
    BY <1>9, <2>1 DEF Spawn, Answer, TypeOK
  <2>2. CASE /\ caller' = [caller EXCEPT ![c] = "awaiting"]
             /\ sup' = [sup EXCEPT ![c] = "watching"]
             /\ leader' = [leader EXCEPT ![c] = "running"]
             /\ UNCHANGED <<answer, permits>>
    BY <1>9, <2>2 DEF Spawn, TypeOK
  <2> QED BY <1>9, <2>1, <2>2 DEF Spawn
<1>10. ASSUME NEW c \in Calls, Deliver(c) PROVE TypeOK'
  <2>1. terminal[c] # "complete" => Verdict(terminal[c]) \in {"none"} \cup Failures
    BY DEF Verdict, TypeOK, Terminals, Failures
  <2>2. \E a \in {"none", "ok", "bad_output"} \cup Failures : Answer(c, a)
    BY <1>10, <2>1 DEF Deliver
  <2> QED BY <1>10, <2>2 DEF Deliver, Answer, TypeOK
<1>11. ASSUME NEW c \in Calls, DropCaller(c) PROVE TypeOK'
  BY <1>11 DEF DropCaller, TypeOK, Terminals
<1>12. ASSUME NEW c \in Calls, Fork(c) PROVE TypeOK'
  BY <1>12 DEF Fork, TypeOK
<1>13. ASSUME NEW c \in Calls, Exit(c) PROVE TypeOK'
  BY <1>13 DEF Exit, TypeOK
<1>14. ASSUME NEW c \in Calls, HelperExit(c) PROVE TypeOK'
  BY <1>14 DEF HelperExit, TypeOK
<1>15. ASSUME NEW c \in Calls, Die(c) PROVE TypeOK'
  BY <1>15 DEF Die, TypeOK
<1>16. ASSUME NEW c \in Calls, NEW p \in Pipes, PipeEvent(c, p) PROVE TypeOK'
  BY <1>16 DEF PipeEvent, TypeOK
<1>17. ASSUME NEW c \in Calls, Poll(c) PROVE TypeOK'
  <2>1. ASSUME NEW t \in Terminals, EndSupervision(c, t)
        PROVE  /\ sup' \in [Calls -> {"none", "watching", "reaping", "finished"}]
               /\ terminal' \in [Calls -> Terminals]
               /\ signalled' \in [Calls -> BOOLEAN]
               /\ pipe' \in [Calls -> [Pipes -> {"open", "over", "broken", "closed"}]]
    BY <2>1 DEF EndSupervision, TypeOK
  <2> DEFINE Typed == /\ sup' \in [Calls -> {"none", "watching", "reaping", "finished"}]
                      /\ terminal' \in [Calls -> Terminals]
                      /\ signalled' \in [Calls -> BOOLEAN]
                      /\ pipe' \in [Calls -> [Pipes -> {"open", "over", "broken", "closed"}]]
                      /\ taken' \in [Calls -> SUBSET (Pipes \cup {"child"})]
                      /\ leader' \in [Calls -> {"none", "running", "exited", "failed",
                                                "killed", "reaped", "lost"}]
  <2>2. ASSUME NEW e \in Pipes \cup {"child"}, Observe(c, e)
        PROVE  /\ taken' \in [Calls -> SUBSET (Pipes \cup {"child"})]
               /\ \/ EndSupervision(c, "complete")
                  \/ UNCHANGED <<terminal, sup, signalled, pipe>>
    BY <2>2 DEF Observe, TypeOK
  <2>3. {"cancelled", "timed_out", "complete", "wait_failed", "program_failed",
         "stdout_limit", "stderr_limit"} \subseteq Terminals
    BY DEF Terminals, Failures
  <2>4. ASSUME NEW t \in {"cancelled", "timed_out"},
               EndSupervision(c, t), UNCHANGED <<taken, leader>>
        PROVE  Typed
    BY <2>1, <2>3, <2>4 DEF TypeOK
  <2>5. ASSUME NEW p \in Pipes, PollPipe(c, p), UNCHANGED leader PROVE Typed
    <3>1. CASE Observe(c, p)
      BY <2>1, <2>2, <2>3, <2>5, <3>1 DEF TypeOK
    <3>2. CASE EndSupervision(c, Limit(p)) /\ UNCHANGED taken
      BY <2>1, <2>3, <2>5, <3>2 DEF TypeOK, Limit
    <3>3. CASE EndSupervision(c, "wait_failed") /\ UNCHANGED taken
      BY <2>1, <2>3, <2>5, <3>3 DEF TypeOK
    <3> QED BY <2>5, <3>1, <3>2, <3>3 DEF PollPipe
  <2>6. ASSUME PollChild(c) PROVE Typed
    <3>1. leader' \in [Calls -> {"none", "running", "exited", "failed", "killed", "reaped", "lost"}]
      <4>1. PICK s \in {"reaped", "lost"} : leader' = [leader EXCEPT ![c] = s]
        BY <2>6 DEF PollChild
      <4> QED BY <4>1 DEF TypeOK
    <3>2. CASE Observe(c, "child")
      BY <2>1, <2>2, <2>3, <3>1, <3>2 DEF TypeOK
    <3>3. CASE (\E t \in {"program_failed", "wait_failed"} : EndSupervision(c, t)) /\ UNCHANGED taken
      BY <2>1, <2>3, <3>1, <3>3 DEF TypeOK
    <3> QED BY <2>6, <3>2, <3>3 DEF PollChild
  <2>7. Typed
    BY <1>17, <2>4, <2>5, <2>6 DEF Poll
  <2> QED BY <1>17, <2>7 DEF Poll, TypeOK
<1>18. ASSUME NEW c \in Calls, NEW within \in BOOLEAN, FinishSupervision(c, within),
              leader' \in [Calls -> {"none", "running", "exited", "failed", "killed", "reaped", "lost"}],
              UNCHANGED <<callerVars, rishVars, dexVars, helper, signalled, pipe>>
       PROVE  TypeOK'
  BY <1>18, LanesAssumption DEF FinishSupervision, TypeOK, Terminals, Failures
<1>19. ASSUME NEW c \in Calls, Reap(c) PROVE TypeOK'
  <2>1. leader' \in [Calls -> {"none", "running", "exited", "failed", "killed", "reaped", "lost"}]
    BY <1>19 DEF Reap, TypeOK
  <2> QED BY <1>18, <1>19, <2>1 DEF Reap
<1>20. ASSUME NEW c \in Calls, ReapFailed(c) PROVE TypeOK'
  <2>1. leader' \in [Calls -> {"none", "running", "exited", "failed", "killed", "reaped", "lost"}]
    BY <1>20 DEF ReapFailed, TypeOK
  <2> QED BY <1>18, <1>20, <2>1 DEF ReapFailed
<1>21. CASE EditDex
  <2> DEFINE Dex == [bytes : [1 .. Chunks -> {"good", "bad"}], same : BOOLEAN]
  <2>1. ASSUME NEW i \in 1 .. Chunks, NEW v \in {"good", "bad"}, NEW noticed \in BOOLEAN,
               dex' = [dex EXCEPT !.bytes[i] = v, !.same = @ /\ ~noticed]
        PROVE  dex' \in Dex
    <3>1. dex \in Dex
      BY DEF TypeOK
    <3>2. (dex.same /\ ~noticed) \in BOOLEAN
      OBVIOUS
    <3>3. [dex.bytes EXCEPT ![i] = v] \in [1 .. Chunks -> {"good", "bad"}]
      BY <3>1
    <3>4. dex' = [bytes |-> [dex.bytes EXCEPT ![i] = v], same |-> (dex.same /\ ~noticed)]
      BY <2>1, <3>1
    <3> QED BY <3>2, <3>3, <3>4
  <2>2. dex' \in Dex
    <3>1. CASE dex' = [dex EXCEPT !.same = FALSE]
      BY <3>1 DEF TypeOK
    <3> QED BY <1>21, <2>1, <3>1 DEF EditDex
  <2>3. edits' \in 0 .. MaxEdits
    <3>1. edits < MaxEdits /\ edits' = edits + 1 /\ edits \in 0 .. MaxEdits /\ MaxEdits \in Nat
      BY <1>21, LanesAssumption DEF EditDex, TypeOK
    <3> QED BY <3>1
  <2> QED BY <1>21, <2>2, <2>3 DEF EditDex, TypeOK
<1>22. CASE Tick
  BY <1>22, LanesAssumption DEF Tick, TypeOK
<1>23. CASE UNCHANGED vars
  BY <1>23 DEF vars, TypeOK
<1> QED
  BY <1>1, <1>2, <1>3, <1>5, <1>6, <1>7, <1>8, <1>9, <1>10, <1>11, <1>12, <1>13, <1>14,
     <1>15, <1>16, <1>17, <1>19, <1>20, <1>21, <1>22, <1>23 DEF Next

-----------------------------------------------------------------------------
(* The futures, validations and supervisors of the calls *)

\* What the invariant says of one call.
CallInv(c) == FutureInv(c) /\ CheckInv(c) /\ SupervisorInv(c)

\* The step leaves the cells of call q that CallInv reads as they are.
Untouched(q) ==
    /\ lane'[q] = lane[q] /\ caller'[q] = caller[q] /\ (q \in permits') = (q \in permits)
    /\ check'[q] = check[q] /\ snapshot'[q] = snapshot[q]
    /\ sup'[q] = sup[q] /\ terminal'[q] = terminal[q] /\ taken'[q] = taken[q]
    /\ leader'[q] = leader[q] /\ signalled'[q] = signalled[q]

\* A step that does not touch a call keeps what the invariant says of it.
LEMMA Frame == ASSUME NEW q \in Calls, CallInv(q), Untouched(q) PROVE CallInv(q)'
<1>1. FutureInv(q)'
  BY DEF CallInv, FutureInv, Untouched
<1>2. CheckInv(q)'
  BY DEF CallInv, CheckInv, Untouched, ExpectedBytes
<1>3. SupervisorInv(q)'
  BY DEF CallInv, SupervisorInv, Untouched
<1> QED BY <1>1, <1>2, <1>3 DEF CallInv

\* Whatever future, validation, process or supervisor moves, each call keeps
\* its part of the invariant.
LEMMA CallStep ==
    ASSUME TypeOK, NEW q \in Calls, CallInv(q), [Next]_vars
    PROVE  CallInv(q)'
<1> USE DEF callerVars, rishVars, dexVars, supVars, groupVars
<1>1. ASSUME NEW c \in Calls, ExecuteCommand(c) PROVE CallInv(q)'
  <2>1. CASE q # c
    <3>1. Untouched(q)
      BY <1>1, <2>1 DEF ExecuteCommand, Arrive, Answer, Untouched, TypeOK
    <3> QED BY <3>1, Frame
  <2>2. CASE q = c
    BY <1>1, <2>2 DEF ExecuteCommand, Arrive, Answer, CallInv, FutureInv, CheckInv, SupervisorInv,
                      Checking, Supervised, TypeOK
  <2> QED BY <2>1, <2>2
<1>2. ASSUME NEW c \in Calls, Probe(c) PROVE CallInv(q)'
  <2>1. CASE q # c
    <3>1. Untouched(q)
      BY <1>2, <2>1 DEF Probe, Arrive, Answer, Untouched, TypeOK
    <3> QED BY <3>1, Frame
  <2>2. CASE q = c
    BY <1>2, <2>2 DEF Probe, Arrive, Answer, CallInv, FutureInv, CheckInv, SupervisorInv,
                      Checking, Supervised, TypeOK
  <2> QED BY <2>1, <2>2
<1>3. ASSUME NEW c \in Calls, CollectStdout(c) PROVE CallInv(q)'
  <2>1. CASE q # c
    <3>1. Untouched(q)
      BY <1>3, <2>1 DEF CollectStdout, Arrive, Untouched, TypeOK
    <3> QED BY <3>1, Frame
  <2>2. CASE q = c
    BY <1>3, <2>2 DEF CollectStdout, Arrive, CallInv, FutureInv, CheckInv, SupervisorInv,
                      Checking, Supervised, TypeOK
  <2> QED BY <2>1, <2>2
<1>4. ASSUME NEW c \in Calls, NEW valid \in BOOLEAN, EndCheck(c, valid), check[c] \in Checking,
             valid => check[c] = "sealed", UNCHANGED <<lane, dexVars, supVars, groupVars, age>>
      PROVE  CallInv(q)'
  <2>1. CASE q # c
    <3>1. Untouched(q)
      BY <1>4, <2>1 DEF EndCheck, Answer, Untouched, TypeOK
    <3> QED BY <3>1, Frame
  <2>2. CASE q = c
    <3>1. CASE valid
      BY <1>4, <2>2, <3>1 DEF EndCheck, Answer, CallInv, FutureInv, CheckInv, SupervisorInv,
                              Checking, Supervised, ExpectedBytes, TypeOK
    <3>2. CASE ~valid
      BY <1>4, <2>2, <3>2 DEF EndCheck, Answer, CallInv, FutureInv, CheckInv, SupervisorInv,
                              Checking, Supervised, ExpectedBytes, TypeOK
    <3> QED BY <3>1, <3>2
  <2> QED BY <2>1, <2>2
<1>5. ASSUME NEW c \in Calls, ValidateDexIdentity(c) PROVE CallInv(q)'
  <2>1. CASE EndCheck(c, FALSE)
    BY <1>4, <1>5, <2>1 DEF ValidateDexIdentity, Checking
  <2>2. CASE /\ check' = [check EXCEPT ![c] = "copying"]
             /\ UNCHANGED <<permits, caller, answer, snapshot>>
    <3>1. CASE q # c
      <4>1. Untouched(q)
        BY <1>5, <2>2, <3>1 DEF ValidateDexIdentity, Untouched, TypeOK
      <4> QED BY <4>1, Frame
    <3>2. CASE q = c
      BY <1>5, <2>2, <3>2 DEF ValidateDexIdentity, CallInv, FutureInv, CheckInv, SupervisorInv,
                              Checking, Supervised, TypeOK
    <3> QED BY <3>1, <3>2
  <2> QED BY <1>5, <2>1, <2>2 DEF ValidateDexIdentity
<1>6. ASSUME NEW c \in Calls, CopyAndHash(c) PROVE CallInv(q)'
  <2>1. PICK i \in 1 .. Chunks :
          /\ snapshot' = [snapshot EXCEPT ![c][i] = dex.bytes[i]]
          /\ check' = [check EXCEPT ![c] = IF i = Chunks THEN "copied" ELSE "copying"]
    BY <1>6 DEF CopyAndHash
  <2>2. CASE q # c
    <3>1. Untouched(q)
      BY <1>6, <2>1, <2>2 DEF CopyAndHash, Untouched, TypeOK
    <3> QED BY <3>1, Frame
  <2>3. CASE q = c
    BY <1>6, <2>1, <2>3 DEF CopyAndHash, CallInv, FutureInv, CheckInv, SupervisorInv,
                            Checking, Supervised, TypeOK
  <2> QED BY <2>2, <2>3
<1>7. ASSUME NEW c \in Calls, SealSnapshot(c) PROVE CallInv(q)'
  <2>1. CASE EndCheck(c, FALSE)
    BY <1>4, <1>7, <2>1 DEF SealSnapshot, Checking
  <2>2. CASE /\ check' = [check EXCEPT ![c] = "sealed"] /\ SnapshotQualified(c)
             /\ UNCHANGED <<permits, caller, answer, snapshot>>
    <3>1. CASE q # c
      <4>1. Untouched(q)
        BY <1>7, <2>2, <3>1 DEF SealSnapshot, Untouched, TypeOK
      <4> QED BY <4>1, Frame
    <3>2. CASE q = c
      BY <1>7, <2>2, <3>2 DEF SealSnapshot, SnapshotQualified, ExpectedBytes, CallInv, FutureInv,
                              CheckInv, SupervisorInv, Checking, Supervised, TypeOK
    <3> QED BY <3>1, <3>2
  <2> QED BY <1>7, <2>1, <2>2 DEF SealSnapshot
<1>8. ASSUME NEW c \in Calls, RevalidateSource(c) PROVE CallInv(q)'
  <2>1. DexIdentityHolds \in BOOLEAN
    BY DEF DexIdentityHolds, TypeOK
  <2> QED BY <1>4, <1>8, <2>1 DEF RevalidateSource, Checking
<1>9. ASSUME NEW c \in Calls, Spawn(c) PROVE CallInv(q)'
  <2>1. CASE q # c
    <3>1. Untouched(q)
      BY <1>9, <2>1 DEF Spawn, Answer, Untouched, TypeOK
    <3> QED BY <3>1, Frame
  <2>2. CASE q = c
    BY <1>9, <2>2 DEF Spawn, Startable, Answer, CallInv, FutureInv, CheckInv, SupervisorInv,
                      Checking, Supervised, ExpectedBytes, TypeOK
  <2> QED BY <2>1, <2>2
<1>10. ASSUME NEW c \in Calls, Deliver(c) PROVE CallInv(q)'
  <2>0. PICK a : Answer(c, a)
    BY <1>10 DEF Deliver
  <2>1. CASE q # c
    <3>1. Untouched(q)
      BY <1>10, <2>0, <2>1 DEF Deliver, Answer, Untouched, TypeOK
    <3> QED BY <3>1, Frame
  <2>2. CASE q = c
    BY <1>10, <2>0, <2>2 DEF Deliver, Answer, CallInv, FutureInv, CheckInv, SupervisorInv,
                      Checking, Supervised, ExpectedBytes, TypeOK
  <2> QED BY <2>1, <2>2
<1>11. ASSUME NEW c \in Calls, DropCaller(c) PROVE CallInv(q)'
  <2>1. CASE q # c
    <3>1. Untouched(q)
      BY <1>11, <2>1 DEF DropCaller, Untouched, TypeOK
    <3> QED BY <3>1, Frame
  <2>2. CASE q = c
    BY <1>11, <2>2 DEF DropCaller, CallInv, FutureInv, CheckInv, SupervisorInv,
                      Checking, Supervised, ExpectedBytes, TypeOK
  <2> QED BY <2>1, <2>2
<1>12. ASSUME NEW c \in Calls, \/ Fork(c) \/ HelperExit(c) \/ \E p \in Pipes : PipeEvent(c, p)
       PROVE  CallInv(q)'
  <2>1. Untouched(q)
    BY <1>12 DEF Fork, HelperExit, PipeEvent, Untouched
  <2> QED BY <2>1, Frame
<1>13. ASSUME NEW c \in Calls, Exit(c) \/ Die(c) PROVE CallInv(q)'
  <2>1. CASE q # c
    <3>1. Untouched(q)
      BY <1>13, <2>1 DEF Exit, Die, Untouched, TypeOK
    <3> QED BY <3>1, Frame
  <2>2. CASE q = c
    <3>1. /\ (leader[c] = "none") = (leader'[c] = "none")
          /\ leader[c] \in {"reaped", "lost"} => leader'[c] = leader[c]
      BY <1>13 DEF Exit, Die, TypeOK
    <3>2. FutureInv(c)' /\ CheckInv(c)'
      BY <1>13, <2>2 DEF Exit, Die, CallInv, FutureInv, CheckInv, ExpectedBytes
    <3>3. SupervisorInv(c)'
      BY <1>13, <2>2, <3>1 DEF Exit, Die, CallInv, SupervisorInv
    <3> QED BY <2>2, <3>2, <3>3 DEF CallInv
  <2> QED BY <2>1, <2>2
<1>14. ASSUME NEW c \in Calls, Poll(c) PROVE CallInv(q)'
  <2>1. CASE q # c
    <3>1. Untouched(q)
      BY <1>14, <2>1 DEF Poll, PollPipe, PollChild, Observe, EndSupervision, Untouched, TypeOK
    <3> QED BY <3>1, Frame
  <2>2. CASE q = c
    <3>1. UNCHANGED <<callerVars, permits, rishVars>> /\ sup[c] = "watching"
      BY <1>14 DEF Poll
    <3>2. \/ sup'[c] = "watching" /\ terminal'[c] = terminal[c] 
          \/ sup'[c] = "reaping" /\ signalled'[c]
             /\ (terminal'[c] = "complete" => taken'[c] = Pipes \cup {"child"})
      BY <1>14 DEF Poll, PollPipe, PollChild, Observe, EndSupervision, Limit, TypeOK
    <3>3. leader'[c] \in {leader[c], "reaped", "lost"}
      BY <1>14 DEF Poll, PollPipe, PollChild, TypeOK
    <3>4. FutureInv(c)' /\ CheckInv(c)'
      BY <2>2, <3>1, <3>2 DEF CallInv, FutureInv, CheckInv, ExpectedBytes, Checking
    <3>5. SupervisorInv(c)'
      BY <2>2, <3>1, <3>2, <3>3 DEF CallInv, SupervisorInv, Supervised
    <3> QED BY <2>2, <3>4, <3>5 DEF CallInv
  <2> QED BY <2>1, <2>2
<1>15. ASSUME NEW c \in Calls, Reap(c) \/ ReapFailed(c) PROVE CallInv(q)'
  <2>1. CASE q # c
    <3>1. Untouched(q)
      BY <1>15, <2>1 DEF Reap, ReapFailed, FinishSupervision, Untouched, TypeOK
    <3> QED BY <3>1, Frame
  <2>2. CASE q = c
    <3>1. UNCHANGED <<callerVars, rishVars>> /\ sup[c] = "reaping"
      BY <1>15 DEF Reap, ReapFailed
    <3>2. sup'[c] = "finished" /\ leader'[c] \in {"reaped", "lost"}
      BY <1>15 DEF Reap, ReapFailed, FinishSupervision, TypeOK
    <3>3. FutureInv(c)' /\ CheckInv(c)'
      BY <2>2, <3>1, <3>2 DEF CallInv, FutureInv, CheckInv, SupervisorInv, Supervised,
                              ExpectedBytes, Checking
    <3>4. SupervisorInv(c)'
      BY <2>2, <3>1, <3>2 DEF CallInv, SupervisorInv, Supervised
    <3> QED BY <2>2, <3>3, <3>4 DEF CallInv
  <2> QED BY <2>1, <2>2
<1>16. ASSUME EditDex \/ Tick \/ UNCHANGED vars PROVE CallInv(q)'
  <2>1. Untouched(q)
    BY <1>16 DEF EditDex, Tick, vars, Untouched
  <2> QED BY <2>1, Frame
<1> QED
  BY <1>1, <1>2, <1>3, <1>5, <1>6, <1>7, <1>8, <1>9, <1>10, <1>11, <1>12, <1>13, <1>14,
     <1>15, <1>16 DEF Next

-----------------------------------------------------------------------------
(* The lanes *)

\* A permit is only ever taken below the limit: no step leaves a lane with more
\* holders than permits.
LEMMA LaneStep ==
    ASSUME TypeOK, \A c \in Calls : CallInv(c), LanesWithin, [Next]_vars
    PROVE  LanesWithin'
<1> SUFFICES ASSUME NEW l \in {"command", "rish"}
             PROVE  Cardinality(Holders(l)') <= Permits[l]
  BY DEF LanesWithin
<1> USE DEF callerVars, rishVars, dexVars, supVars, groupVars
<1>1. /\ IsFiniteSet(Holders(l)) /\ Cardinality(Holders(l)) \in Nat
      /\ Cardinality(Holders(l)) <= Permits[l] /\ Permits[l] \in Nat
  <2>1. Holders(l) \subseteq Calls
    BY DEF Holders, TypeOK
  <2>2. IsFiniteSet(Holders(l))
    BY <2>1, FS_Subset, LanesAssumption
  <2>3. Cardinality(Holders(l)) \in Nat
    BY <2>2, FS_CardinalityType
  <2> QED BY <2>2, <2>3, LanesAssumption DEF LanesWithin
<1>2. ASSUME Holders(l)' \subseteq Holders(l) PROVE Cardinality(Holders(l)') <= Permits[l]
  <2>1. Cardinality(Holders(l)') <= Cardinality(Holders(l)) /\ IsFiniteSet(Holders(l)')
    BY <1>1, <1>2, FS_Subset
  <2>2. Cardinality(Holders(l)') \in Nat
    BY <2>1, FS_CardinalityType
  <2> QED BY <1>1, <2>1, <2>2
<1>3. ASSUME NEW c \in Calls, NEW m \in {"command", "rish"}, Arrive(c, m),
             \/ permits' = permits
             \/ permits' = permits \cup {c} /\ Cardinality(Holders(m)) < Permits[m]
      PROVE  Cardinality(Holders(l)') <= Permits[l]
  <2>1. c \notin permits /\ lane' = [lane EXCEPT ![c] = m]
    BY <1>3 DEF Arrive, CallInv, FutureInv
  <2>2. CASE permits' = permits \/ l # m
    <3>1. Holders(l)' \subseteq Holders(l)
      BY <1>3, <2>1, <2>2 DEF Holders, TypeOK
    <3> QED BY <1>2, <3>1
  <2>3. CASE permits' = permits \cup {c} /\ Cardinality(Holders(m)) < Permits[m] /\ l = m
    <3>1. Holders(l)' = Holders(l) \cup {c} /\ c \notin Holders(l)
      BY <2>1, <2>3 DEF Holders, TypeOK
    <3>2. Cardinality(Holders(l)') = Cardinality(Holders(l)) + 1
      BY <1>1, <3>1, FS_AddElement
    <3> QED BY <1>1, <2>3, <3>2
  <2> QED BY <1>3, <2>2, <2>3
<1>4. ASSUME NEW c \in Calls, ExecuteCommand(c) PROVE Cardinality(Holders(l)') <= Permits[l]
  BY <1>3, <1>4 DEF ExecuteCommand
<1>5. ASSUME NEW c \in Calls, Probe(c) PROVE Cardinality(Holders(l)') <= Permits[l]
  BY <1>3, <1>5 DEF Probe
<1>6. ASSUME NEW c \in Calls, CollectStdout(c) PROVE Cardinality(Holders(l)') <= Permits[l]
  <2>1. c \notin permits /\ lane' = [lane EXCEPT ![c] = "provider"] /\ permits' = permits
    BY <1>6 DEF CollectStdout, Arrive, CallInv, FutureInv
  <2>2. Holders(l)' \subseteq Holders(l)
    BY <2>1 DEF Holders, TypeOK
  <2> QED BY <1>2, <2>2
<1>7. ASSUME permits' \subseteq permits, UNCHANGED lane PROVE Cardinality(Holders(l)') <= Permits[l]
  BY <1>2, <1>7 DEF Holders
<1>8. ASSUME NEW c \in Calls, Validation(c) PROVE Cardinality(Holders(l)') <= Permits[l]
  BY <1>7, <1>8 DEF Validation, ValidateDexIdentity, CopyAndHash, SealSnapshot, RevalidateSource, EndCheck
<1>9. ASSUME NEW c \in Calls, Spawn(c) \/ Deliver(c) \/ DropCaller(c)
      PROVE  Cardinality(Holders(l)') <= Permits[l]
  BY <1>7, <1>9 DEF Spawn, Deliver, DropCaller
<1>10. ASSUME NEW c \in Calls, \/ Fork(c) \/ Exit(c) \/ HelperExit(c) \/ Die(c)
                               \/ \E p \in Pipes : PipeEvent(c, p)
       PROVE  Cardinality(Holders(l)') <= Permits[l]
  BY <1>7, <1>10 DEF Fork, Exit, HelperExit, Die, PipeEvent
<1>11. ASSUME NEW c \in Calls, Poll(c) \/ Reap(c) \/ ReapFailed(c)
       PROVE  Cardinality(Holders(l)') <= Permits[l]
  BY <1>7, <1>11 DEF Poll, Reap, ReapFailed, FinishSupervision
<1>12. ASSUME EditDex \/ Tick \/ UNCHANGED vars PROVE Cardinality(Holders(l)') <= Permits[l]
  BY <1>7, <1>12 DEF EditDex, Tick, vars
<1> QED
  BY <1>4, <1>5, <1>6, <1>8, <1>9, <1>10, <1>11, <1>12 DEF Next, Validation

-----------------------------------------------------------------------------
(* The theorems *)

\* The initial state satisfies the invariant.
LEMMA InitInv == Init => IInv
<1> SUFFICES ASSUME Init PROVE IInv
  OBVIOUS
<1>1. TypeOK
  BY LanesAssumption DEF Init, TypeOK, Lanes, Terminals
<1>2. \A c \in Calls : FutureInv(c) /\ CheckInv(c) /\ SupervisorInv(c)
  BY DEF Init, FutureInv, CheckInv, SupervisorInv, Checking, Supervised
<1>3. \A l : Holders(l) = {}
  BY DEF Init, Holders
<1>4. LanesWithin
  BY <1>3, FS_EmptySet, LanesAssumption DEF LanesWithin
<1> QED BY <1>1, <1>2, <1>4 DEF IInv

\* The invariant behind the lanes holds in every reachable state: a rish permit
\* is where the validation or the child is, a command permit where its waiting
\* caller is, only expected bytes are sealed and try_acquire stays within the
\* permits.
THEOREM InductiveInvariant == Spec => []IInv
<1>1. IInv /\ [Next]_vars => IInv'
  <2> SUFFICES ASSUME IInv, [Next]_vars PROVE IInv'
    OBVIOUS
  <2>1. TypeOK /\ (\A c \in Calls : CallInv(c)) /\ LanesWithin
    BY DEF IInv, CallInv
  <2>2. TypeOK'
    BY <2>1, TypeStep
  <2>3. \A c \in Calls : CallInv(c)'
    BY <2>1, CallStep
  <2>4. LanesWithin'
    BY <2>1, LaneStep
  <2> QED BY <2>2, <2>3, <2>4 DEF IInv, CallInv
<1> QED BY <1>1, InitInv, PTL DEF Spec

\* Every variable keeps its type, whatever the processes and the callers do.
THEOREM TypeCorrect == Spec => []TypeOK
<1>1. IInv => TypeOK
  BY DEF IInv
<1> QED BY <1>1, InductiveInvariant, PTL

\* No more rish validations and children exist than the probe lane has permits,
\* though the client that started one may be long gone.
THEOREM ProbeExclusion == Spec => []ProbesNeverOverlap
<1>1. IInv => ProbesNeverOverlap
  <2> SUFFICES ASSUME IInv PROVE ProbesNeverOverlap
    OBVIOUS
  <2> DEFINE Busy == {c \in Calls : lane[c] = "rish"
                        /\ (check[c] \in {"opened", "copying", "copied", "sealed"} \/ Uncollected(c))}
  <2>1. ASSUME NEW c \in Busy PROVE c \in Holders("rish")
    <3>1. CASE check[c] \in Checking
      BY <3>1 DEF IInv, CheckInv, Holders
    <3>2. CASE Uncollected(c)
      <4>1. sup[c] \in {"none", "watching", "reaping", "finished"}
        BY DEF IInv, TypeOK
      <4>2. sup[c] \in Supervised
        BY <3>2, <4>1 DEF IInv, SupervisorInv, Uncollected, Supervised
      <4> QED BY <4>2 DEF IInv, SupervisorInv, Holders
    <3> QED BY <3>1, <3>2 DEF Checking
  <2>2. Holders("rish") \subseteq Calls
    BY DEF IInv, TypeOK, Holders
  <2>3. ProbesNeverOverlap <=> Cardinality(Busy) <= Permits["rish"]
    BY DEF ProbesNeverOverlap
  <2> HIDE DEF Busy
  <2>4. IsFiniteSet(Holders("rish")) /\ IsFiniteSet(Busy)
        /\ Cardinality(Busy) <= Cardinality(Holders("rish"))
    BY <2>1, <2>2, FS_Subset, LanesAssumption
  <2>5. Cardinality(Busy) \in Nat /\ Cardinality(Holders("rish")) \in Nat
    BY <2>4, FS_CardinalityType
  <2>6. Cardinality(Holders("rish")) <= Permits["rish"] /\ Permits["rish"] \in Nat
    BY LanesAssumption DEF IInv, LanesWithin
  <2> QED BY <2>3, <2>4, <2>5, <2>6
<1> QED BY <1>1, InductiveInvariant, PTL

\* The children of commands whose caller still waits, or was answered, are
\* never more than the command lane has permits.
THEOREM CommandLaneSafety == Spec => []CommandLaneBounded
<1>1. IInv => CommandLaneBounded
  <2> SUFFICES ASSUME IInv PROVE CommandLaneBounded
    OBVIOUS
  <2> DEFINE Busy == {c \in Calls : lane[c] = "command" /\ caller[c] # "dropped" /\ Uncollected(c)}
  <2>1. ASSUME NEW c \in Busy PROVE c \in Holders("command")
    <3>1. sup[c] \in {"none", "watching", "reaping", "finished"}
      BY DEF IInv, TypeOK
    <3>2. sup[c] \in Supervised
      BY <3>1 DEF IInv, SupervisorInv, Uncollected, Supervised
    <3> QED BY <3>2 DEF IInv, SupervisorInv, Holders
  <2>2. Holders("command") \subseteq Calls
    BY DEF IInv, TypeOK, Holders
  <2>3. CommandLaneBounded <=> Cardinality(Busy) <= Permits["command"]
    BY DEF CommandLaneBounded
  <2> HIDE DEF Busy
  <2>4. IsFiniteSet(Holders("command")) /\ IsFiniteSet(Busy)
        /\ Cardinality(Busy) <= Cardinality(Holders("command"))
    BY <2>1, <2>2, FS_Subset, LanesAssumption
  <2>5. Cardinality(Busy) \in Nat /\ Cardinality(Holders("command")) \in Nat
    BY <2>4, FS_CardinalityType
  <2>6. Cardinality(Holders("command")) <= Permits["command"] /\ Permits["command"] \in Nat
    BY LanesAssumption DEF IInv, LanesWithin
  <2> QED BY <2>3, <2>4, <2>5, <2>6
<1> QED BY <1>1, InductiveInvariant, PTL

\* However the DEX file is rewritten while it is validated and copied, a rish
\* child runs on the configured bytes only.
THEOREM DexIntegrity == Spec => []OnlyExpectedDexRuns
<1>1. IInv => OnlyExpectedDexRuns
  BY DEF IInv, OnlyExpectedDexRuns, SupervisorInv, CheckInv
<1> QED BY <1>1, InductiveInvariant, PTL

\* Every verdict is earned: the select decides nothing but cancellation or the
\* timeout once the caller is gone or the operation budget is used up, and
\* success needs the exit status, both pipes and a cleanup confirmed in time.
THEOREM VerdictSafety == Spec => VerdictsEarned
<1>1. IInv /\ [Next]_vars => [\A c \in Calls : Decided(c) /\ Confirmed(c) /\ Accepted(c)]_vars
  <2> SUFFICES ASSUME IInv, [Next]_vars, NEW q \in Calls
               PROVE  Decided(q) /\ Confirmed(q) /\ Accepted(q)
    OBVIOUS
  <2> USE DEF callerVars, rishVars, dexVars, supVars, groupVars, Decided, Confirmed, Accepted
  <2>0. TypeOK /\ SupervisorInv(q)
    BY DEF IInv
  <2>1. ASSUME UNCHANGED supVars,
               UNCHANGED answer \/ \E c \in Calls : \E a : a # "ok" /\ Answer(c, a)
        PROVE  Decided(q) /\ Confirmed(q) /\ Accepted(q)
    <3>1. Accepted(q)
      BY <2>0, <2>1 DEF Answer, TypeOK
    <3> QED BY <2>1, <3>1
  <2>2. ASSUME NEW c \in Calls, ExecuteCommand(c) \/ Probe(c) \/ CollectStdout(c) \/ Validation(c)
        PROVE  Decided(q) /\ Confirmed(q) /\ Accepted(q)
    <3>1. UNCHANGED answer \/ \E a \in {"busy", "dex_invalid"} : Answer(c, a)
      BY <2>2 DEF ExecuteCommand, Probe, CollectStdout, Validation, ValidateDexIdentity, CopyAndHash,
                  SealSnapshot, RevalidateSource, EndCheck
    <3>2. UNCHANGED supVars
      BY <2>2 DEF ExecuteCommand, Probe, CollectStdout, Validation, ValidateDexIdentity, CopyAndHash,
                  SealSnapshot, RevalidateSource
    <3> QED BY <2>1, <3>1, <3>2
  <2>3. ASSUME NEW c \in Calls, Spawn(c) PROVE Decided(q) /\ Confirmed(q) /\ Accepted(q)
    <3>1. UNCHANGED answer \/ \E a \in {"unavailable", "spawn_failed"} : Answer(c, a)
      BY <2>3 DEF Spawn
    <3>2. Accepted(q)
      BY <2>0, <3>1 DEF Answer, TypeOK
    <3>3. sup'[q] \in {sup[q], "watching"}
      BY <2>0, <2>3 DEF Spawn, TypeOK
    <3> QED BY <3>2, <3>3
  <2>4. ASSUME NEW c \in Calls, Deliver(c) PROVE Decided(q) /\ Confirmed(q) /\ Accepted(q)
    <3>1. \E a : Answer(c, a) /\ (a = "ok" => terminal[c] = "complete")
      <4>1. Verdict(terminal[c]) # "ok"
        BY <2>0 DEF Verdict, TypeOK, Terminals, Failures
      <4> QED BY <2>4, <4>1 DEF Deliver
    <3>2. Accepted(q)
      BY <2>0, <3>1 DEF Answer, TypeOK
    <3> QED BY <2>4, <3>2 DEF Deliver
  <2>5. ASSUME NEW c \in Calls, DropCaller(c) PROVE Decided(q) /\ Confirmed(q) /\ Accepted(q)
    BY <2>5 DEF DropCaller
  <2>6. ASSUME NEW c \in Calls, \/ Fork(c) \/ Exit(c) \/ HelperExit(c) \/ Die(c)
                                \/ \E p \in Pipes : PipeEvent(c, p)
        PROVE  Decided(q) /\ Confirmed(q) /\ Accepted(q)
    BY <2>1, <2>6 DEF Fork, Exit, HelperExit, Die, PipeEvent
  <2>7. ASSUME EditDex \/ Tick \/ UNCHANGED vars PROVE Decided(q) /\ Confirmed(q) /\ Accepted(q)
    BY <2>1, <2>7 DEF EditDex, Tick, vars
  <2>8. ASSUME NEW c \in Calls, Poll(c) PROVE Decided(q) /\ Confirmed(q) /\ Accepted(q)
    <3>1. /\ Ready(c) # {} /\ UNCHANGED answer /\ sup[c] = "watching"
          /\ \/ First(c) = "cancel" /\ EndSupervision(c, "cancelled")
             \/ First(c) = "deadline" /\ EndSupervision(c, "timed_out")
             \/ First(c) \in Pipes /\ PollPipe(c, First(c))
             \/ First(c) = "child" /\ PollChild(c)
      BY <2>8 DEF Poll, First
    <3>2. /\ "cancel" \in Ready(c) => First(c) = "cancel"
          /\ "deadline" \in Ready(c) => First(c) \in {"cancel", "deadline"}
      BY <3>1, FirstArm
    <3>3. \/ sup' = sup
          \/ sup' = [sup EXCEPT ![c] = "reaping"]
      BY <3>1 DEF PollPipe, PollChild, Observe, EndSupervision
    <3>4. CASE q = c
      <4>1. Confirmed(q) /\ Accepted(q)
        BY <2>0, <3>1, <3>3, <3>4 DEF TypeOK
      <4>2. First(c) = "cancel" => terminal'[c] = "cancelled"
        BY <2>0, <3>1 DEF EndSupervision, Pipes, TypeOK
      <4>3. First(c) = "deadline" => terminal'[c] = "timed_out"
        BY <2>0, <3>1 DEF EndSupervision, Pipes, TypeOK
      <4>4. age[c] \in Nat /\ OperationDeadline \in Nat
        BY <2>0, LanesAssumption DEF TypeOK, OperationDeadline
      <4>5. caller[c] = "dropped" => "cancel" \in Ready(c)
        BY DEF Ready
      <4>6. ~(age[c] < OperationDeadline) => "deadline" \in Ready(c)
        <5>1. ~(age[c] < OperationDeadline) => age[c] >= OperationDeadline
          BY <4>4
        <5> QED BY <5>1 DEF Ready
      <4>7. Decided(q)
        BY <3>2, <3>4, <4>2, <4>3, <4>5, <4>6
      <4> QED BY <4>1, <4>7
    <3>5. CASE q # c
      BY <2>0, <3>1, <3>3, <3>5 DEF TypeOK
    <3> QED BY <3>4, <3>5
  <2>9. ASSUME NEW c \in Calls, Reap(c) \/ ReapFailed(c)
        PROVE  Decided(q) /\ Confirmed(q) /\ Accepted(q)
    <3>1. UNCHANGED answer /\ sup' = [sup EXCEPT ![c] = "finished"] /\ sup[c] = "reaping"
      BY <2>9 DEF Reap, ReapFailed, FinishSupervision
    <3>2. CASE q # c
      BY <2>0, <3>1, <3>2 DEF TypeOK
    <3>3. CASE q = c
      <4>1. Decided(q) /\ Accepted(q)
        BY <3>1, <3>3
      <4>2. CASE ReapFailed(c)
        BY <2>0, <3>3, <4>1, <4>2 DEF ReapFailed, FinishSupervision, TypeOK
      <4>3. CASE Reap(c) /\ FinishSupervision(c, FALSE)
        BY <2>0, <3>3, <4>1, <4>3 DEF FinishSupervision, TypeOK
      <4>4. CASE Reap(c) /\ FinishSupervision(c, TRUE) /\ age[c] <= Timeout
        <5>1. leader'[c] = "reaped" /\ (terminal'[c] = "complete" => terminal[c] = "complete")
          BY <2>0, <4>4 DEF Reap, FinishSupervision, TypeOK
        <5> QED BY <2>0, <3>1, <3>3, <4>1, <4>4, <5>1 DEF SupervisorInv
      <4> QED BY <2>9, <4>2, <4>3, <4>4 DEF Reap
    <3> QED BY <3>2, <3>3
  <2> QED
    BY <2>2, <2>3, <2>4, <2>5, <2>6, <2>7, <2>8, <2>9 DEF Next, Validation
<1> QED BY <1>1, InductiveInvariant, PTL DEF Spec, VerdictsEarned
=============================================================================
