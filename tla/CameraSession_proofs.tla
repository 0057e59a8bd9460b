------------------------ MODULE CameraSession_proofs ------------------------
(***************************************************************************)
(* For any number of starts and stops: at most one task is past its queue, *)
(* the camera is on only while the preview says so, and a preview that     *)
(* plays shows the live stream.  Tasks are ordered by their tokens; every  *)
(* task before one that has begun has ended, and everything unfinished     *)
(* waits, directly or not, behind it.                                      *)
(***************************************************************************)
EXTENDS CameraSession, FiniteSetTheorems, WellFoundedInduction, TLAPS

(* Every task before t has ended. *)
Clear(t) == \A u \in Tokens : u < t => stage[u] \in Ended

(* A queued task's predecessor is the last unfinished one before it. *)
QueueInv ==
  \A t \in Tokens : stage[t] = "queued" =>
    /\ after[t] \in Tokens /\ after[t] < t
    /\ \A u \in Tokens : u < t /\ stage[u] \in Unfinished =>
         u <= after[t] /\ stage[after[t]] \in Unfinished

TaskInv ==
  /\ \A t \in Tokens : stage[t] # "none" => t <= token
  /\ \A t \in Tokens : stage[t] \in Active => Clear(t)
  /\ startTask = 0 => \A t \in Tokens : stage[t] \in Ended
  /\ startTask # 0 =>
       /\ stage[startTask] \in Unfinished
       /\ \A u \in Tokens : stage[u] \in Unfinished => u <= startTask

(* The controller's stream is the one that is attached and switched on. *)
StreamInv ==
  /\ stream # 0 => /\ stream = token /\ lit = {stream} /\ source = stream
                   /\ running \/ stage[stream] \in Attached
  /\ stream = 0 => lit = {} /\ source = 0 /\ ~running
  /\ running => stage[token] = "quiet" /\ startTask = 0
  /\ \A t \in Tokens : stage[t] \in Attached /\ t = token => stream = t

(* The preview and the startCamera call it listens to. *)
ViewInv ==
  /\ token <= attempt
  /\ CameraOnIsShown
  /\ view = "playing" => running
  /\ token # 0 /\ stage[token] \in Unfinished => view = "requesting"
  /\ \A w \in waits : /\ w.attempt <= attempt
                      /\ w.attempt = attempt => w.task = token

Inv == TypeOK /\ QueueInv /\ TaskInv /\ StreamInv /\ ViewInv

USE BoundAssumption DEF Tokens, Token0

-----------------------------------------------------------------------------
LEMMA InitInv == Init => Inv
<1> SUFFICES ASSUME Init PROVE Inv OBVIOUS
<1>1. \A t \in Tokens : stage[t] = "none"
  BY DEF Init
<1>2. TypeOK
  <2>1. stage \in [Tokens -> Unfinished \cup Ended] /\ after \in [Tokens -> Token0]
    BY DEF Init, Ended
  <2>2. waits \subseteq [attempt : Tokens, task : Tokens]
    BY DEF Init
  <2>3. /\ token \in Token0 /\ stream \in Token0 /\ startTask \in Token0
        /\ source \in Token0 /\ attempt \in Token0 /\ lit \subseteq Tokens
        /\ view = "idle"
    BY DEF Init
  <2>4. running \in BOOLEAN
    BY Zenon DEF Init
  <2> QED BY <2>1, <2>2, <2>3, <2>4 DEF TypeOK
<1>3. QueueInv /\ TaskInv
  BY <1>1 DEF Init, QueueInv, TaskInv, Ended, Active, Attached
<1>4. StreamInv /\ ViewInv
  BY <1>1 DEF Init, StreamInv, ViewInv, CameraOnIsShown, Attached
<1> QED BY <1>2, <1>3, <1>4 DEF Inv

(* A task that ends, with all before it ended, leaves the order in place. *)
LEMMA EndsOrder ==
  ASSUME TypeOK, QueueInv, TaskInv, NEW t \in Tokens, NEW how \in {"quiet", "thrown"},
         stage[t] \in Unfinished, Clear(t), Ends(t, how), UNCHANGED <<token, after>>
  PROVE  QueueInv' /\ TaskInv'
<1>1. /\ stage' \in [Tokens -> Unfinished \cup Ended]
      /\ stage'[t] = how
      /\ \A u \in Tokens : u # t => stage'[u] = stage[u]
  BY DEF Ends, TypeOK, Ended
<1>2. QueueInv'
  BY <1>1, SMTT(60) DEF QueueInv, Clear, Unfinished, Active, Attached, Ended
<1>3. TaskInv'
  BY <1>1, SMTT(60) DEF TaskInv, Clear, Unfinished, Active, Attached, Ended, Ends, TypeOK
<1> QED BY <1>2, <1>3

(* So does one that goes on, or leaves the queue. *)
LEMMA MoveOrder ==
  ASSUME TypeOK, QueueInv, TaskInv, NEW t \in Tokens, NEW where \in Active,
         stage[t] \in Unfinished, Clear(t), stage' = [stage EXCEPT ![t] = where],
         UNCHANGED <<token, after, startTask>>
  PROVE  QueueInv' /\ TaskInv'
<1>1. /\ stage'[t] = where
      /\ \A u \in Tokens : u # t => stage'[u] = stage[u]
  BY DEF TypeOK
<1>2. QueueInv'
  BY <1>1, SMTT(60) DEF QueueInv, Clear, Unfinished, Active, Attached, Ended
<1>3. TaskInv'
  BY <1>1, SMTT(60) DEF TaskInv, Clear, Unfinished, Active, Attached, Ended, TypeOK
<1> QED BY <1>2, <1>3

(* A queued task whose predecessor has ended has none before it. *)
LEMMA BeginClear ==
  ASSUME TypeOK, QueueInv, NEW t \in Tokens, stage[t] = "queued", stage[after[t]] \in Ended
  PROVE  Clear(t)
  BY DEF QueueInv, Clear, TypeOK, Unfinished, Active, Attached, Ended

(* A task that catches an error leaves the controller stopped, unless the   *)
(* stream is another's, which nothing unfinished allows.                    *)
LEMMA FailsInv ==
  ASSUME Inv, NEW t \in Tokens, NEW how \in {"quiet", "thrown"}, stage[t] \in Unfinished,
         Clear(t), Fails(t, how), Release(t) \/ (stage[t] \notin Attached /\ UNCHANGED <<lit, source>>),
         UNCHANGED Unchecked
  PROVE  Inv'
<1>1. QueueInv' /\ TaskInv'
  BY EndsOrder DEF Inv, Fails, Unchecked
<1>2. ~running
  BY DEF Inv, StreamInv, TaskInv, TypeOK, Unfinished, Active, Attached, Ended
<1>3. /\ stage'[t] = how
      /\ \A u \in Tokens : u # t => stage'[u] = stage[u]
  BY DEF Inv, TypeOK, Fails, Ends
<1>4. stream # 0 => stage[stream] \in Attached
  BY <1>2 DEF Inv, StreamInv
<1>5. stream # 0 => stream = t
  BY <1>4 DEF Inv, TaskInv, Clear, TypeOK, Unfinished, Active, Attached, Ended, StreamInv
<1>6. TypeOK'
  <2>1. stage' \in [Tokens -> Unfinished \cup Ended]
    BY DEF Inv, TypeOK, Fails, Ends, Ended
  <2>2. startTask' \in Token0 /\ stream' \in Token0
    BY DEF Inv, TypeOK, Fails, Ends
  <2>3. lit' \subseteq Tokens /\ source' \in Token0
    <3>1. CASE Release(t)
      BY <3>1 DEF Inv, TypeOK, Release
    <3>2. CASE UNCHANGED <<lit, source>>
      BY <3>2 DEF Inv, TypeOK
    <3> QED BY <3>1, <3>2
  <2> QED BY <2>1, <2>2, <2>3 DEF Inv, TypeOK, Fails, Unchecked
<1>7. StreamInv'
  <2>1. stream' = 0 /\ lit' = {} /\ source' = 0
    BY <1>2, <1>4, <1>5 DEF Inv, StreamInv, Fails, Release
  <2>2. \A u \in Tokens : ~(stage'[u] \in Attached /\ u = token')
    BY <1>2, <1>3, <1>4, <1>5 DEF Inv, StreamInv, TypeOK, Unchecked, Attached
  <2> QED BY <2>1, <2>2 DEF StreamInv, Fails
<1>8. ViewInv'
  BY <1>2, <1>3, <1>5, <1>7 DEF Inv, ViewInv, CameraOnIsShown, Fails, Release, Unchecked, TypeOK, StreamInv,
     Unfinished, Active, Attached
<1> QED BY <1>1, <1>6, <1>7, <1>8 DEF Inv

-----------------------------------------------------------------------------
LEMMA NewTaskOrder ==
  ASSUME Inv, token < MaxAttempts, NewTask(startTask)
  PROVE  QueueInv' /\ TaskInv'
<1>1. token + 1 \in Tokens /\ stage[token + 1] = "none"
  BY DEF Inv, TypeOK, TaskInv
<1>2. /\ stage'[token + 1] = IF startTask = 0 THEN "asking" ELSE "queued"
      /\ \A u \in Tokens : u # token + 1 => stage'[u] = stage[u]
      /\ after'[token + 1] = startTask
      /\ \A u \in Tokens : u # token + 1 => after'[u] = after[u]
  BY <1>1 DEF Inv, TypeOK, NewTask
<1>3. \A u \in Tokens : u > token => stage[u] = "none"
  BY DEF Inv, TypeOK, TaskInv
<1>4. startTask # 0 => startTask \in Tokens /\ startTask <= token
  BY DEF Inv, TypeOK, TaskInv, Unfinished, Active, Attached
<1>5. QueueInv'
  BY <1>1, <1>2, <1>3, <1>4, SMTT(60) DEF Inv, QueueInv, TaskInv, TypeOK, NewTask, Unfinished, Active, Attached, Ended
<1>6. TaskInv'
  BY <1>1, <1>2, <1>3, <1>4, SMTT(60) DEF Inv, TaskInv, TypeOK, NewTask, Clear, Unfinished, Active, Attached, Ended
<1> QED BY <1>5, <1>6

LEMMA StartInv == ASSUME Inv, StartCamera PROVE Inv'
<1>1. token <= attempt /\ token < MaxAttempts /\ attempt + 1 \in Tokens
  BY DEF Inv, ViewInv, TypeOK, StartCamera
<1>2. CASE Shares /\ (running \/ (startTask # 0 /\ startTask = token))
  <2>1. token \in Tokens
    BY <1>2 DEF Inv, StreamInv, TypeOK
  <2>2. TypeOK'
    BY <1>1, <1>2, <2>1 DEF Inv, TypeOK, StartCamera, Shares, Awaits
  <2>3. QueueInv' /\ TaskInv' /\ StreamInv'
    BY <1>2 DEF Inv, QueueInv, TaskInv, StreamInv, Clear, StartCamera, Shares
  <2>4. ViewInv'
    BY <1>1, <1>2, <2>1 DEF Inv, ViewInv, TypeOK, CameraOnIsShown, StartCamera, Shares, Awaits
  <2> QED BY <2>2, <2>3, <2>4 DEF Inv
<1>3. CASE NewTask(startTask) /\ Awaits(token + 1) /\ ~running /\ (startTask = 0 \/ startTask # token)
  <2>1. QueueInv' /\ TaskInv'
    BY <1>1, <1>3, NewTaskOrder
  <2>2. token + 1 \in Tokens
    BY <1>1 DEF Inv, TypeOK
  <2>3. TypeOK'
    BY <1>1, <1>3, <2>2 DEF Inv, TypeOK, StartCamera, NewTask, Awaits, Unfinished, Active
  <2>4. stream = 0
    BY <1>3 DEF Inv, StreamInv, TaskInv, TypeOK, Unfinished, Active, Attached, Ended
  <2>5. StreamInv'
    <3>1. \A t \in Tokens : stage'[t] \in Attached => stage[t] \in Attached /\ t <= token
      BY <1>3, <2>2 DEF Inv, TypeOK, TaskInv, NewTask, Attached
    <3>2. token' = token + 1 /\ token \in Nat
      BY <1>3 DEF NewTask, Inv, TypeOK
    <3> QED BY <1>3, <2>4, <3>1, <3>2 DEF Inv, StreamInv, StartCamera
  <2>6. ViewInv'
    BY <1>1, <1>3, <2>2, <2>4 DEF Inv, ViewInv, StreamInv, TypeOK, CameraOnIsShown, StartCamera, NewTask, Awaits
  <2> QED BY <2>1, <2>3, <2>5, <2>6 DEF Inv
<1> QED BY <1>2, <1>3 DEF StartCamera, StartTask

-----------------------------------------------------------------------------
(* A step of an active task that neither ends it nor touches the stream. *)
LEMMA MoveInv ==
  ASSUME Inv, NEW t \in Tokens, NEW where \in Active, stage[t] \in Unfinished, Clear(t),
         stage' = [stage EXCEPT ![t] = where],
         stage[t] \in Attached /\ source = t => where \in Attached,
         where \in Attached => stage[t] \in Attached,
         UNCHANGED <<running, stream, startTask, lit, source, Unchecked>>
  PROVE  Inv'
<1>1. QueueInv' /\ TaskInv'
  BY MoveOrder DEF Inv, Unchecked
<1>2. /\ stage'[t] = where
      /\ \A u \in Tokens : u # t => stage'[u] = stage[u]
  BY DEF Inv, TypeOK
<1>3. TypeOK'
  BY DEF Inv, TypeOK, Unchecked, Unfinished
<1>4. StreamInv'
  BY <1>2 DEF Inv, StreamInv, TaskInv, TypeOK, Unchecked, Unfinished, Active, Attached, Ended
<1>5. ViewInv'
  BY <1>2 DEF Inv, ViewInv, CameraOnIsShown, TypeOK, Unchecked, Unfinished
<1> QED BY <1>1, <1>3, <1>4, <1>5 DEF Inv

LEMMA TaskSteps == ASSUME Inv, NEW t \in Tokens, Task(t) PROVE Inv'
<1>1. CASE Begin(t)
  <2>1. Clear(t)
    BY <1>1, BeginClear DEF Begin, Inv
  <2>2. CASE t = token
    BY <1>1, <2>1, <2>2, MoveInv DEF Begin, Unfinished, Active, Attached
  <2>3. CASE t # token
    <3>1. stream # t
      BY <2>3 DEF Inv, StreamInv
    <3>2. Fails(t, "quiet")
      BY <1>1, <2>3, <3>1 DEF Begin, Fails
    <3> QED BY <1>1, <2>1, <3>2, FailsInv DEF Begin, Unfinished, Attached
  <2> QED BY <2>2, <2>3
<1>2. stage[t] \in Active => Clear(t)
  BY DEF Inv, TaskInv
<1>3. CASE Refused(t)
  <2>1. stream # t
    BY <1>3 DEF Refused, Inv, StreamInv, TypeOK, Attached
  <2>2. Fails(t, "thrown")
    BY <1>3, <2>1 DEF Refused, Fails
  <2> QED BY <1>2, <1>3, <2>2, FailsInv DEF Refused, Unfinished, Active, Attached
<1>4. CASE Acquired(t) /\ t # token
  BY <1>2, <1>4, FailsInv DEF Acquired, Unfinished, Active
<1>5. CASE Acquired(t) /\ t = token
  <2>1. QueueInv' /\ TaskInv'
    BY <1>2, <1>5, MoveOrder DEF Inv, Acquired, Unchecked, Unfinished, Active, Attached
  <2>2. stream = 0 /\ ~running
    BY <1>5 DEF Acquired, Inv, StreamInv, TypeOK, Attached
  <2>3. TypeOK'
    BY <1>5 DEF Acquired, Inv, TypeOK, Unchecked, Unfinished, Active, Attached
  <2>4. StreamInv'
    <3>1. lit' = {t} /\ stage'[t] = "attaching"
      BY <1>5, <2>2 DEF Acquired, Inv, StreamInv, TypeOK
    <3> QED BY <1>5, <2>2, <3>1 DEF Acquired, Unchecked, StreamInv, Attached
  <2>5. view = "requesting"
    BY <1>5 DEF Acquired, Inv, ViewInv, Unfinished, Active
  <2>6. ViewInv'
    BY <1>5, <2>5 DEF Acquired, Inv, ViewInv, CameraOnIsShown, TypeOK, Unchecked
  <2> QED BY <2>1, <2>3, <2>4, <2>6 DEF Inv
<1>6. CASE Plays(t) /\ t # token
  BY <1>2, <1>6, FailsInv DEF Plays, Unfinished, Active, Attached
<1>7. CASE Plays(t) /\ t = token
  <2>0. stream = t
    BY <1>7 DEF Plays, Inv, StreamInv, Attached
  <2>1. QueueInv' /\ TaskInv'
    BY <1>2, <1>7, EndsOrder DEF Inv, Plays, Unchecked, Unfinished, Active, Attached
  <2>2. stage'[t] = "quiet" /\ \A u \in Tokens : u # t => stage'[u] = stage[u]
    BY <1>7 DEF Plays, Ends, Inv, TypeOK
  <2>3. TypeOK'
    <3>1. stage' \in [Tokens -> Unfinished \cup Ended] /\ startTask' \in Token0
      BY <1>7 DEF Plays, Ends, Inv, TypeOK, Ended
    <3> QED BY <1>7, <3>1 DEF Plays, Inv, TypeOK, Unchecked
  <2>4. startTask = t
    BY <1>7 DEF Plays, Inv, TaskInv, TypeOK, Unfinished, Active, Attached, Ended
  <2>5. StreamInv'
    BY <1>7, <2>0, <2>2, <2>4 DEF Plays, Ends, Inv, StreamInv, Unchecked, TypeOK, Attached
  <2>6. ViewInv'
    BY <1>7, <2>2 DEF Plays, Inv, ViewInv, CameraOnIsShown, TypeOK, Unchecked, Unfinished, Active, Attached
  <2> QED BY <2>1, <2>3, <2>5, <2>6 DEF Inv
<1>8. CASE PlayFails(t)
  BY <1>2, <1>8, FailsInv DEF PlayFails, Unfinished, Active, Attached
<1>9. CASE Aborted(t)
  BY <1>2, <1>9, MoveInv DEF Aborted, Unfinished, Active, Attached
<1>10. CASE Replayed(t)
  BY <1>2, <1>10, MoveInv DEF Replayed, Unfinished, Active, Attached
<1>11. QED
  BY <1>1, <1>3, <1>4, <1>5, <1>6, <1>7, <1>8, <1>9, <1>10 DEF Task

-----------------------------------------------------------------------------
LEMMA StopInv == ASSUME Inv, NEW how \in {"idle", "unmounted"}, StopCamera(how) PROVE Inv'
<1>1. token < MaxAttempts /\ token + 1 \in Token0 /\ attempt + 1 \in Token0
  BY DEF StopCamera, Inv, ViewInv, TypeOK
<1>2. \A t \in Tokens : stage'[t] = IF stage[t] = "stranded" THEN "aborting" ELSE stage[t]
  BY DEF StopCamera, Paused
<1>3. stage' \in [Tokens -> Unfinished \cup Ended]
  BY <1>2 DEF StopCamera, Paused, Inv, TypeOK, Unfinished, Active
<1>4. \A t \in Tokens : /\ stage'[t] \in Ended <=> stage[t] \in Ended
                        /\ stage'[t] \in Active <=> stage[t] \in Active
                        /\ stage'[t] = "queued" <=> stage[t] = "queued"
                        /\ stage'[t] = "none" <=> stage[t] = "none"
  BY <1>2 DEF Active, Attached, Ended
<1>5. lit' = {}
  BY DEF StopCamera, Inv, StreamInv
<1>6. token + 1 \in Tokens /\ stage[token + 1] = "none"
  BY <1>1 DEF Inv, TypeOK, TaskInv
<1>7. TypeOK'
  <2>1. /\ token' \in Token0 /\ stream' \in Token0 /\ source' \in Token0 /\ attempt' \in Token0
        /\ view' \in {"idle", "unmounted"}
    BY <1>1 DEF StopCamera
  <2>2. running' \in BOOLEAN
    BY Zenon DEF StopCamera
  <2> QED BY <1>3, <1>5, <2>1, <2>2 DEF StopCamera, Inv, TypeOK
<1>8. QueueInv'
  BY <1>4 DEF StopCamera, Inv, QueueInv, Unfinished
<1>9. TaskInv'
  <2>1. \A t \in Tokens : stage'[t] # "none" => t <= token'
    <3>1. token' = token + 1 /\ token \in Nat
      BY DEF StopCamera, Inv, TypeOK
    <3> QED BY <1>4, <3>1 DEF Inv, TaskInv
  <2>2. \A t \in Tokens : stage'[t] \in Active => Clear(t)'
    BY <1>4 DEF Inv, TaskInv, Clear
  <2>3. startTask # 0 => startTask \in Tokens
    BY DEF Inv, TypeOK
  <2> QED BY <1>4, <2>1, <2>2, <2>3 DEF StopCamera, Inv, TaskInv, Unfinished
<1>10. StreamInv'
  BY <1>2, <1>5, <1>6 DEF StopCamera, StreamInv, Attached
<1>11. ViewInv'
  <2>1. CameraOnIsShown' /\ (view' # "playing") /\ stage'[token'] \notin Unfinished
    BY <1>2, <1>5, <1>6 DEF StopCamera, CameraOnIsShown, Unfinished, Active, Attached
  <2>2. token' <= attempt' /\ \A w \in waits : w.attempt < attempt'
    BY DEF StopCamera, Inv, ViewInv, TypeOK
  <2>3. \A w \in waits : w.attempt \in Tokens
    BY DEF Inv, TypeOK
  <2> QED BY <1>1, <2>1, <2>2, <2>3 DEF ViewInv, StopCamera
<1> QED BY <1>7, <1>8, <1>9, <1>10, <1>11 DEF Inv

LEMMA ReturnInv == ASSUME Inv, NEW w \in waits, Return(w) PROVE Inv'
<1>1. TypeOK' /\ QueueInv' /\ TaskInv' /\ StreamInv'
  BY DEF Return, Shows, Inv, TypeOK, QueueInv, TaskInv, StreamInv, Clear
<1>2. w.task \in Tokens /\ w.attempt \in Tokens
  BY DEF Inv, TypeOK
<1>3. CASE view # "unmounted" /\ w.attempt = attempt
  <2>1. w.task = token /\ stage[token] \in Ended
    BY <1>3 DEF Inv, ViewInv, Return
  <2>2. ~running \/ stage[token] = "thrown" => lit = {}
    BY <1>2, <2>1 DEF Inv, StreamInv, Attached, Ended
  <2>3. view' = Shows(token)
    BY <1>3, <2>1 DEF Return
  <2>4. running => stage[token] # "thrown"
    BY DEF Inv, StreamInv
  <2> QED BY <1>1, <2>1, <2>2, <2>3, <2>4
        DEF Return, Shows, Inv, ViewInv, CameraOnIsShown, Unfinished, Active, Attached, Ended
<1>4. CASE ~(view # "unmounted" /\ w.attempt = attempt)
  BY <1>1, <1>4 DEF Return, Inv, ViewInv, CameraOnIsShown
<1> QED BY <1>3, <1>4

LEMMA NextInv == Inv /\ [Next]_vars => Inv'
<1> SUFFICES ASSUME Inv, [Next]_vars PROVE Inv' OBVIOUS
<1>1. CASE UNCHANGED vars
  BY <1>1 DEF vars, Inv, TypeOK, QueueInv, TaskInv, StreamInv, ViewInv, CameraOnIsShown, Clear
<1>2. CASE StartCamera
  BY <1>2, StartInv
<1>3. CASE \E how \in {"idle", "unmounted"} : StopCamera(how)
  BY <1>3, StopInv
<1>4. CASE \E t \in Tokens : Task(t)
  BY <1>4, TaskSteps
<1>5. CASE \E w \in waits : Return(w)
  BY <1>5, ReturnInv
<1> QED BY <1>1, <1>2, <1>3, <1>4, <1>5 DEF Next

LEMMA Invariance == Spec => []Inv
<1> QED BY InitInv, NextInv, PTL DEF Spec

-----------------------------------------------------------------------------
(* The fields of the controller and of the preview keep their types.       *)
THEOREM TypeCorrectness == Spec => []TypeOK
<1>1. Inv => TypeOK
  BY DEF Inv
<1> QED BY <1>1, Invariance, PTL

(* Two tasks are never past their queue together: trackStartTask and the    *)
(* restart of start() chain them.                                           *)
THEOREM NoOverlap == Spec => []OneAcquisition
<1>1. ASSUME Inv PROVE OneAcquisition
  <2> DEFINE Doing == {t \in Tokens : stage[t] \in Active}
  <2>1. \A t, u \in Doing : t = u
    BY <1>1 DEF Inv, TaskInv, Clear, Active, Attached, Ended
  <2>2. CASE Doing = {}
    BY <2>2, FS_EmptySet DEF OneAcquisition
  <2>3. CASE Doing # {}
    <3>1. PICK t \in Doing : TRUE
      BY <2>3
    <3>2. Doing = {t}
      BY <2>1, <3>1
    <3>3. Cardinality(Doing) = 1
      BY <3>2, FS_Singleton
    <3> QED BY <3>3 DEF OneAcquisition
  <2> QED BY <2>2, <2>3
<1> QED BY <1>1, Invariance, PTL

(* The camera is never on behind a preview that says it is off. *)
THEOREM NoHiddenCamera == Spec => []CameraOnIsShown
<1>1. Inv => CameraOnIsShown
  BY DEF Inv, ViewInv
<1> QED BY <1>1, Invariance, PTL

(* A preview that says it plays has the live stream attached. *)
THEOREM PlaysLiveStream == Spec => []PlayingIsLive
<1>1. Inv => PlayingIsLive
  BY DEF Inv, ViewInv, StreamInv, PlayingIsLive
<1> QED BY <1>1, Invariance, PTL

-----------------------------------------------------------------------------
(* A request is attended *)

(* A nonempty set of natural numbers has a least element.                   *)
LEMMA Least ==
  ASSUME NEW S, S \subseteq Nat, S # {}
  PROVE  \E m \in S : \A k \in S : m <= k
<1> DEFINE R == OpToRel(<, Nat)
<1>1. \A m, k \in Nat : k < m => <<k, m>> \in R
  BY DEF OpToRel
<1>2. IsWellFoundedOn(R, Nat)
  BY NatLessThanWellFounded
<1>3. ASSUME NEW r, IsWellFoundedOn(r, Nat), \A m, k \in Nat : k < m => <<k, m>> \in r
      PROVE  \E m \in S : \A k \in S : m <= k
  <2>1. PICK m \in S : \A k \in S : ~(<<k, m>> \in r)
    BY <1>3, WFMin
  <2>2. m \in Nat /\ \A k \in S : k \in Nat /\ ~(k < m)
    BY <1>3, <2>1
  <2> QED BY <2>2
<1> QED BY ONLY <1>1, <1>2, <1>3

(* A task with a step of its own to take.                                   *)
CanMove(t) ==
  \/ stage[t] \in Active \ {"stranded"}
  \/ stage[t] = "queued" /\ stage[after[t]] \in Ended

(* The queue of restarts never waits for itself: the first unfinished task  *)
(* moves, or is stranded.                                                   *)
LEMMA SomeTaskMoves ==
  ASSUME Inv, NEW u \in Tokens, stage[u] \in Unfinished
  PROVE  Stranded \/ \E t \in Tokens : CanMove(t)
<1> DEFINE Open == {t \in Tokens : stage[t] \in Unfinished}
<1>1. PICK t \in Open : \A v \in Open : t <= v
  <2>1. Open \subseteq Nat /\ Open # {}
    OBVIOUS
  <2> HIDE DEF Open
  <2> QED BY <2>1, Least
<1>2. CASE stage[t] = "queued"
  <2>1. after[t] \in Tokens /\ after[t] < t
    BY <1>1, <1>2 DEF Inv, QueueInv
  <2>2. stage[after[t]] \notin Unfinished
    BY <1>1, <2>1
  <2>3. stage[after[t]] \in Ended
    BY <2>1, <2>2 DEF Inv, TypeOK
  <2> QED BY <1>1, <1>2, <2>3 DEF CanMove
<1>3. CASE stage[t] # "queued"
  BY <1>1, <1>3 DEF CanMove, Stranded, Unfinished
<1> QED BY <1>2, <1>3

(* While the preview is in preparation, the startCamera call it listens to  *)
(* is still waiting.                                                        *)
ListenInv == view = "requesting" => \E w \in waits : w.attempt = attempt

LEMMA ListenStep == Inv /\ ListenInv /\ [Next]_vars => ListenInv'
<1> SUFFICES ASSUME Inv, ListenInv, [Next]_vars PROVE ListenInv'
  OBVIOUS
<1>1. CASE StartCamera
  <2>1. \E t : waits' = waits \cup {[attempt |-> attempt + 1, task |-> t]}
    BY <1>1 DEF StartCamera, StartTask, Shares, Awaits
  <2>2. attempt' = attempt + 1
    BY <1>1 DEF StartCamera
  <2>3. PICK t : waits' = waits \cup {[attempt |-> attempt + 1, task |-> t]}
    BY <2>1
  <2>4. [attempt |-> attempt + 1, task |-> t].attempt = attempt'
    BY <2>2
  <2> QED BY <2>3, <2>4 DEF ListenInv
<1>2. CASE \E how \in {"idle", "unmounted"} : StopCamera(how)
  BY <1>2 DEF StopCamera, ListenInv
<1>3. CASE (\E t \in Tokens : Task(t)) \/ UNCHANGED vars
  BY <1>3
  DEF Task, Begin, Acquired, Refused, Plays, PlayFails, Aborted, Replayed, Unchecked, vars, ListenInv
<1>4. ASSUME NEW w \in waits, Return(w) PROVE ListenInv'
  BY <1>4 DEF Return, Shows, ListenInv
<1> QED BY <1>1, <1>2, <1>3, <1>4 DEF Next

(* A preview in preparation always has something under way: the call it     *)
(* listens to can return, some task can move, or a replay is stranded.      *)
RequestIsAttended ==
  view = "requesting" =>
    \/ \E w \in waits : w.attempt = attempt /\ stage[w.task] \in Ended
    \/ \E t \in Tokens : CanMove(t)
    \/ Stranded

(* The preview never stays in preparation with nobody to end it, except     *)
(* through the replay that never settles: the safety part of                *)
(* RequestIsAnswered.                                                       *)
THEOREM RequestHasAnswerer == Spec => []RequestIsAttended
<1>1. Inv /\ ListenInv => RequestIsAttended
  <2> SUFFICES ASSUME Inv, ListenInv, view = "requesting"
               PROVE  \/ \E w \in waits : w.attempt = attempt /\ stage[w.task] \in Ended
                      \/ \E t \in Tokens : CanMove(t)
                      \/ Stranded
    BY DEF RequestIsAttended
  <2>1. PICK w \in waits : w.attempt = attempt
    BY DEF ListenInv
  <2>2. w.task \in Tokens
    BY DEF Inv, TypeOK
  <2>3. CASE stage[w.task] \in Unfinished
    BY <2>2, <2>3, SomeTaskMoves
  <2> QED BY <2>1, <2>2, <2>3 DEF Inv, TypeOK
<1>2. Init => ListenInv
  BY DEF Init, ListenInv
<1> QED BY <1>1, <1>2, ListenStep, Invariance, PTL DEF Spec
=============================================================================
