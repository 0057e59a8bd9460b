-------------------------- MODULE CameraSubscriber --------------------------
(***************************************************************************)
(* CameraVideoTrackSubscriber (backend/live_agent.py) and the processor it *)
(* feeds: Room events become tasks, a task opens the stream of a camera    *)
(* track, a reader task passes its frames to the processor of LatestFrame, *)
(* and stop() ends the readers before it closes the processor.             *)
(*                                                                         *)
(* An event task runs to its end without interleaving, except that an      *)
(* injected stream factory may suspend it (slow).  Readers are numbered    *)
(* slots; "done" is a reader whose done callback is still to run.  A task  *)
(* that waits for the reader it cancelled has nothing left to do.          *)
(***************************************************************************)
EXTENDS LatestFrame, Sequences

CONSTANTS Tracks,      \* the remote tracks
          MaxReaders,  \* bound on the readers that exist at a time
          MaxQueue     \* bound on the event tasks that have not started

ASSUME TracksAssumption == Tracks # {}
ASSUME MaxReadersAssumption == MaxReaders \in Nat

VARIABLES slow,      \* the stream factory is asynchronous
          cameras,   \* the tracks of kind video and source camera
          room,      \* what the Room shows of each track
          wanted,    \* the tracks whose publication has set_subscribed(True)
          queue,     \* _event_tasks that have not started, in their order
          stage,     \* where each reader is
          track,     \* whose frames it reads
          struck,    \* readers with a CancelledError on its way
          byTrack,   \* _track_tasks, 0 for a missing key
          shut,      \* _closed of the subscriber
          awaited    \* the readers stop() is waiting for

subVars == <<slow, cameras, room, wanted, queue, stage, track, struck, byTrack, shut, awaited>>
allVars == <<vars, subVars>>

Readers == 1..MaxReaders
Events == [op : {"published", "subscribed", "unsubscribed"}, track : Tracks]
Live == {"opening", "scheduled", "reading", "closing"}

SubscriberTypeOK ==
  /\ slow \in BOOLEAN
  /\ cameras \subseteq Tracks
  /\ room \in [Tracks -> {"absent", "published", "subscribed"}]
  /\ wanted \subseteq Tracks
  /\ queue \in Seq(Events)
  /\ stage \in [Readers -> Live \cup {"idle", "done"}]
  /\ track \in [Readers -> Tracks]
  /\ struck \subseteq Readers
  /\ byTrack \in [Tracks -> Readers \cup {0}]
  /\ shut \in BOOLEAN
  /\ awaited \subseteq Readers

(* subscribe_existing_publications asks for the cameras that are there, in  *)
(* the piece of code that attaches the handlers.                            *)
SubscriberInit ==
  /\ Init
  /\ slow \in BOOLEAN
  /\ cameras \in SUBSET Tracks
  /\ room \in [Tracks -> {"absent", "published"}]
  /\ wanted = {t \in cameras : room[t] = "published"}
  /\ queue = <<>>
  /\ stage = [r \in Readers |-> "idle"]
  /\ track = [r \in Readers |-> CHOOSE t \in Tracks : TRUE]
  /\ struck = {}
  /\ byTrack = [t \in Tracks |-> 0]
  /\ shut = FALSE
  /\ awaited = {}

-----------------------------------------------------------------------------
(* track_subscribed and subscribe_publication *)

HasReader(t) == byTrack[t] # 0 /\ stage[byTrack[t]] # "done"

(* A reader for t, unless t has one that is not done.  The task that opens  *)
(* the stream is suspended if the factory is slow.                          *)
Open(t) ==
  \/ /\ HasReader(t)
     /\ UNCHANGED <<stage, track, byTrack>>
  \/ /\ ~HasReader(t)
     /\ \E r \in Readers :
          /\ stage[r] = "idle" /\ \A i \in 1..(r - 1) : stage[i] # "idle"
          /\ track' = [track EXCEPT ![r] = t]
          /\ \/ /\ slow
                /\ stage' = [stage EXCEPT ![r] = "opening"]
                /\ UNCHANGED byTrack
             \/ /\ ~slow
                /\ stage' = [stage EXCEPT ![r] = "scheduled"]
                /\ byTrack' = [byTrack EXCEPT ![t] = r]

Readerless == UNCHANGED <<stage, track, byTrack>>

TrackSubscribed(t) ==
  \/ /\ ~shut /\ t \in cameras
     /\ Open(t)
     /\ UNCHANGED wanted
  \/ /\ shut \/ t \notin cameras
     /\ wanted' = wanted \ {t}
     /\ Readerless

(* A publication that has just been announced carries no track yet.         *)
SubscribePublication(t) ==
  /\ wanted' = IF shut THEN wanted
               ELSE IF t \in cameras THEN wanted \cup {t} ELSE wanted \ {t}
  /\ Readerless

(* The reader is forgotten and cancelled, and the publication, in a task of *)
(* its own that starts next, no longer wanted.                              *)
TrackUnsubscribed(t) ==
  /\ byTrack' = [byTrack EXCEPT ![t] = 0]
  /\ struck' = IF HasReader(t) THEN struck \cup {byTrack[t]} ELSE struck
  /\ wanted' = wanted \ {t}
  /\ UNCHANGED <<stage, track>>

(* Event tasks start in the order of their events.                          *)
HandleEvent ==
  /\ queue # <<>>
  /\ queue' = Tail(queue)
  /\ LET e == Head(queue) IN
       \/ /\ e.op = "published"
          /\ SubscribePublication(e.track) /\ UNCHANGED struck
       \/ /\ e.op = "subscribed"
          /\ TrackSubscribed(e.track) /\ UNCHANGED struck
       \/ /\ e.op = "unsubscribed"
          /\ TrackUnsubscribed(e.track)
  /\ UNCHANGED <<slow, cameras, room, shut, awaited>>

-----------------------------------------------------------------------------
(* The Room *)

Notify(op, t) ==
  /\ Len(queue) < MaxQueue
  /\ queue' = Append(queue, [op |-> op, track |-> t])
  /\ UNCHANGED <<slow, cameras, wanted, stage, track, struck, byTrack, shut, awaited>>

Published(t) ==
  /\ room[t] = "absent"
  /\ room' = [room EXCEPT ![t] = "published"]
  /\ Notify("published", t)

Subscribed(t) ==
  /\ room[t] = "published" /\ t \in wanted
  /\ room' = [room EXCEPT ![t] = "subscribed"]
  /\ Notify("subscribed", t)

(* The publisher stops, or the subscription is withdrawn.                   *)
Unsubscribed(t) ==
  /\ room[t] = "subscribed"
  /\ room' = [room EXCEPT ![t] = "absent"]
  /\ Notify("unsubscribed", t)

RoomEvent(t) == Published(t) \/ Subscribed(t) \/ Unsubscribed(t)

-----------------------------------------------------------------------------
(* Readers *)

Move(r, where) ==
  /\ stage' = [stage EXCEPT ![r] = where]
  /\ UNCHANGED <<slow, cameras, room, wanted, queue, track, shut, awaited>>

(* The factory returns.  Neither _closed nor _track_tasks is looked at      *)
(* again.                                                                   *)
Opened(r) ==
  /\ stage[r] = "opening" /\ r \notin struck
  /\ byTrack' = [byTrack EXCEPT ![track[r]] = r]
  /\ Move(r, "scheduled") /\ UNCHANGED struck

StartReader(r) ==
  /\ stage[r] = "scheduled" /\ r \notin struck
  /\ Move(r, "reading") /\ UNCHANGED <<struck, byTrack>>

(* A frame is submitted.  A processor that is closed ignores it.            *)
Frame(r) ==
  /\ stage[r] = "reading" /\ r \notin struck
  /\ Submit
  /\ UNCHANGED subVars

(* The stream ends or raises; the finally clause closes it.                 *)
StreamEnds(r) ==
  /\ stage[r] = "reading" /\ r \notin struck
  /\ Move(r, "closing") /\ UNCHANGED <<struck, byTrack>>

StreamClosed(r) ==
  /\ stage[r] = "closing" /\ r \notin struck
  /\ Move(r, "done") /\ UNCHANGED <<struck, byTrack>>

(* CancelledError reaches the reader.  One that has not started never       *)
(* closes its stream, and one that is being opened never exists.            *)
ReaderCancelled(r) ==
  /\ r \in struck
  /\ struck' = struck \ {r}
  /\ \/ stage[r] = "reading" /\ Move(r, "closing")
     \/ stage[r] \in {"scheduled", "closing"} /\ Move(r, "done")
     \/ stage[r] = "opening" /\ Move(r, "idle")
  /\ UNCHANGED byTrack

(* Variant: the done callback drops whatever reader its track has. *)
ForgetTrackAlways(r) ==
  /\ stage[r] = "done"
  /\ byTrack' = [byTrack EXCEPT ![track[r]] = 0]
  /\ Move(r, "idle") /\ UNCHANGED struck

(* The done callback drops the track's entry if it is still this reader's.  *)
ForgetTrack(r) ==
  /\ stage[r] = "done"
  /\ byTrack' = IF byTrack[track[r]] = r
                  THEN [byTrack EXCEPT ![track[r]] = 0] ELSE byTrack
  /\ Move(r, "idle") /\ UNCHANGED struck

ReaderStep(r) ==
  Opened(r) \/ StartReader(r) \/ StreamClosed(r) \/ ReaderCancelled(r) \/ ForgetTrack(r)

-----------------------------------------------------------------------------
(* stop *)

(* Variant: stop() looks for readers only. *)
KnownReaders == {r \in Readers : stage[r] \in Live \ {"opening"}}

(* The tasks stop() finds: readers, and event tasks that open one.          *)
Known == {r \in Readers : stage[r] \in Live}

StopSubscriber ==
  /\ awaited = {} /\ closer \in {"absent", "failed"}
  /\ shut' = TRUE
  /\ queue' = <<>>
  /\ struck' = struck \cup Known
  /\ awaited' = Known
  /\ IF Known = {} THEN Aclose(TRUE) ELSE UNCHANGED vars
  /\ UNCHANGED <<slow, cameras, room, wanted, stage, track, byTrack>>

(* Every task has ended, and the processor is closed.                       *)
Gathered ==
  /\ awaited # {}
  /\ \A r \in awaited : stage[r] \notin Live
  /\ awaited' = {}
  /\ Aclose(TRUE)
  /\ UNCHANGED <<slow, cameras, room, wanted, queue, stage, track,
                 struck, byTrack, shut>>

(* The caller of stop() is cancelled; gather() cancels what it waits for.   *)
StopGivesUp ==
  /\ awaited # {}
  /\ awaited' = {}
  /\ struck' = struck \cup {r \in awaited : stage[r] \in Live}
  /\ UNCHANGED <<slow, cameras, room, wanted, queue, stage, track,
                 byTrack, shut>>

-----------------------------------------------------------------------------
Subscriber ==
  \/ HandleEvent \/ StopGivesUp
  \/ \E t \in Tracks : RoomEvent(t)
  \/ \E r \in Readers : ReaderStep(r) \/ StreamEnds(r)

Processor == (\E t \in Frames : Drain(t)) \/ Joined \/ GivesUp

SubscriberNext ==
  \/ Subscriber /\ UNCHANGED vars
  \/ Processor /\ UNCHANGED subVars
  \/ \E r \in Readers : Frame(r)
  \/ StopSubscriber
  \/ Gathered

SubscriberSpec == SubscriberInit /\ [][SubscriberNext]_allVars

(* The event loop runs tasks that are ready; a cancelled or finished stream *)
(* closes.                                                                  *)
SubscriberFairness ==
  /\ \A t \in Frames : WF_allVars(Drain(t) /\ UNCHANGED subVars)
  /\ WF_allVars(Joined /\ UNCHANGED subVars)
  /\ \A r \in Readers : WF_allVars(ReaderStep(r) /\ UNCHANGED vars)
  /\ WF_allVars(Gathered)

FairSubscriber == SubscriberSpec /\ SubscriberFairness

-----------------------------------------------------------------------------
(* Properties *)

Reads(r) == stage[r] \in {"scheduled", "reading"} /\ r \notin struck

(* However subscriptions, withdrawals, ends of streams and done callbacks   *)
(* overlap, no track is read twice, although its old reader may still be    *)
(* closing.  A factory that suspends breaks this: two events for one track  *)
(* then both open a stream.                                                 *)
OneReader ==
  ~slow => \A q, r \in Readers : Reads(q) /\ Reads(r) /\ track[q] = track[r] => q = r

(* Nothing is read of a track that the Room has withdrawn, once the event's *)
(* task has run; so too only while the factory does not suspend.            *)
OnlySubscribedIsRead ==
  ~slow => \A r \in Readers : Reads(r) =>
    \/ room[track[r]] = "subscribed"
    \/ \E i \in 1..Len(queue) :
         queue[i] = [op |-> "unsubscribed", track |-> track[r]]

(* When stop() has returned, no stream is being opened or read, and no      *)
(* inference is left, although Room events arrive during all of it.         *)
StopIsComplete ==
  closer = "done" =>
    /\ \A t \in Frames : pc[t] \notin Alive
    /\ Known = {}

(* stop() does not wait for ever.                                           *)
Stopping == awaited # {} \/ closer = "joining"
StopEnds == Stopping ~> ~Stopping
=============================================================================
