---- MODULE SessionRecorder ----
(***************************************************************************)
(* The logger application: Recorder starts and stops sessions, the camera, *)
(* the other sensors and push-to-talk write into the session of their own  *)
(* writer, and one clock that start() sets back stamps what they write.    *)
(* start() and stop() await between their assignments and run side by side *)
(* with each other, with frames still being saved and with voice notes.    *)
(*                                                                         *)
(* A session is its number, a stamp is the epoch of the clock it was taken *)
(* in.  Pose, IMU and GNSS start and stop together and are one sensor; the *)
(* files are what SessionWriter keeps of them: numbers, rows and whether   *)
(* its sinks are open.                                                     *)
(***************************************************************************)
EXTENDS Naturals, Sequences, FiniteSets

CONSTANTS Null,            \* no session, no description
          MaxSessions,     \* bound: presses of start in one behaviour
          MaxFrames,       \* bound: frames of one session
          MaxOpenings,     \* bound: starts under way at once
          MaxTalks         \* bound: voice notes of one behaviour

ASSUME RecorderAssumption ==
    /\ Null \notin Nat
    /\ {MaxSessions, MaxFrames, MaxOpenings, MaxTalks} \subseteq Nat

VARIABLES
    writer,      \* _writer: the session being recorded, or Null
    sessions,    \* what the writer of each session keeps and has written
    epoch,       \* how often the clock was set back
    video,       \* the one CameraCapture: its writer, its subscription, and all that are alive
    sensors,     \* the capture objects of the fields, and all that are subscribed
    audio,       \* the AudioCapture of the field, and the clips being recorded
    starts,      \* starts that create their files
    stops,       \* stops under way
    frames,      \* frames numbered and not yet saved
    talks,       \* voice notes that begin or end
    tangled      \* whether a start was ever pressed beside another start or a stop

recorderVars ==
    <<writer, sessions, epoch, video, sensors, audio, starts, stops, frames, talks, tangled>>

Numbers == DOMAIN sessions
IsRecording == writer # Null

NewSession == [numbered |-> 0, rows |-> 0, mixed |-> FALSE, epoch |-> epoch, closed |-> FALSE,
               meta |-> Null, open |-> TRUE, noted |-> 0, lost |-> 0]

\* What is written to the files of session n was stamped in an epoch; mixed remembers a wrong one.
Stamped(all, n, stamp) == [all EXCEPT ![n].mixed = @ \/ stamp # all[n].epoch]

-----------------------------------------------------------------------------
(* start *)

\* Mutant: start() does not ask whether a session is being recorded.
StartAlways ==
    /\ starts < MaxOpenings /\ epoch < MaxSessions
    /\ starts' = starts + 1
    /\ epoch' = epoch + 1
    /\ tangled' = (tangled \/ starts > 0 \/ stops # {})
    /\ UNCHANGED <<writer, sessions, video, sensors, audio, stops, frames, talks>>

\* Up to its first await: the guard, and the clock that every session shares goes back.
Start ==
    /\ ~IsRecording
    /\ starts < MaxOpenings /\ epoch < MaxSessions
    /\ starts' = starts + 1
    /\ epoch' = epoch + 1
    /\ tangled' = (tangled \/ starts > 0 \/ stops # {})
    /\ UNCHANGED <<writer, sessions, video, sensors, audio, stops, frames, talks>>

\* The files are open: from here to the end of start() nothing comes between.
Started ==
    LET n == Len(sessions) + 1 IN
    /\ starts > 0
    /\ starts' = starts - 1
    /\ sessions' = Append(sessions, NewSession)
    /\ writer' = n
    /\ video' = [writer |-> n, sub |-> n, alive |-> video.alive \cup {n}]
    /\ sensors' = [field |-> n, alive |-> sensors.alive \cup {n}]
    /\ audio' = [audio EXCEPT !.field = n]
    /\ UNCHANGED <<epoch, stops, frames, talks, tangled>>

\* The directory cannot be made: nothing was assigned.
StartFails ==
    /\ starts > 0
    /\ starts' = starts - 1
    /\ UNCHANGED <<writer, sessions, epoch, video, sensors, audio, stops, frames, talks, tangled>>

-----------------------------------------------------------------------------
(* stop *)

\* Mutant: the session stays the current one while it stops.
StopInPlace ==
    /\ IsRecording
    /\ stops' = stops \cup {[of |-> writer, at |-> "camera"]}
    /\ video' = [video EXCEPT !.alive = @ \ {video.sub}]
    /\ UNCHANGED <<writer, sessions, epoch, sensors, audio, starts, frames, talks, tangled>>

\* The session is no longer the current one, and the subscription of the camera is cancelled.
Stop ==
    /\ IsRecording
    /\ writer' = Null
    /\ stops' = stops \cup {[of |-> writer, at |-> "camera"]}
    /\ video' = [video EXCEPT !.alive = @ \ {video.sub}]
    /\ UNCHANGED <<sessions, epoch, sensors, audio, starts, frames, talks, tangled>>

Goes(stop, place) == stops' = (stops \ {stop}) \cup {[stop EXCEPT !.at = place]}

\* The camera forgets whatever subscription and writer it holds by now.
CameraStopped(stop) ==
    /\ stop.at = "camera" /\ Goes(stop, "sensors")
    /\ video' = [video EXCEPT !.sub = Null, !.writer = Null]
    /\ UNCHANGED <<writer, sessions, epoch, sensors, audio, starts, frames, talks, tangled>>

\* Mutant: the subscriptions of the sensors are forgotten, not cancelled.
SensorsForgotten(stop) ==
    /\ stop.at = "sensors" /\ Goes(stop, "audio")
    /\ UNCHANGED <<writer, sessions, epoch, video, sensors, audio, starts, frames, talks, tangled>>

\* The capture objects in the fields by now stop.
SensorsStopped(stop) ==
    /\ stop.at = "sensors" /\ Goes(stop, "audio")
    /\ sensors' = [sensors EXCEPT !.alive = @ \ {sensors.field}]
    /\ UNCHANGED <<writer, sessions, epoch, video, audio, starts, frames, talks, tangled>>

\* The voice note ends with its recorder, and every field is emptied.
AudioStopped(stop) ==
    /\ stop.at = "audio" /\ Goes(stop, "meta")
    /\ sensors' = [sensors EXCEPT !.field = Null]
    /\ audio' = [field |-> Null, clips |-> {c \in audio.clips : c.of # audio.field}]
    /\ UNCHANGED <<writer, sessions, epoch, video, starts, frames, talks, tangled>>

\* Mutant: the count is taken from the rows written so far.
RowsCounted(stop) ==
    LET s == sessions[stop.of] IN
    /\ stop.at = "meta"
    /\ IF s.closed THEN stops' = stops \ {stop} /\ UNCHANGED sessions
       ELSE /\ Goes(stop, "sinks")
            /\ sessions' = [sessions EXCEPT ![stop.of].closed = TRUE, ![stop.of].meta = s.rows]
    /\ UNCHANGED <<writer, epoch, video, sensors, audio, starts, frames, talks, tangled>>

\* Mutant: the stop ends with the description.
MetaOnly(stop) ==
    /\ stop.at = "meta"
    /\ stops' = stops \ {stop}
    /\ sessions' = [sessions EXCEPT ![stop.of].closed = TRUE,
                                    ![stop.of].meta = sessions[stop.of].numbered]
    /\ UNCHANGED <<writer, epoch, video, sensors, audio, starts, frames, talks, tangled>>

\* finish(), once: what was numbered so far is the count, and the clock gives the end.
MetaWritten(stop) ==
    LET s == sessions[stop.of] IN
    /\ stop.at = "meta"
    /\ IF s.closed THEN stops' = stops \ {stop} /\ UNCHANGED sessions
       ELSE /\ Goes(stop, "sinks")
            /\ sessions' = Stamped([sessions EXCEPT ![stop.of].closed = TRUE,
                                                    ![stop.of].meta = s.numbered],
                                   stop.of, epoch)
    /\ UNCHANGED <<writer, epoch, video, sensors, audio, starts, frames, talks, tangled>>

\* Mutant: the files wait for the images that are still being saved.
SinksAwaitFrames(stop) ==
    /\ stop.at = "sinks"
    /\ \A frame \in frames : frame.of # stop.of
    /\ stops' = stops \ {stop}
    /\ sessions' = [sessions EXCEPT ![stop.of].open = FALSE]
    /\ UNCHANGED <<writer, epoch, video, sensors, audio, starts, frames, talks, tangled>>

SinksClosed(stop) ==
    /\ stop.at = "sinks"
    /\ stops' = stops \ {stop}
    /\ sessions' = [sessions EXCEPT ![stop.of].open = FALSE]
    /\ UNCHANGED <<writer, epoch, video, sensors, audio, starts, frames, talks, tangled>>

StopStep ==
    \E stop \in stops : \/ CameraStopped(stop) \/ SensorsStopped(stop)
                        \/ AudioStopped(stop) \/ MetaWritten(stop) \/ SinksClosed(stop)

-----------------------------------------------------------------------------
(* Frames and samples. *)

\* A subscription delivers: the writer of the camera numbers the frame before it is saved.
Frame ==
    LET n == video.writer IN
    /\ video.alive # {} /\ n # Null
    /\ sessions[n].numbered < MaxFrames
    /\ frames' = frames \cup {[of |-> n, number |-> sessions[n].numbered, stamp |-> epoch]}
    /\ sessions' = [sessions EXCEPT ![n].numbered = @ + 1]
    /\ UNCHANGED <<writer, epoch, video, sensors, audio, starts, stops, talks, tangled>>

\* Mutant: the row is written twice.
SavedTwice(frame) ==
    /\ frames' = frames \ {frame}
    /\ sessions' = [sessions EXCEPT ![frame.of].rows = @ + 2]
    /\ UNCHANGED <<writer, epoch, video, sensors, audio, starts, stops, talks, tangled>>

\* The image is on disk; the row goes to the sink, which refuses it once it is closed.
Saved(frame) ==
    LET n == frame.of IN
    /\ frames' = frames \ {frame}
    /\ sessions' = IF sessions[n].open
                   THEN Stamped([sessions EXCEPT ![n].rows = @ + 1], n, frame.stamp)
                   ELSE sessions
    /\ UNCHANGED <<writer, epoch, video, sensors, audio, starts, stops, talks, tangled>>

\* The image could not be written: no row, no complaint.
SaveFails(frame) ==
    /\ frames' = frames \ {frame}
    /\ UNCHANGED <<writer, sessions, epoch, video, sensors, audio, starts, stops, talks, tangled>>

FrameEnds == \E frame \in frames : Saved(frame) \/ SaveFails(frame)

\* A sample is stamped and written by the object that is subscribed.
Sample ==
    \E n \in sensors.alive :
        /\ sessions[n].open
        /\ sessions' = Stamped(sessions, n, epoch)
        /\ UNCHANGED <<writer, epoch, video, sensors, audio, starts, stops, frames, talks, tangled>>

-----------------------------------------------------------------------------
(* Voice notes. *)

Recorded(n) == \E clip \in audio.clips : clip.of = n

\* Button down: the permission is asked for.
BeginTalk ==
    /\ IsRecording /\ audio.field # Null /\ ~Recorded(audio.field)
    /\ Cardinality(talks) + Cardinality(audio.clips) < MaxTalks
    /\ sessions[audio.field].noted < MaxTalks
    /\ talks' = talks \cup {[of |-> audio.field, into |-> writer, at |-> "asking"]}
    /\ UNCHANGED <<writer, sessions, epoch, video, sensors, audio, starts, stops, frames, tangled>>

\* Granted: the wav is numbered and recording begins, whatever became of the button; a recorder
\* that was disposed of meanwhile records nothing.
TalkGranted(talk) ==
    /\ talk.at = "asking" /\ talks' = talks \ {talk}
    /\ audio' = IF talk.of # audio.field THEN audio
                ELSE [audio EXCEPT !.clips = @ \cup {[of |-> talk.of, into |-> talk.into]}]
    /\ sessions' = [sessions EXCEPT ![talk.into].noted = @ + 1]
    /\ UNCHANGED <<writer, epoch, video, sensors, starts, stops, frames, tangled>>

TalkRefused(talk) ==
    /\ talk.at = "asking" /\ talks' = talks \ {talk}
    /\ UNCHANGED <<writer, sessions, epoch, video, sensors, audio, starts, stops, frames, tangled>>

\* Button up: the clip ends; the label is for the session that is current now.
EndTalk ==
    /\ audio.field # Null /\ Recorded(audio.field)
    /\ audio' = [audio EXCEPT !.clips = {c \in @ : c.of # audio.field}]
    /\ talks' = talks \cup {[of |-> audio.field, into |-> writer, at |-> "ending"]}
    /\ UNCHANGED <<writer, sessions, epoch, video, sensors, starts, stops, frames, tangled>>

\* The recorder has stopped: the label is written, unless nothing is recorded any more.
TalkEnded(talk) ==
    /\ talk.at = "ending" /\ talks' = talks \ {talk}
    /\ sessions' = IF talk.into = Null \/ sessions[talk.into].open THEN sessions
                   ELSE [sessions EXCEPT ![talk.into].lost = @ + 1]
    /\ UNCHANGED <<writer, epoch, video, sensors, audio, starts, stops, frames, tangled>>

TalkStep == \E talk \in talks : TalkGranted(talk) \/ TalkRefused(talk) \/ TalkEnded(talk)

-----------------------------------------------------------------------------

RecorderInit ==
    /\ writer = Null /\ sessions = <<>> /\ epoch = 0
    /\ video = [writer |-> Null, sub |-> Null, alive |-> {}]
    /\ sensors = [field |-> Null, alive |-> {}]
    /\ audio = [field |-> Null, clips |-> {}]
    /\ starts = 0 /\ stops = {} /\ frames = {} /\ talks = {}
    /\ tangled = FALSE

RecorderNext ==
    \/ Start \/ Started \/ StartFails \/ Stop \/ StopStep
    \/ Frame \/ FrameEnds \/ Sample
    \/ BeginTalk \/ EndTalk \/ TalkStep

\* The files and the platform answer: what awaits them goes on.
RecorderSpec ==
    /\ RecorderInit /\ [][RecorderNext]_recorderVars
    /\ WF_recorderVars(StopStep) /\ WF_recorderVars(Started \/ StartFails)

-----------------------------------------------------------------------------
(* Correctness. *)

Session == 1..MaxSessions

RecorderType ==
    /\ writer \in Session \cup {Null} /\ video.writer \in Session \cup {Null}
    /\ video.alive \subseteq Session /\ sensors.alive \subseteq Session
    /\ sensors.field \in Session \cup {Null} /\ audio.field \in Session \cup {Null}
    /\ \A n \in Numbers : sessions[n].rows + sessions[n].numbered <= 2 * MaxFrames
    /\ \A stop \in stops : stop.at \in {"camera", "sensors", "audio", "meta", "sinks"}

\* What a session keeps is stamped by the clock of that session, also what was still being saved
\* and the end of the session; a start beside another start or a stop would break it.
OneClockPerSession ==
    tangled \/ \A n \in Numbers : ~sessions[n].mixed

\* A session whose files are closed has nobody left that would write to it, and no microphone on.
NothingWritesAfterStop ==
    tangled \/ \A n \in Numbers :
        ~sessions[n].open => /\ n \notin video.alive \cup sensors.alive
                             /\ video.writer # n /\ ~Recorded(n)

\* While a session is recorded every source is connected to it.
RecordingIsConnected ==
    writer # Null /\ ~tangled =>
        /\ video = [writer |-> writer, sub |-> writer, alive |-> {writer}]
        /\ sensors = [field |-> writer, alive |-> {writer}]
        /\ audio.field = writer

\* The count in the description of a session is final and covers every row of it, however starts,
\* stops and frames still being saved interleave.
CountCoversRows ==
    \A n \in Numbers :
        /\ sessions[n].closed => sessions[n].meta = sessions[n].numbered
        /\ sessions[n].rows
             + Cardinality({frame \in frames : frame.of = n}) <= sessions[n].numbered

\* Together: the sessions on disk and the sources connected to the one being recorded.
RecorderInv ==
    /\ RecorderType
    /\ OneClockPerSession
    /\ NothingWritesAfterStop
    /\ RecordingIsConnected
    /\ CountCoversRows

\* A session that is no longer recorded gets its description and its files closed.
SessionsFinish ==
    \A n \in Session :
        (n \in Numbers /\ writer # n /\ ~tangled)
            ~> (tangled \/ (n \in Numbers /\ sessions[n].closed /\ ~sessions[n].open))

\* A stop comes to its end, whatever it was pressed beside.
Stopping(n) == \E stop \in stops : stop.of = n
StopsEnd == \A n \in Session : Stopping(n) ~> ~Stopping(n)

\* Together: nothing that has begun to stop is left half done.
StopsFinish == SessionsFinish /\ StopsEnd
====
