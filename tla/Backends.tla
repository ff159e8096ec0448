-------------------------------- MODULE Backends --------------------------------
(***************************************************************************)
(* What the policies of the remote node remember between two inferences    *)
(* and which frames they show their model.  A frame names its sender, its  *)
(* number there and the instruction it came with; the model's answer is    *)
(* left out.                                                               *)
(***************************************************************************)
EXTENDS OmniVLAEngine

CONSTANTS NavidaWindow,    \* frames NaVIDA remembers
          NavidaHistory,   \* past frames it shows
          NavilaWindow,    \* frames NaVILA remembers
          NavilaFrames,    \* frames its model takes
          ContextFrames,   \* past thumbnails MoVLA shows
          HistoryLen,      \* motions MoVLA shows
          None             \* no frame: NaVILA's black padding, no previous frame

ASSUME BackendAssumption ==
    /\ NavidaWindow \in Nat \ {0} /\ NavidaHistory \in Nat \ {0, 1}
    /\ NavilaWindow \in Nat \ {0} /\ NavilaFrames \in Nat \ {0, 1}
    /\ ContextFrames \in Nat \ {0} /\ HistoryLen \in Nat

Kinds == {"navida", "navila", "movla", "omnivla_edge", "omnivla", "asyncvla"}

\* What a backend has remembered: frames, the instruction they belong to, poses.
NewMemory == [frames |-> <<>>, text |-> "", poses |-> <<>>]

\* deque(maxlen = n).append
Keep(s, n, x) == IF Len(s) < n THEN Append(s, x) ELSE Append(Tail(s), x)

Front(s) == SubSeq(s, 1, Len(s) - 1)
Last(s) == s[Len(s)]

\* Python's round of a / b: a half goes to the even neighbour.
Round(a, b) ==
    LET up == (2 * a + b) \div (2 * b)
    IN  IF (2 * a + b) % (2 * b) = 0 /\ up % 2 = 1 THEN up - 1 ELSE up

\* _sample_history
SampleHistory(images) ==
    IF Len(images) <= NavidaHistory THEN images
    ELSE [i \in 1 .. NavidaHistory |->
             images[1 + Round((i - 1) * (Len(images) - 1), NavidaHistory - 1)]]

\* Mutant: the frames of an earlier instruction stay.
RememberAll(memory, window, f) ==
    [memory EXCEPT !.frames = Keep(@, window, f), !.text = f.text]

\* A new instruction forgets the frames of the old one.
RememberInstruction(memory, window, f) ==
    [memory EXCEPT !.frames = Keep(IF f.text = memory.text THEN @ ELSE <<>>, window, f),
                   !.text = f.text]

\* Mutant: the current frame is among the past ones too.
NavidaShowsAll(frames) == Append(SampleHistory(frames), Last(frames))
NavidaContext(frames) ==
    LET history == SampleHistory(Front(frames))
    IN  (IF history = <<>> THEN <<Last(frames)>> ELSE history) \o <<Last(frames)>>

\* sample_and_pad_images
NavilaContext(frames) ==
    LET missing == IF Len(frames) < NavilaFrames THEN NavilaFrames - Len(frames) ELSE 0
        padded == [i \in 1 .. missing |-> None] \o frames
    IN  [i \in 1 .. NavilaFrames - 1 |->
            padded[1 + ((i - 1) * (Len(padded) - 1)) \div (NavilaFrames - 1)]]
        \o <<Last(padded)>>

\* _context_images: the oldest thumbnail, or the current frame, fills the front.
MovlaContext(past, f) ==
    LET thumbs == IF past = <<>> THEN <<f>> ELSE past
    IN  [i \in 1 .. ContextFrames - Len(thumbs) |-> thumbs[1]] \o thumbs \o <<f>>

\* set_motion_state, before the inference it belongs to.
SetMotionState(memory, f) == [memory EXCEPT !.poses = Keep(@, HistoryLen + 1, f)]

\* Only a nonempty instruction is a goal for these.
Rejects(kind, f) == kind \in {"navida", "navila"} /\ f.text = ""

------------------------------------------------------------------------------
(* infer of each backend: the memory it leaves, the one it leaves when the   *)
(* model raises, and the frames the model is shown, the current one last.    *)

Remembered(memory, context) == [memory |-> memory, failed |-> memory, context |-> context]

NavidaInfer(memory, f) ==
    LET m == RememberInstruction(memory, NavidaWindow, f)
    IN  Remembered(m, NavidaContext(m.frames))

NavilaInfer(memory, f) ==
    LET m == RememberInstruction(memory, NavilaWindow, f)
    IN  Remembered(m, NavilaContext(m.frames))

\* The thumbnail is kept for the next inference, when this one has succeeded.
MovlaInfer(memory, f) ==
    LET m == SetMotionState(memory, f)
    IN  [memory |-> [m EXCEPT !.frames = Keep(@, ContextFrames, f)], failed |-> m,
         context |-> MovlaContext(m.frames, f)]

\* infer_chunk
EdgeInfer(memory, f) ==
    LET m == [memory EXCEPT !.frames = PushFrame(@, f)]
    IN  Remembered(m, StackFrames(m.frames))

\* OmniVLA and AsyncVLA remember nothing: they get the previous frame with it.
PairInfer(memory, previous, f) ==
    Remembered(memory, <<IF previous = None THEN f ELSE previous, f>>)

Infer(kind, memory, previous, f) ==
    CASE kind = "navida"       -> NavidaInfer(memory, f)
      [] kind = "navila"       -> NavilaInfer(memory, f)
      [] kind = "movla"        -> MovlaInfer(memory, f)
      [] kind = "omnivla_edge" -> EdgeInfer(memory, f)
      [] OTHER                 -> PairInfer(memory, previous, f)

\* _build_batch: the measured motion, which only MoVLA is shown.
Motion(kind, memory) == IF kind = "movla" THEN memory.poses ELSE <<>>
================================================================================
