--------------------------- MODULE LiveMatrixProofs ---------------------------
(***************************************************************************)
(* Proofs about LiveMatrix for any plans, any windows of the policies, any *)
(* length of the queue and any number of jobs, episodes and faults.        *)
(***************************************************************************)
EXTENDS LiveMatrix, SequenceTheorems, FiniteSetTheorems, TLAPS

(***************************************************************************)
(* The inductive invariant.                                                *)
(***************************************************************************)

Answers == [kind : {"answer"}, job : Jobs, version : Kinds \cup {None},
            context : Seq(Frames \cup {None}), motion : Seq(Frames)]
Requests == [kind : {"reset", "infer"}, by : Clients, frame : Frames \cup {None},
             posed : BOOLEAN, awaited : BOOLEAN]
Backed == [backend : Kinds \cup {None}, phase : Phases]
Steps == {"submit", "wait", "sim", "start", "episode", "cancel", "stop", "done", "failed"}
Driven == [pc : Steps, model : Nat \ {0}, episode : Nat \ {0}, job : Jobs \cup {None},
           runner : Nat, failing : BOOLEAN, runs : Nat \ {0}]
Sender == [pc : {"off", "start", "reset", "run", "over", "died"}, job : Jobs \cup {None},
           text : {"", "left", "right"}, sent : Nat, version : Kinds \cup {None}]

Typed ==
    /\ jobs \in [Jobs -> Backed]
    /\ server \in Servers \cup {None}
    /\ queue \in Seq(Requests) /\ Len(queue) <= MaxQueue
    /\ replies \in [Clients -> {None, Waiting, Ack, Dropped, Rejected} \cup Answers]
    /\ plan \in Plans
    /\ matrix \in Driven
    /\ client \in [Clients -> Sender]
    /\ faults \subseteq Faults
    /\ cancelled \subseteq Jobs

\* The matrix stays within its plan: so many episodes has it started at most.
Episodes == plan.episodes
PerRun == Len(plan.models) * Episodes
Before == (matrix.runs - 1) * PerRun + (matrix.model - 1) * Episodes
Counted ==
    /\ matrix.model <= Len(plan.models) /\ matrix.runs <= plan.runs
    /\ matrix.episode <= Episodes
    /\ \A c \in Clients : client[c].sent <= plan.frames
    /\ matrix.pc \in {"submit", "wait"} => matrix.runner <= Before
    /\ matrix.pc \in {"sim", "start"} => matrix.runner <= Before + matrix.episode - 1
    /\ matrix.pc = "episode" =>
          matrix.runner <= Before + matrix.episode /\ matrix.runner \in Runners
    /\ matrix.runner <= Before + Episodes
    /\ matrix.runner <= MaxEpisodes

\* Runners that are still to come have sent nothing and been told nothing.
Untouched ==
    \A c \in Runners : c > matrix.runner => client[c].pc = "off" /\ ~IsAnswer(c)

JobsOwn ==
    /\ Serving => jobs[server.job].phase = "serving"
    /\ \A j \in cancelled : jobs[j].phase # "free"
    /\ matrix.pc \in {"wait", "sim", "start", "episode", "cancel"} =>
          matrix.job \in Jobs \ cancelled /\ jobs[matrix.job].phase # "free"

\* From the moment that its server answers the matrix has the server of its job.
ServerOwn ==
    /\ matrix.pc = "episode" => client[matrix.runner].job = matrix.job
    /\ "ended" \notin faults =>
          /\ matrix.pc \in {"sim", "start", "episode"} => Serving /\ server.job = matrix.job
          /\ matrix.pc = "episode" /\ IsAnswer(matrix.runner) =>
                replies[matrix.runner].job = matrix.job

\* Only the runner of now is in the container, when docker stop has never failed.
ContainerOwn ==
    "stop" \notin faults =>
        /\ InContainer \cap Runners \subseteq {matrix.runner}
        /\ matrix.pc \in {"submit", "start", "done", "failed"} => InContainer \cap Runners = {}

\* Of the jobs that are alive none is forgotten.
JobsLeft ==
    faults = {} =>
        Alive \subseteq cancelled \cup
            (IF matrix.pc \in {"wait", "sim", "start", "episode", "cancel"}
             THEN {matrix.job} ELSE {})

(* What the server remembers and what waits in its queue, per sender.        *)

Infers(i) == queue[i].kind = "infer"

RequestsOwn ==
    \A i \in DOMAIN queue : Infers(i) => queue[i].frame \in Frames
                                         /\ queue[i].frame.by = queue[i].by

\* Of a sender that has sent no frame there is none; the next one has a new number.
FramesSent ==
    \A c \in Clients :
        LET known(f) == /\ client[c].pc \notin {"off", "start", "reset"}
                        /\ client[c].pc = "run" => f.number < client[c].sent
        IN  /\ \A i \in DOMAIN queue : Infers(i) /\ queue[i].by = c => known(queue[i].frame)
            /\ Serving =>
                 /\ \A i \in DOMAIN server.memory.frames :
                       server.memory.frames[i].by = c => known(server.memory.frames[i])
                 /\ server.previous # None /\ server.previous.by = c => known(server.previous)
            /\ client[c].pc \in {"off", "start"} => \A i \in DOMAIN queue : queue[i].by # c

Earlier(f, g) == f.by = g.by => f.number < g.number
InOrder(s) == \A i, k \in DOMAIN s : i < k => Earlier(s[i], s[k])

FramesInOrder ==
    /\ \A i, k \in DOMAIN queue :
          i < k /\ Infers(i) /\ Infers(k) => Earlier(queue[i].frame, queue[k].frame)
    /\ Serving =>
          /\ InOrder(server.memory.frames)
          /\ \A k \in DOMAIN queue : Infers(k) =>
                /\ \A i \in DOMAIN server.memory.frames :
                      Earlier(server.memory.frames[i], queue[k].frame)
                /\ server.previous # None => Earlier(server.previous, queue[k].frame)

OneText ==
    Serving /\ Backend \in {"navida", "navila"} =>
        \A i \in DOMAIN server.memory.frames :
            server.memory.frames[i].text = server.memory.text

\* After the reset of a runner all that the server has is its own.
Own(c) ==
    /\ \A i \in DOMAIN queue : queue[i].by = c
    /\ Serving =>
          /\ \A i \in DOMAIN server.memory.frames : server.memory.frames[i].by = c
          /\ \A i \in DOMAIN server.memory.poses : server.memory.poses[i].by = c
          /\ server.previous # None => server.previous.by = c

ResetWaits(c) ==
    /\ queue # <<>>
    /\ Last(queue).by = c /\ Last(queue).kind = "reset" /\ Last(queue).awaited
    /\ \A i \in 1 .. Len(queue) - 1 : queue[i].by # c

ResetStands(c) ==
    \/ replies[c] # Ack /\ ResetWaits(c)
    \/ replies[c] # Ack /\ \A i \in DOMAIN queue : queue[i].by # c
    \/ replies[c] = Ack /\ queue = <<>> /\ Own(c)

RunnerOwn ==
    "stop" \notin faults /\ client[Bridge].pc = "off" =>
        \A c \in Runners :
            /\ client[c].pc = "reset" => ResetStands(c)
            /\ client[c].pc = "run" =>
                  /\ Own(c)
                  /\ IsAnswer(c) => \A f \in Shown(c) \cup Felt(c) : f.by = c

Requested == RequestsOwn /\ FramesSent /\ FramesInOrder

IInv ==
    /\ Typed /\ Counted /\ Untouched /\ JobsOwn /\ ServerOwn /\ ContainerOwn /\ JobsLeft
    /\ Requested /\ OneText /\ RunnerOwn /\ OneInstruction /\ PastThenPresent
(***************************************************************************)
(* Sequences: a frame comes in at the end, the oldest goes.                *)
(***************************************************************************)

LEMMA FunctionIsSeq ==
    ASSUME NEW S, NEW n \in Nat, NEW f \in [1 .. n -> S]
    PROVE  f \in Seq(S) /\ Len(f) = n
<1>1. f \in Seq(S)
  BY SeqDef
<1>2. DOMAIN f = 1 .. n /\ DOMAIN f = 1 .. Len(f) /\ Len(f) \in Nat
  BY <1>1, LenProperties
<1> QED
  BY <1>1, <1>2

\* t is s, without its first element or with it, and x at the end.
Slid(s, t, x) ==
    /\ Len(t) > 0 /\ t[Len(t)] = x
    /\ \E off \in {0, 1} : /\ Len(t) = Len(s) + 1 - off
                           /\ \A i \in 1 .. Len(t) - 1 : t[i] = s[i + off]

LEMMA KeepSlides ==
    ASSUME NEW S, NEW s \in Seq(S), NEW n \in Nat \ {0}, NEW x \in S
    PROVE  Keep(s, n, x) \in Seq(S) /\ Slid(s, Keep(s, n, x), x)
<1>1. Len(s) \in Nat
  BY LenProperties
<1>2. CASE Len(s) < n
  <2>1. Keep(s, n, x) = Append(s, x)
    BY <1>2 DEF Keep
  <2>2. /\ Append(s, x) \in Seq(S) /\ Len(Append(s, x)) = Len(s) + 1
        /\ Append(s, x)[Len(s) + 1] = x
        /\ \A i \in 1 .. Len(s) : Append(s, x)[i] = s[i]
    BY AppendProperties
  <2> DEFINE t == Append(s, x)
  <2> HIDE DEF t
  <2>3. /\ Len(t) = Len(s) + 1 - 0 /\ Len(t) > 0 /\ t[Len(t)] = x
        /\ \A i \in 1 .. Len(t) - 1 : t[i] = s[i + 0]
    BY <1>1, <2>2 DEF t
  <2>4. Slid(s, t, x)
    BY <2>3 DEF Slid
  <2> QED
    BY <2>1, <2>2, <2>4 DEF t
<1>3. CASE ~(Len(s) < n)
  <2>1. Keep(s, n, x) = Append(Tail(s), x) /\ s # <<>>
    BY <1>1, <1>3, EmptySeq DEF Keep
  <2>2. /\ Tail(s) \in Seq(S) /\ Len(Tail(s)) = Len(s) - 1 /\ Len(Tail(s)) \in Nat
        /\ \A i \in 1 .. Len(Tail(s)) : Tail(s)[i] = s[i + 1]
    BY <2>1, HeadTailProperties, LenProperties
  <2> DEFINE u == Tail(s)
             t == Append(u, x)
  <2> HIDE DEF u
  <2>3. /\ t \in Seq(S) /\ Len(t) = Len(u) + 1 /\ t[Len(u) + 1] = x
        /\ \A i \in 1 .. Len(u) : t[i] = u[i]
    BY <2>2, AppendProperties DEF u
  <2> HIDE DEF t
  <2>4. /\ Len(t) = Len(s) + 1 - 1 /\ Len(t) > 0 /\ t[Len(t)] = x
        /\ \A i \in 1 .. Len(t) - 1 : t[i] = s[i + 1]
    BY <1>1, <2>2, <2>3 DEF u
  <2>5. Slid(s, t, x)
    BY <2>4 DEF Slid
  <2> QED
    BY <2>1, <2>3, <2>5 DEF t, u
<1> QED
  BY <1>2, <1>3

LEMMA PushSlides ==
    ASSUME NEW S, NEW s \in Seq(S), NEW x \in S
    PROVE  PushFrame(s, x) \in Seq(S) /\ Slid(s, PushFrame(s, x), x)
<1>1. ContextSize + 1 \in Nat \ {0} /\ ContextSize \in Nat /\ Len(s) \in Nat
  BY EngineAssumption, LenProperties
<1>2. PushFrame(s, x) = Keep(s, ContextSize + 1, x)
  BY <1>1 DEF PushFrame, Keep
<1> QED
  BY <1>1, <1>2, KeepSlides

\* What comes in last is later than what is there: the order stays.
LEMMA SlidInOrder ==
    ASSUME NEW s \in Seq(Frames), NEW t \in Seq(Frames), NEW x \in Frames, Slid(s, t, x),
           InOrder(s), \A i \in DOMAIN s : Earlier(s[i], x)
    PROVE  InOrder(t)
<1>1. PICK off \in {0, 1} : /\ Len(t) = Len(s) + 1 - off
                            /\ \A i \in 1 .. Len(t) - 1 : t[i] = s[i + off]
  BY DEF Slid
<1>2. /\ Len(s) \in Nat /\ Len(t) \in Nat /\ DOMAIN s = 1 .. Len(s) /\ DOMAIN t = 1 .. Len(t)
      /\ t[Len(t)] = x
  BY LenProperties DEF Slid
<1>3. \A i \in DOMAIN t : i # Len(t) =>
          i \in 1 .. Len(t) - 1 /\ i + off \in DOMAIN s /\ t[i] = s[i + off]
  <2>1. \A i \in 1 .. Len(t) - 1 : i + off \in 1 .. Len(s)
    BY <1>1, <1>2
  <2>2. \A i \in 1 .. Len(t) : i # Len(t) => i \in 1 .. Len(t) - 1
    <3>1. Len(t) \in Nat
      BY <1>2
    <3> QED
      BY <3>1
  <2> QED
    BY <1>1, <1>2, <2>1, <2>2
<1>4. ASSUME NEW i \in DOMAIN t, NEW k \in DOMAIN t, i < k
      PROVE  Earlier(t[i], t[k])
  <2>1. i \in 1 .. Len(t) - 1 /\ i + off \in DOMAIN s /\ t[i] = s[i + off]
    BY <1>2, <1>3, <1>4
  <2>2. CASE k = Len(t)
    BY <1>2, <2>1, <2>2
  <2>3. CASE k # Len(t)
    <3>1. k \in 1 .. Len(t) - 1 /\ k + off \in DOMAIN s /\ t[k] = s[k + off]
      BY <1>2, <1>3, <2>3
    <3>2. i + off < k + off
      BY <1>1, <1>2, <1>4
    <3> QED
      BY <2>1, <3>1, <3>2 DEF InOrder
  <2> QED
    BY <2>2, <2>3
<1> QED
  BY <1>4 DEF InOrder

LEMMA SlidElements ==
    ASSUME NEW s \in Seq(Frames), NEW t \in Seq(Frames), NEW x \in Frames, Slid(s, t, x)
    PROVE  \A i \in DOMAIN t : t[i] = x \/ \E k \in DOMAIN s : t[i] = s[k]
<1>1. PICK off \in {0, 1} : /\ Len(t) = Len(s) + 1 - off
                            /\ \A i \in 1 .. Len(t) - 1 : t[i] = s[i + off]
  BY DEF Slid
<1>2. /\ Len(s) \in Nat /\ Len(t) \in Nat /\ DOMAIN s = 1 .. Len(s) /\ DOMAIN t = 1 .. Len(t)
      /\ t[Len(t)] = x
  BY LenProperties DEF Slid
<1>3. ASSUME NEW i \in DOMAIN t, i # Len(t)
      PROVE  \E k \in DOMAIN s : t[i] = s[k]
  <2>1. i \in 1 .. Len(t) - 1 /\ i + off \in DOMAIN s
    BY <1>1, <1>2, <1>3
  <2> QED
    BY <1>1, <2>1
<1> QED
  BY <1>2, <1>3

(***************************************************************************)
(* Sampling: a later index is a later frame.                               *)
(***************************************************************************)

LEMMA Monotone ==
    ASSUME NEW a \in Nat, NEW b \in Nat, NEW c \in Nat, a <= b
    PROVE  a * c <= b * c
<1>1. b * c = a * c + (b - a) * c
  OBVIOUS
<1>2. b - a \in Nat /\ (b - a) * c \in Nat
  OBVIOUS
<1>3. a * c \in Nat /\ b * c \in Nat
  OBVIOUS
<1> QED
  BY <1>1, <1>2, <1>3

LEMMA Cancelled ==
    ASSUME NEW a \in Int, NEW b \in Int, NEW c \in Nat \ {0}, a * c < b * c
    PROVE  a < b
<1> SUFFICES ASSUME b <= a
             PROVE  FALSE
  OBVIOUS
<1>1. a - b \in Nat /\ (a - b) * c \in Nat
  OBVIOUS
<1>2. a * c = b * c + (a - b) * c
  OBVIOUS
<1>3. a * c \in Int /\ b * c \in Int
  OBVIOUS
<1> QED
  BY <1>1, <1>2, <1>3

LEMMA Division ==
    ASSUME NEW a \in Nat, NEW b \in Nat \ {0}
    PROVE  /\ a \div b \in Nat
           /\ (a \div b) * b <= a
           /\ a < (a \div b) * b + b
BY SMT

LEMMA RoundBounds ==
    ASSUME NEW a \in Nat, NEW b \in Nat \ {0}
    PROVE  /\ Round(a, b) \in Int
           /\ Round(a, b) * (2 * b) <= 2 * a + b
           /\ 2 * a - b <= Round(a, b) * (2 * b)
<1> DEFINE c == 2 * b
           d == 2 * a + b
           up == d \div c
<1>1. c \in Nat \ {0} /\ d \in Nat
  OBVIOUS
<1>2. up \in Nat /\ up * c <= d /\ d < up * c + c
  BY <1>1, Division
<1>3. d % c = 0 => up * c = d
  BY <1>1, SMT
<1>4. (up - 1) * c = up * c - c /\ up * c \in Nat
  BY <1>1, <1>2
<1>5. Round(a, b) = IF d % c = 0 /\ up % 2 = 1 THEN up - 1 ELSE up
  BY DEF Round
<1> HIDE DEF up
<1>6. CASE d % c = 0 /\ up % 2 = 1
  BY <1>1, <1>2, <1>3, <1>4, <1>5, <1>6
<1>7. CASE ~(d % c = 0 /\ up % 2 = 1)
  BY <1>1, <1>2, <1>4, <1>5, <1>7
<1> QED
  BY <1>6, <1>7

\* _sample_history: n + 1 frames, b + 1 of them are shown.
LEMMA SampleIndex ==
    ASSUME NEW b \in Nat \ {0}, NEW n \in Nat, NEW i \in 1 .. b + 1
    PROVE  Round((i - 1) * n, b) \in 0 .. n
<1> DEFINE a == (i - 1) * n
           r == Round(a, b)
<1>1. i - 1 \in Nat /\ a \in Nat /\ i - 1 <= b
  OBVIOUS
<1>2. a <= b * n
  BY <1>1, Monotone
<1> HIDE DEF a
<1>3. r \in Int /\ r * (2 * b) <= 2 * a + b /\ 2 * a - b <= r * (2 * b)
  BY <1>1, RoundBounds
<1> HIDE DEF r
<1>4. (n + 1) * (2 * b) = 2 * (b * n) + 2 * b /\ (0 - 1) * (2 * b) = 0 - 2 * b
  OBVIOUS
<1>5. b * n \in Nat /\ r * (2 * b) \in Int
  BY <1>3
<1>6. r * (2 * b) < (n + 1) * (2 * b) /\ (0 - 1) * (2 * b) < r * (2 * b)
  BY <1>1, <1>2, <1>3, <1>4, <1>5
<1>7. 2 * b \in Nat \ {0}
  OBVIOUS
<1>8. r < n + 1 /\ 0 - 1 < r
  BY <1>3, <1>6, <1>7, Cancelled
<1> QED
  BY <1>3, <1>8 DEF r, a

LEMMA Apart ==
    ASSUME NEW n \in Nat, NEW i \in Nat, NEW k \in Nat, i < k
    PROVE  i * n \in Nat /\ k * n \in Nat /\ i * n + n <= k * n
<1>1. i + 1 \in Nat /\ i + 1 <= k
  OBVIOUS
<1>2. (i + 1) * n <= k * n
  BY <1>1, Monotone
<1>3. (i + 1) * n = i * n + n /\ i * n \in Nat /\ k * n \in Nat
  OBVIOUS
<1> QED
  BY <1>2, <1>3

LEMMA SampleStrict ==
    ASSUME NEW b \in Nat \ {0}, NEW n \in Nat, n > b, NEW i \in 1 .. b + 1,
           NEW k \in 1 .. b + 1, i < k
    PROVE  Round((i - 1) * n, b) < Round((k - 1) * n, b)
<1> DEFINE a == (i - 1) * n
           c == (k - 1) * n
           r == Round(a, b)
           q == Round(c, b)
<1>1. i - 1 \in Nat /\ k - 1 \in Nat /\ i - 1 < k - 1
  OBVIOUS
<1>2. a \in Nat /\ c \in Nat /\ a + n <= c
  BY <1>1, Apart
<1> HIDE DEF a, c
<1>3. /\ r \in Int /\ r * (2 * b) <= 2 * a + b
      /\ q \in Int /\ 2 * c - b <= q * (2 * b)
  BY <1>2, RoundBounds
<1> HIDE DEF r, q
<1>4. r * (2 * b) \in Int /\ q * (2 * b) \in Int /\ 2 * b \in Nat \ {0}
  BY <1>3
<1>5. r * (2 * b) < q * (2 * b)
  BY <1>2, <1>3, <1>4
<1>6. r < q
  BY <1>3, <1>4, <1>5, Cancelled
<1> QED
  BY <1>6 DEF r, q, a, c

\* sample_and_pad_images: the last of n + 1 frames is not among the first b that are shown.
LEMMA PadIndex ==
    ASSUME NEW b \in Nat \ {0}, NEW n \in Nat, n >= b, NEW i \in 1 .. b
    PROVE  ((i - 1) * n) \div b \in 0 .. n - 1
<1> DEFINE a == (i - 1) * n
           q == a \div b
<1>1. i - 1 \in Nat /\ i - 1 < b
  OBVIOUS
<1>2. a \in Nat /\ b * n \in Nat /\ a + n <= b * n
  BY <1>1, Apart
<1> HIDE DEF a
<1>3. q \in Nat /\ q * b <= a
  BY <1>2, Division
<1> HIDE DEF q
<1>4. q * b \in Nat /\ n * b = b * n
  BY <1>3
<1>5. q * b < n * b
  BY <1>2, <1>3, <1>4
<1>6. q < n
  BY <1>3, <1>5, Cancelled
<1> QED
  BY <1>3, <1>6 DEF q, a

LEMMA PadStrict ==
    ASSUME NEW b \in Nat \ {0}, NEW n \in Nat, n >= b, NEW i \in 1 .. b, NEW k \in 1 .. b, i < k
    PROVE  ((i - 1) * n) \div b < ((k - 1) * n) \div b
<1> DEFINE a == (i - 1) * n
           c == (k - 1) * n
           r == a \div b
           q == c \div b
<1>1. i - 1 \in Nat /\ k - 1 \in Nat /\ i - 1 < k - 1
  OBVIOUS
<1>2. a \in Nat /\ c \in Nat /\ a + n <= c
  BY <1>1, Apart
<1> HIDE DEF a, c
<1>3. r \in Nat /\ q \in Nat /\ r * b <= a /\ c < q * b + b
  BY <1>2, Division
<1> HIDE DEF r, q
<1>4. r * b \in Nat /\ q * b \in Nat
  BY <1>3
<1>5. r * b < q * b
  BY <1>2, <1>3, <1>4
<1>6. r < q
  BY <1>3, <1>5, Cancelled
<1> QED
  BY <1>6 DEF r, q, a, c

(***************************************************************************)
(* What a model is shown: the current frame last, the past in order.       *)
(***************************************************************************)

Shows(shown, s) == \A i \in DOMAIN shown : shown[i] = None \/ \E k \in DOMAIN s : shown[i] = s[k]
Ordered(shown, once) ==
    \A i, k \in DOMAIN shown :
        i < k /\ None \notin {shown[i], shown[k]} /\ shown[i].by = shown[k].by
            => IF once \/ k = Len(shown) THEN shown[i].number < shown[k].number
               ELSE shown[i].number <= shown[k].number
GoodContext(shown, f, once) ==
    /\ shown \in Seq(Frames \cup {None}) /\ Len(shown) > 0 /\ Last(shown) = f
    /\ (\A i \in DOMAIN shown : shown[i] \in {None, f}) \/ Ordered(shown, once)

LEMMA InOrderIsOrdered ==
    ASSUME NEW s \in Seq(Frames), InOrder(s), NEW once \in BOOLEAN
    PROVE  Ordered(s, once)
<1>1. \A i \in DOMAIN s : s[i].number \in Nat
  <2>1. \A i \in DOMAIN s : s[i] \in Frames
    BY LenProperties, ElementOfSeq
  <2> QED
    BY <2>1 DEF Frames
<1> QED
  BY <1>1 DEF InOrder, Ordered, Earlier

LEMMA SampleShows ==
    ASSUME NEW s \in Seq(Frames), InOrder(s)
    PROVE  /\ SampleHistory(s) \in Seq(Frames) /\ (s # <<>> => SampleHistory(s) # <<>>)
           /\ \A i \in DOMAIN SampleHistory(s) : \E k \in DOMAIN s : SampleHistory(s)[i] = s[k]
           /\ InOrder(SampleHistory(s))
<1>1. CASE Len(s) <= NavidaHistory
  BY <1>1 DEF SampleHistory
<1>2. CASE ~(Len(s) <= NavidaHistory)
  <2> DEFINE b == NavidaHistory - 1
             n == Len(s) - 1
             p == [i \in 1 .. NavidaHistory |-> 1 + Round((i - 1) * n, b)]
             h == [i \in 1 .. NavidaHistory |-> s[p[i]]]
  <2>1. Len(s) \in Nat /\ DOMAIN s = 1 .. Len(s)
    BY LenProperties
  <2>2. /\ NavidaHistory \in Nat \ {0, 1} /\ b \in Nat \ {0} /\ n \in Nat /\ n > b
        /\ NavidaHistory = b + 1 /\ Len(s) = n + 1
    BY <1>2, <2>1, BackendAssumption
  <2>3. SampleHistory(s) = h
    <3>1. \A i \in 1 .. NavidaHistory : p[i] = 1 + Round((i - 1) * (Len(s) - 1), NavidaHistory - 1)
      OBVIOUS
    <3> QED
      BY <1>2, <3>1 DEF SampleHistory
  <2>4. \A i \in 1 .. NavidaHistory : p[i] \in 1 .. Len(s)
    <3>1. ASSUME NEW i \in 1 .. NavidaHistory
          PROVE  p[i] \in 1 .. Len(s)
      <4>1. Round((i - 1) * n, b) \in 0 .. n
        BY <2>2, SampleIndex
      <4> DEFINE r == Round((i - 1) * n, b)
      <4>2. p[i] = 1 + r
        OBVIOUS
      <4> HIDE DEF r, p
      <4> QED
        BY <2>2, <4>1, <4>2 DEF r
    <3> QED
      BY <3>1
  <2>5. \A i, k \in 1 .. NavidaHistory : i < k => p[i] < p[k]
    <3>1. ASSUME NEW i \in 1 .. NavidaHistory, NEW k \in 1 .. NavidaHistory, i < k
          PROVE  p[i] < p[k]
      <4> DEFINE r == Round((i - 1) * n, b)
                 q == Round((k - 1) * n, b)
      <4>1. r < q /\ r \in 0 .. n /\ q \in 0 .. n
        BY <2>2, <3>1, SampleIndex, SampleStrict
      <4>2. p[i] = 1 + r /\ p[k] = 1 + q
        OBVIOUS
      <4> HIDE DEF r, q, p
      <4> QED
        BY <2>2, <4>1, <4>2
    <3> QED
      BY <3>1
  <2> HIDE DEF p
  <2>6. h \in [1 .. NavidaHistory -> Frames]
    BY <2>4, ElementOfSeq
  <2>7. h \in Seq(Frames) /\ Len(h) = NavidaHistory /\ DOMAIN h = 1 .. NavidaHistory
    BY <2>2, <2>6, FunctionIsSeq
  <2>8. h # <<>>
    BY <2>2, <2>7, EmptySeq
  <2>9. \A i \in DOMAIN h : p[i] \in DOMAIN s /\ h[i] = s[p[i]]
    BY <2>1, <2>4, <2>7
  <2> HIDE DEF h
  <2>10. InOrder(h)
    BY <2>5, <2>7, <2>9 DEF InOrder
  <2> QED
    BY <2>3, <2>7, <2>8, <2>9, <2>10
<1> QED
  BY <1>1, <1>2

LEMMA FrontIs ==
    ASSUME NEW s \in Seq(Frames), Len(s) > 0
    PROVE  /\ Front(s) \in Seq(Frames) /\ Len(Front(s)) = Len(s) - 1
           /\ \A i \in 1 .. Len(s) - 1 : Front(s)[i] = s[i]
<1> DEFINE n == Len(s) - 1
           t == SubSeq(s, 1, n)
<1>1. n \in Nat /\ n \in Int /\ 1 \in Int
  BY LenProperties
<1>2. \A i \in 1 .. n : s[i] \in Frames
  BY LenProperties, ElementOfSeq
<1> HIDE DEF n
<1>3. /\ t \in Seq(Frames)
      /\ Len(t) = IF 1 <= n THEN n - 1 + 1 ELSE 0
      /\ \A i \in 1 .. n - 1 + 1 : t[i] = s[1 + i - 1]
  BY <1>1, <1>2, SubSeqProperties
<1> HIDE DEF t
<1>4. Len(t) = n
  BY <1>1, <1>3
<1>5. \A i \in 1 .. n : i \in 1 .. n - 1 + 1 /\ 1 + i - 1 = i
  BY <1>1
<1> QED
  BY <1>3, <1>4, <1>5 DEF t, n, Front

\* One frame is appended to the past frames that are shown.
LEMMA AppendIs ==
    ASSUME NEW S, NEW s \in Seq(S), NEW x \in S
    PROVE  /\ s \o <<x>> \in Seq(S) /\ Len(s \o <<x>>) = Len(s) + 1
           /\ (s \o <<x>>)[Len(s) + 1] = x
           /\ \A i \in 1 .. Len(s) : (s \o <<x>>)[i] = s[i]
BY AppendIsConcat, AppendProperties

\* A past of earlier frames, in order, and a frame that is later than all of them.
LEMMA PastThenNow ==
    ASSUME NEW p \in Seq(Frames \cup {None}), NEW f \in Frames, NEW once \in BOOLEAN,
           \A i, k \in DOMAIN p :
               i < k /\ None \notin {p[i], p[k]} /\ p[i].by = p[k].by
                   => IF once THEN p[i].number < p[k].number ELSE p[i].number <= p[k].number,
           \A i \in DOMAIN p : p[i] # None => Earlier(p[i], f)
    PROVE  GoodContext(p \o <<f>>, f, once)
<1> DEFINE shown == p \o <<f>>
<1>1. /\ shown \in Seq(Frames \cup {None}) /\ Len(shown) = Len(p) + 1
      /\ shown[Len(p) + 1] = f /\ \A i \in 1 .. Len(p) : shown[i] = p[i]
  BY AppendIs
<1>2. Len(p) \in Nat /\ DOMAIN p = 1 .. Len(p) /\ DOMAIN shown = 1 .. Len(shown)
  BY <1>1, LenProperties
<1> HIDE DEF shown
<1>3. ASSUME NEW i \in DOMAIN shown, NEW k \in DOMAIN shown, i < k,
             None \notin {shown[i], shown[k]}, shown[i].by = shown[k].by
      PROVE  IF once \/ k = Len(shown) THEN shown[i].number < shown[k].number
             ELSE shown[i].number <= shown[k].number
  <2>1. i \in DOMAIN p /\ shown[i] = p[i]
    BY <1>1, <1>2, <1>3
  <2>2. CASE k = Len(shown)
    BY <1>1, <1>3, <2>1, <2>2 DEF Earlier
  <2>3. CASE k # Len(shown)
    <3>1. k \in DOMAIN p /\ shown[k] = p[k]
      BY <1>1, <1>2, <2>3
    <3> QED
      BY <1>3, <2>1, <2>3, <3>1
  <2> QED
    BY <2>2, <2>3
<1>4. Ordered(shown, once)
  BY <1>3 DEF Ordered
<1>5. Len(shown) > 0 /\ Last(shown) = f
  BY <1>1, <1>2 DEF Last
<1> QED
  BY <1>1, <1>4, <1>5 DEF GoodContext, shown

LEMMA NavidaShows ==
    ASSUME NEW s \in Seq(Frames), Len(s) > 0, InOrder(s)
    PROVE  /\ GoodContext(NavidaContext(s), s[Len(s)], TRUE)
           /\ Shows(NavidaContext(s), s)
<1> DEFINE f == s[Len(s)]
           past == Front(s)
           h == SampleHistory(past)
<1>1. Len(s) \in Nat /\ DOMAIN s = 1 .. Len(s) /\ Len(s) \in DOMAIN s
  BY LenProperties
<1>2. f \in Frames /\ Last(s) = f
  BY <1>1, ElementOfSeq DEF Last
<1>3. /\ past \in Seq(Frames) /\ Len(past) = Len(s) - 1 /\ DOMAIN past = 1 .. Len(s) - 1
      /\ \A i \in DOMAIN past : past[i] = s[i] /\ i \in DOMAIN s /\ i < Len(s)
  <2>1. past \in Seq(Frames) /\ Len(past) = Len(s) - 1 /\ \A i \in 1 .. Len(s) - 1 : past[i] = s[i]
    BY FrontIs
  <2>2. DOMAIN past = 1 .. Len(s) - 1
    BY <2>1, LenProperties
  <2> HIDE DEF past
  <2>3. \A i \in 1 .. Len(s) - 1 : i \in 1 .. Len(s) /\ i < Len(s)
    BY <1>1
  <2> QED
    BY <1>1, <2>1, <2>2, <2>3
<1>4. InOrder(past)
  BY <1>3 DEF InOrder
<1>5. /\ h \in Seq(Frames) /\ InOrder(h)
      /\ \A i \in DOMAIN h : \E k \in DOMAIN past : h[i] = past[k]
      /\ past # <<>> => h # <<>>
  BY <1>3, <1>4, SampleShows
<1>6. NavidaContext(s) = (IF h = <<>> THEN <<f>> ELSE h) \o <<f>>
  BY <1>2 DEF NavidaContext
<1>7. None \notin Frames
  BY ServerAssumption
<1> HIDE DEF f, past, h
<1>8. CASE h = <<>>
  <2> DEFINE p == <<f>>
             t == p \o <<f>>
  <2>1. NavidaContext(s) = t
    BY <1>6, <1>8
  <2>2. p \in Seq(Frames) /\ Len(p) = 1 /\ p[1] = f
    BY <1>2
  <2> HIDE DEF p
  <2>3. t \in Seq(Frames) /\ Len(t) = 2 /\ t[2] = f /\ t[1] = f
    <3>1. /\ t \in Seq(Frames) /\ Len(t) = Len(p) + 1 /\ t[Len(p) + 1] = f
          /\ \A i \in 1 .. Len(p) : t[i] = p[i]
      <4>1. p \in Seq(Frames) /\ f \in Frames
        BY <1>2, <2>2
      <4> QED
        BY <4>1, AppendIs
    <3> HIDE DEF t
    <3>2. 1 \in 1 .. Len(p) /\ Len(p) + 1 = 2
      BY <2>2
    <3> QED
      BY <2>2, <3>1, <3>2
  <2> HIDE DEF t
  <2>4. DOMAIN t = 1 .. 2 /\ t \in Seq(Frames \cup {None})
    BY <2>3, LenProperties, SeqMonotonic
  <2>5. \A i \in DOMAIN t : t[i] = f
    <3>1. \A i \in 1 .. 2 : i = 1 \/ i = 2
      OBVIOUS
    <3> QED
      BY <2>3, <2>4, <3>1
  <2>6. GoodContext(t, f, TRUE)
    <3>1. Len(t) > 0 /\ Last(t) = f
      BY <2>3 DEF Last
    <3> QED
      BY <2>4, <2>5, <3>1 DEF GoodContext
  <2>7. Shows(t, s)
    BY <1>1, <2>5 DEF Shows, f
  <2> QED
    BY <2>1, <2>6, <2>7 DEF f
<1>9. CASE h # <<>>
  <2>1. NavidaContext(s) = h \o <<f>>
    BY <1>6, <1>9
  <2>2. h \in Seq(Frames \cup {None}) /\ DOMAIN h = 1 .. Len(h) /\ Len(h) \in Nat
    BY <1>5, SeqMonotonic, LenProperties
  <2>3. \A i \in DOMAIN h : \E k \in DOMAIN s : h[i] = s[k] /\ k < Len(s)
    BY <1>3, <1>5
  <2>4. \A i \in DOMAIN h : Earlier(h[i], f)
    BY <1>1, <2>3 DEF InOrder, f
  <2>5. \A i, k \in DOMAIN h : i < k /\ h[i].by = h[k].by => h[i].number < h[k].number
    BY <1>5 DEF InOrder, Earlier
  <2>6. GoodContext(h \o <<f>>, f, TRUE)
    BY <1>2, <2>2, <2>4, <2>5, PastThenNow
  <2>7. Shows(h \o <<f>>, s)
    <3>1. /\ h \o <<f>> \in Seq(Frames) /\ Len(h \o <<f>>) = Len(h) + 1
          /\ (h \o <<f>>)[Len(h) + 1] = f /\ \A i \in 1 .. Len(h) : (h \o <<f>>)[i] = h[i]
      BY <1>2, <1>5, AppendIs
    <3> DEFINE t == h \o <<f>>
    <3> HIDE DEF t
    <3>2. DOMAIN t = 1 .. Len(h) + 1
      BY <3>1, LenProperties DEF t
    <3>3. \A i \in 1 .. Len(h) + 1 : i \in 1 .. Len(h) \/ i = Len(h) + 1
      BY <2>2
    <3>4. \A i \in DOMAIN t : (\E k \in DOMAIN h : t[i] = h[k]) \/ t[i] = f
      BY <2>2, <3>1, <3>2, <3>3 DEF t
    <3>5. \A i \in DOMAIN t : \E k \in DOMAIN s : t[i] = s[k]
      BY <1>1, <2>3, <3>4 DEF f
    <3> QED
      BY <3>5 DEF Shows, t
  <2> QED
    BY <2>1, <2>6, <2>7 DEF f
<1> QED
  BY <1>8, <1>9

\* sample_and_pad_images: the padding, then the frames; f is the last of them.
LEMMA Padded ==
    ASSUME NEW s \in Seq(Frames), NEW m \in Nat
    PROVE  LET t == [i \in 1 .. m |-> None] \o s
           IN  /\ t \in Seq(Frames \cup {None}) /\ Len(t) = m + Len(s)
               /\ \A i \in 1 .. m + Len(s) : t[i] = IF i <= m THEN None ELSE s[i - m]
<1> DEFINE pad == [i \in 1 .. m |-> None]
<1>1. pad \in [1 .. m -> Frames \cup {None}]
  OBVIOUS
<1>2. pad \in Seq(Frames \cup {None}) /\ Len(pad) = m
  BY <1>1, FunctionIsSeq
<1>3. \A i \in 1 .. m : pad[i] = None
  OBVIOUS
<1>4. s \in Seq(Frames \cup {None}) /\ Len(s) \in Nat
  BY SeqMonotonic, LenProperties
<1> HIDE DEF pad
<1>5. /\ pad \o s \in Seq(Frames \cup {None}) /\ Len(pad \o s) = m + Len(s)
      /\ \A i \in 1 .. m + Len(s) : (pad \o s)[i] = IF i <= m THEN pad[i] ELSE s[i - m]
  BY <1>2, <1>4, ConcatProperties
<1>6. \A i \in 1 .. m + Len(s) : (pad \o s)[i] = IF i <= m THEN None ELSE s[i - m]
  <2>1. ASSUME NEW i \in 1 .. m + Len(s), i <= m
        PROVE  pad[i] = None
    <3>1. i \in 1 .. m
      BY <1>4, <2>1
    <3> QED
      BY <1>3, <3>1
  <2> QED
    BY <1>5, <2>1
<1> QED
  BY <1>5, <1>6 DEF pad

LEMMA NavilaShows ==
    ASSUME NEW s \in Seq(Frames), Len(s) > 0, InOrder(s)
    PROVE  /\ GoodContext(NavilaContext(s), s[Len(s)], TRUE)
           /\ Shows(NavilaContext(s), s)
<1> DEFINE f == s[Len(s)]
           m == IF Len(s) < NavilaFrames THEN NavilaFrames - Len(s) ELSE 0
           t == [i \in 1 .. m |-> None] \o s
           b == NavilaFrames - 1
           n == Len(t) - 1
           j == [i \in 1 .. b |-> 1 + ((i - 1) * n) \div b]
           past == [i \in 1 .. b |-> t[j[i]]]
<1>1. Len(s) \in Nat /\ DOMAIN s = 1 .. Len(s) /\ Len(s) \in DOMAIN s
  BY LenProperties
<1>2. /\ NavilaFrames \in Nat \ {0, 1} /\ b \in Nat \ {0} /\ NavilaFrames = b + 1
      /\ m \in Nat /\ m + Len(s) >= NavilaFrames
  BY <1>1, BackendAssumption
<1>3. f \in Frames /\ None \notin Frames
  BY <1>1, ElementOfSeq, ServerAssumption
<1>4. /\ t \in Seq(Frames \cup {None}) /\ Len(t) = m + Len(s)
      /\ \A i \in 1 .. m + Len(s) : t[i] = IF i <= m THEN None ELSE s[i - m]
  BY <1>2, Padded
<1>5. NavilaContext(s) = past \o <<Last(t)>>
  <2>1. past = [i \in 1 .. NavilaFrames - 1 |->
                   t[1 + ((i - 1) * (Len(t) - 1)) \div (NavilaFrames - 1)]]
    OBVIOUS
  <2> QED
    BY <2>1 DEF NavilaContext
<1> HIDE DEF m, t
<1>6. Last(t) = f
  BY <1>1, <1>2, <1>4 DEF Last
<1>7. n \in Nat /\ n >= b /\ Len(t) = n + 1
  BY <1>1, <1>2, <1>4
<1>8. /\ \A i \in 1 .. b : j[i] \in 1 .. n
      /\ \A i, k \in 1 .. b : i < k => j[i] < j[k]
  <2> HIDE DEF n, b
  <2>1. ASSUME NEW i \in 1 .. b
        PROVE  j[i] \in 1 .. n
    <3> DEFINE q == ((i - 1) * n) \div b
    <3>1. q \in 0 .. n - 1
      BY <1>2, <1>7, PadIndex
    <3>2. j[i] = 1 + q
      OBVIOUS
    <3> HIDE DEF q, j
    <3> QED
      BY <1>7, <3>1, <3>2
  <2>2. ASSUME NEW i \in 1 .. b, NEW k \in 1 .. b, i < k
        PROVE  j[i] < j[k]
    <3> DEFINE q == ((i - 1) * n) \div b
               r == ((k - 1) * n) \div b
    <3>1. q < r /\ q \in 0 .. n - 1 /\ r \in 0 .. n - 1
      BY <1>2, <1>7, <2>2, PadIndex, PadStrict
    <3>2. j[i] = 1 + q /\ j[k] = 1 + r
      OBVIOUS
    <3> HIDE DEF q, r, j
    <3> QED
      BY <1>7, <3>1, <3>2
  <2> QED
    BY <2>1, <2>2
<1> HIDE DEF j
<1>9. /\ past \in Seq(Frames \cup {None}) /\ Len(past) = b /\ DOMAIN past = 1 .. b
      /\ \A i \in 1 .. b : past[i] = t[j[i]]
  <2> HIDE DEF n, b
  <2>1. \A i \in 1 .. b : j[i] \in 1 .. Len(t)
    <3>1. \A x \in 1 .. n : x \in 1 .. Len(t)
      BY <1>7
    <3> QED
      BY <1>8, <3>1
  <2>2. past \in [1 .. b -> Frames \cup {None}]
    BY <1>4, <2>1, ElementOfSeq
  <2> QED
    BY <1>2, <2>2, FunctionIsSeq
<1> HIDE DEF past
<1>10. \A i \in 1 .. b : past[i] # None =>
           /\ j[i] - m \in DOMAIN s /\ j[i] - m < Len(s) /\ past[i] = s[j[i] - m]
  <2> HIDE DEF b
  <2>1. ASSUME NEW i \in 1 .. b, past[i] # None
        PROVE  j[i] - m \in DOMAIN s /\ j[i] - m < Len(s) /\ past[i] = s[j[i] - m]
    <3>1. j[i] \in 1 .. n
      BY <1>8
    <3>2. j[i] \in 1 .. m + Len(s) /\ j[i] < m + Len(s)
      BY <1>1, <1>2, <1>4, <1>7, <3>1
    <3>3. past[i] = IF j[i] <= m THEN None ELSE s[j[i] - m]
      BY <1>4, <1>9, <3>2
    <3>4. ~(j[i] <= m) /\ past[i] = s[j[i] - m]
      BY <2>1, <3>3
    <3> QED
      BY <1>1, <1>2, <3>2, <3>4
  <2> QED
    BY <2>1
<1> HIDE DEF b, n
<1>11. \A i \in DOMAIN past : past[i] # None => Earlier(past[i], f)
  BY <1>1, <1>9, <1>10 DEF InOrder, f
<1>12. ASSUME NEW i \in DOMAIN past, NEW k \in DOMAIN past, i < k,
              None \notin {past[i], past[k]}, past[i].by = past[k].by
       PROVE  past[i].number < past[k].number
  <2>1. /\ j[i] - m \in DOMAIN s /\ past[i] = s[j[i] - m]
        /\ j[k] - m \in DOMAIN s /\ past[k] = s[j[k] - m]
    BY <1>9, <1>10, <1>12
  <2>2. j[i] < j[k] /\ j[i] \in 1 .. n /\ j[k] \in 1 .. n
    BY <1>8, <1>9, <1>12
  <2>3. j[i] - m < j[k] - m
    BY <1>2, <1>7, <2>2
  <2> QED
    BY <1>12, <2>1, <2>3 DEF InOrder, Earlier
<1>13. GoodContext(past \o <<f>>, f, TRUE)
  BY <1>3, <1>9, <1>11, <1>12, PastThenNow
<1>14. Shows(past \o <<f>>, s)
  <2> DEFINE u == past \o <<f>>
  <2>1. /\ u \in Seq(Frames \cup {None}) /\ Len(u) = Len(past) + 1
        /\ u[Len(past) + 1] = f /\ \A i \in 1 .. Len(past) : u[i] = past[i]
    BY <1>3, <1>9, AppendIs
  <2> HIDE DEF u
  <2>2. DOMAIN u = 1 .. b + 1 /\ u[b + 1] = f /\ \A i \in 1 .. b : u[i] = past[i]
    BY <1>9, <2>1, LenProperties
  <2>3. \A i \in 1 .. b + 1 : i \in 1 .. b \/ i = b + 1
    BY <1>2
  <2>4. \A i \in DOMAIN u : u[i] = f \/ (i \in 1 .. b /\ u[i] = past[i])
    BY <2>2, <2>3
  <2>5. \A i \in DOMAIN u : u[i] = None \/ \E k \in DOMAIN s : u[i] = s[k]
    BY <1>1, <1>10, <2>4 DEF f
  <2> QED
    BY <2>5 DEF Shows, u
<1> QED
  BY <1>5, <1>6, <1>13, <1>14 DEF f

\* _context_images: the oldest thumbnail, or the current frame, fills the front.
LEMMA MovlaShows ==
    ASSUME NEW s \in Seq(Frames), NEW f \in Frames, InOrder(s), \A i \in DOMAIN s : Earlier(s[i], f)
    PROVE  /\ GoodContext(MovlaContext(s, f), f, FALSE)
           /\ \A i \in DOMAIN MovlaContext(s, f) :
                 MovlaContext(s, f)[i] = f \/ \E k \in DOMAIN s : MovlaContext(s, f)[i] = s[k]
<1> DEFINE u == IF s = <<>> THEN <<f>> ELSE s
           c == ContextFrames - Len(u)
           m == IF c > 0 THEN c ELSE 0
           pad == [i \in 1 .. c |-> u[1]]
           p == pad \o u
           t == p \o <<f>>
<1>1. MovlaContext(s, f) = t
  BY DEF MovlaContext
<1>2. u \in Seq(Frames) /\ Len(u) \in Nat \ {0} /\ DOMAIN u = 1 .. Len(u) /\ 1 \in DOMAIN u
  <2>1. <<f>> \in Seq(Frames) /\ Len(<<f>>) = 1
    OBVIOUS
  <2>2. u \in Seq(Frames) /\ Len(u) \in Nat \ {0}
    BY <2>1, EmptySeq
  <2> HIDE DEF u
  <2>3. DOMAIN u = 1 .. Len(u)
    BY <2>2, LenProperties
  <2> QED
    BY <2>2, <2>3
<1>3. \A i \in DOMAIN u : IF s = <<>> THEN u[i] = f ELSE i \in DOMAIN s /\ u[i] = s[i]
  <2>1. DOMAIN <<f>> = 1 .. 1 /\ <<f>>[1] = f
    OBVIOUS
  <2>2. \A i \in 1 .. 1 : i = 1
    OBVIOUS
  <2>3. CASE s = <<>>
    BY <2>1, <2>2, <2>3
  <2>4. CASE s # <<>>
    BY <2>4
  <2> QED
    BY <2>3, <2>4
<1> HIDE DEF u
<1>4. c \in Int /\ m \in Nat /\ 1 .. c = 1 .. m
  <2>1. ContextFrames \in Nat /\ Len(u) \in Nat
    BY <1>2, BackendAssumption
  <2>2. c \in Int
    BY <2>1
  <2> HIDE DEF c
  <2>3. CASE c > 0
    BY <2>2, <2>3
  <2>4. CASE ~(c > 0)
    BY <2>2, <2>4
  <2> QED
    BY <2>3, <2>4
<1>5. pad \in Seq(Frames) /\ Len(pad) = m /\ \A i \in 1 .. m : pad[i] = u[1]
  <2>1. u[1] \in Frames
    BY <1>2, ElementOfSeq
  <2>2. pad = [i \in 1 .. m |-> u[1]]
    BY <1>4
  <2>3. pad \in [1 .. m -> Frames]
    BY <2>1, <2>2
  <2> QED
    BY <1>4, <2>2, <2>3, FunctionIsSeq
<1> HIDE DEF pad, c, m
<1>6. /\ p \in Seq(Frames) /\ Len(p) = m + Len(u) /\ DOMAIN p = 1 .. m + Len(u)
      /\ \A i \in 1 .. m + Len(u) : p[i] = IF i <= m THEN pad[i] ELSE u[i - m]
  <2>1. /\ p \in Seq(Frames) /\ Len(p) = m + Len(u)
        /\ \A i \in 1 .. m + Len(u) : p[i] = IF i <= m THEN pad[i] ELSE u[i - m]
    BY <1>2, <1>5, ConcatProperties
  <2> QED
    BY <2>1, LenProperties
<1> HIDE DEF p
\* The place in u of what is shown.
<1> DEFINE j == [i \in DOMAIN p |-> IF i <= m THEN 1 ELSE i - m]
<1>7. \A i \in DOMAIN p : j[i] \in DOMAIN u /\ p[i] = u[j[i]]
  <2>1. ASSUME NEW i \in DOMAIN p
        PROVE  j[i] \in DOMAIN u /\ p[i] = u[j[i]]
    <3>1. CASE i <= m
      <4>1. i \in 1 .. m
        BY <1>2, <1>4, <1>6, <3>1
      <4> QED
        BY <1>2, <1>5, <1>6, <3>1, <4>1
    <3>2. CASE ~(i <= m)
      <4>1. i - m \in 1 .. Len(u)
        BY <1>2, <1>4, <1>6, <3>2
      <4> QED
        BY <1>2, <1>6, <3>2, <4>1
    <3> QED
      BY <3>1, <3>2
  <2> QED
    BY <2>1
<1>8. \A i, k \in DOMAIN p : i < k => j[i] <= j[k]
  BY <1>2, <1>4, <1>6
<1> HIDE DEF j
<1>9. /\ t \in Seq(Frames) /\ t \in Seq(Frames \cup {None}) /\ Len(t) = Len(p) + 1
      /\ t[Len(p) + 1] = f /\ \A i \in 1 .. Len(p) : t[i] = p[i]
  BY <1>6, AppendIs, SeqMonotonic
<1>10. DOMAIN t = 1 .. Len(p) + 1 /\ Len(p) \in Nat /\ DOMAIN p = 1 .. Len(p)
  BY <1>6, <1>9, LenProperties
<1> HIDE DEF t
<1>11. \A i \in DOMAIN t : t[i] = f \/ \E k \in DOMAIN u : t[i] = u[k]
  <2>1. \A i \in 1 .. Len(p) + 1 : i \in 1 .. Len(p) \/ i = Len(p) + 1
    BY <1>10
  <2> QED
    BY <1>7, <1>9, <1>10, <2>1
<1>12. GoodContext(t, f, FALSE)
  <2>1. CASE s = <<>>
    <3>1. \A i \in DOMAIN t : t[i] = f
      BY <1>3, <1>11, <2>1
    <3>2. Len(t) > 0 /\ Last(t) = f
      BY <1>9, <1>10 DEF Last
    <3> QED
      BY <1>9, <3>1, <3>2 DEF GoodContext
  <2>2. CASE s # <<>>
    <3>1. \A i \in DOMAIN p : j[i] \in DOMAIN s /\ p[i] = s[j[i]]
      BY <1>3, <1>7, <2>2
    <3>2. \A i \in DOMAIN p : Earlier(p[i], f)
      BY <3>1
    <3>3. ASSUME NEW i \in DOMAIN p, NEW k \in DOMAIN p, i < k, p[i].by = p[k].by
          PROVE  p[i].number <= p[k].number
      <4>1. j[i] <= j[k] /\ j[i] \in DOMAIN u /\ j[k] \in DOMAIN u
        BY <1>7, <1>8, <3>3
      <4>2. j[i] = j[k] \/ j[i] < j[k]
        BY <1>2, <4>1
      <4>3. p[i].number \in Nat /\ p[k].number \in Nat
        <5>1. p[i] \in Frames /\ p[k] \in Frames
          BY <1>6, ElementOfSeq
        <5> QED
          BY <5>1 DEF Frames
      <4> QED
        BY <3>1, <3>3, <4>2, <4>3 DEF InOrder, Earlier
    <3>4. p \in Seq(Frames \cup {None})
      BY <1>6, SeqMonotonic
    <3> QED
      BY <3>2, <3>3, <3>4, PastThenNow DEF t
  <2> QED
    BY <2>1, <2>2
<1>13. \A i \in DOMAIN t : t[i] = f \/ \E k \in DOMAIN s : t[i] = s[k]
  BY <1>3, <1>11
<1> QED
  BY <1>1, <1>12, <1>13

\* The ring, padded in front with its oldest frame; f is its newest.
LEMMA StackShows ==
    ASSUME NEW s \in Seq(Frames), Len(s) > 0, InOrder(s)
    PROVE  /\ GoodContext(StackFrames(s), s[Len(s)], FALSE)
           /\ Shows(StackFrames(s), s)
<1> DEFINE c == ContextSize + 1
           m == c - Len(s)
           j == [i \in 1 .. c |-> IF i <= m THEN 1 ELSE i - m]
           t == StackFrames(s)
<1>1. Len(s) \in Nat \ {0} /\ DOMAIN s = 1 .. Len(s) /\ Len(s) \in DOMAIN s /\ 1 \in DOMAIN s
  BY LenProperties
<1>2. c \in Nat \ {0} /\ m \in Int /\ c = m + Len(s)
  BY <1>1, EngineAssumption
<1>3. s[Len(s)] \in Frames /\ None \notin Frames
  BY <1>1, ElementOfSeq, ServerAssumption
<1>4. /\ DOMAIN t = 1 .. c /\ t = [i \in 1 .. c |-> t[i]]
      /\ \A i \in 1 .. c : t[i] = IF i <= m THEN s[1] ELSE s[i - m]
  <2>1. StackFrames(s) =
            [i \in 1 .. ContextSize + 1 |-> IF i <= ContextSize + 1 - Len(s) THEN s[1]
                                           ELSE s[i - (ContextSize + 1 - Len(s))]]
    BY DEF StackFrames
  <2> HIDE DEF j
  <2>2. DOMAIN t = 1 .. c /\ t = [i \in 1 .. c |-> t[i]]
    BY <2>1
  <2>3. m = ContextSize + 1 - Len(s)
    BY <1>1, EngineAssumption
  <2> HIDE DEF m
  <2>4. \A i \in 1 .. c : t[i] = IF i <= m THEN s[1] ELSE s[i - m]
    BY <2>1, <2>3
  <2> QED
    BY <2>2, <2>4
<1> HIDE DEF t
<1> HIDE DEF c, m
<1>5. /\ \A i \in 1 .. c : j[i] \in DOMAIN s
      /\ \A i, k \in 1 .. c : i < k => j[i] <= j[k]
      /\ j[c] = Len(s)
      /\ \A i \in 1 .. c : i < c /\ Len(s) > 1 => j[i] < Len(s)
  BY <1>1, <1>2
<1>6. \A i \in 1 .. c : t[i] = s[j[i]]
  BY <1>4
<1> HIDE DEF j
<1>7. t \in Seq(Frames) /\ Len(t) = c /\ DOMAIN t = 1 .. c
  <2>1. \A i \in 1 .. c : t[i] \in Frames
    BY <1>1, <1>5, <1>6, ElementOfSeq
  <2>2. DOMAIN t = 1 .. c /\ t = [i \in 1 .. c |-> t[i]]
    BY <1>4
  <2>3. t \in [1 .. c -> Frames]
    BY <2>1, <2>2
  <2> QED
    BY <1>2, <2>2, <2>3, FunctionIsSeq
<1>8. t \in Seq(Frames \cup {None}) /\ Len(t) > 0 /\ Last(t) = s[Len(s)]
  <2>1. t \in Seq(Frames \cup {None})
    BY <1>7, SeqMonotonic
  <2>2. c \in 1 .. c /\ c > 0
    BY <1>2
  <2> QED
    BY <1>5, <1>6, <1>7, <2>1, <2>2 DEF Last
<1>9. Shows(t, s)
  BY <1>5, <1>6, <1>7 DEF Shows
<1>10. CASE Len(s) = 1
  <2>1. \A i \in DOMAIN t : j[i] = 1
    BY <1>1, <1>5, <1>7, <1>10
  <2>2. \A i \in DOMAIN t : t[i] = s[Len(s)]
    BY <1>6, <1>7, <1>10, <2>1
  <2>3. GoodContext(t, s[Len(s)], FALSE)
    BY <1>8, <2>2 DEF GoodContext
  <2> QED
    BY <1>9, <2>3 DEF t
<1>11. CASE Len(s) > 1
  <2>1. ASSUME NEW i \in DOMAIN t, NEW k \in DOMAIN t, i < k, t[i].by = t[k].by
        PROVE  IF k = Len(t) THEN t[i].number < t[k].number ELSE t[i].number <= t[k].number
    <3>1. j[i] \in DOMAIN s /\ j[k] \in DOMAIN s /\ j[i] <= j[k] /\ t[i] = s[j[i]] /\ t[k] = s[j[k]]
      BY <1>5, <1>6, <1>7, <2>1
    <3>2. k = Len(t) => j[i] < j[k]
      BY <1>2, <1>5, <1>7, <1>11, <2>1
    <3>3. j[i] = j[k] \/ j[i] < j[k]
      BY <1>1, <3>1
    <3>4. t[i].number \in Nat /\ t[k].number \in Nat
      <4>1. t[i] \in Frames /\ t[k] \in Frames
        BY <1>7, ElementOfSeq
      <4> QED
        BY <4>1 DEF Frames
    <3>5. j[i] < j[k] => t[i].number < t[k].number
      BY <2>1, <3>1 DEF InOrder, Earlier
    <3> QED
      BY <3>1, <3>2, <3>3, <3>4, <3>5
  <2>2. Ordered(t, FALSE)
    BY <2>1 DEF Ordered
  <2>3. GoodContext(t, s[Len(s)], FALSE)
    BY <1>8, <2>2 DEF GoodContext
  <2> QED
    BY <1>9, <2>3 DEF t
<1> QED
  <2>1. Len(s) = 1 \/ Len(s) > 1
    BY <1>1
  <2> QED
    BY <2>1, <1>10, <1>11

(***************************************************************************)
(* An inference of any policy: what it remembers and what it shows.        *)
(***************************************************************************)

Remembers(new, old, f) ==
    /\ new \in Memories /\ InOrder(new.frames)
    /\ \A i \in DOMAIN new.frames :
          new.frames[i] = f \/ \E k \in DOMAIN old.frames : new.frames[i] = old.frames[k]
    /\ \A i \in DOMAIN new.poses :
          new.poses[i] = f \/ \E k \in DOMAIN old.poses : new.poses[i] = old.poses[k]
SameText(memory) == \A i \in DOMAIN memory.frames : memory.frames[i].text = memory.text

GoodInference(kind, memory, previous, f, done) ==
    /\ Remembers(done.memory, memory, f) /\ Remembers(done.failed, memory, f)
    /\ GoodContext(done.context, f, kind \in {"navida", "navila"})
    /\ \A i \in DOMAIN done.context :
          \/ done.context[i] \in {None, f, previous}
          \/ \E k \in DOMAIN memory.frames : done.context[i] = memory.frames[k]
    /\ kind \in {"navida", "navila"} /\ SameText(memory) =>
          /\ SameText(done.memory) /\ SameText(done.failed)
          /\ \A i \in DOMAIN done.context : done.context[i] = None \/ done.context[i].text = f.text

\* The frame comes to those of its instruction, or alone.
LEMMA InstructionRemembered ==
    ASSUME NEW memory \in Memories, NEW f \in Frames, NEW window \in Nat \ {0},
           InOrder(memory.frames), \A i \in DOMAIN memory.frames : Earlier(memory.frames[i], f)
    PROVE  LET m == RememberInstruction(memory, window, f)
           IN  /\ Remembers(m, memory, f)
               /\ Len(m.frames) > 0 /\ m.frames[Len(m.frames)] = f /\ m.frames \in Seq(Frames)
               /\ SameText(memory) => SameText(m)
               /\ m.text = f.text
<1> DEFINE old == IF f.text = memory.text THEN memory.frames ELSE <<>>
           s == Keep(old, window, f)
           m == RememberInstruction(memory, window, f)
<1>1. /\ memory.frames \in Seq(Frames) /\ memory.poses \in Seq(Frames)
      /\ f.text \in {"", "left", "right"}
  BY DEF Memories, Frames
<1>2. old \in Seq(Frames) /\ InOrder(old) /\ (\A i \in DOMAIN old : Earlier(old[i], f))
      /\ \A i \in DOMAIN old : i \in DOMAIN memory.frames /\ old[i] = memory.frames[i]
  <2>1. <<>> \in Seq(Frames) /\ DOMAIN <<>> = {}
    BY EmptySeq
  <2>2. InOrder(<<>>)
    BY <2>1 DEF InOrder
  <2>3. CASE f.text = memory.text
    BY <1>1, <2>3
  <2>4. CASE f.text # memory.text
    BY <2>1, <2>2, <2>4
  <2> QED
    BY <2>3, <2>4
<1>3. f.text # memory.text => old = <<>> /\ DOMAIN old = {}
  OBVIOUS
<1>4. m = [memory EXCEPT !.frames = s, !.text = f.text]
  BY DEF RememberInstruction
<1> HIDE DEF old
<1>5. s \in Seq(Frames) /\ Slid(old, s, f)
  BY <1>2, KeepSlides
<1> HIDE DEF s
<1>6. InOrder(s) /\ \A i \in DOMAIN s : s[i] = f \/ \E k \in DOMAIN old : s[i] = old[k]
  BY <1>2, <1>5, SlidInOrder, SlidElements
<1>7. /\ m \in Memories /\ m.frames = s /\ m.text = f.text /\ m.poses = memory.poses
  BY <1>1, <1>4, <1>5 DEF Memories
<1> HIDE DEF m
<1>8. Len(s) > 0 /\ s[Len(s)] = f
  BY <1>5 DEF Slid
<1>9. Remembers(m, memory, f)
  BY <1>2, <1>6, <1>7 DEF Remembers
<1>10. SameText(memory) => SameText(m)
  <2> SUFFICES ASSUME SameText(memory), NEW i \in DOMAIN s
               PROVE  s[i].text = f.text
    BY <1>7 DEF SameText
  <2>1. ASSUME NEW k \in DOMAIN old
        PROVE  old[k].text = f.text
    BY <1>2, <1>3 DEF SameText
  <2> QED
    BY <1>6, <2>1
<1> QED
  BY <1>5, <1>7, <1>8, <1>9, <1>10 DEF m

LEMMA InstructionInference ==
    ASSUME NEW memory \in Memories, NEW previous \in Frames \cup {None}, NEW f \in Frames,
           NEW m, NEW context, NEW kind \in {"navida", "navila"},
           Remembers(m, memory, f), m.frames[Len(m.frames)] = f, SameText(memory) => SameText(m),
           m.text = f.text,
           GoodContext(context, m.frames[Len(m.frames)], TRUE), Shows(context, m.frames)
    PROVE  GoodInference(kind, memory, previous, f, Remembered(m, context))
<1> DEFINE done == Remembered(m, context)
<1>1. done.memory = m /\ done.failed = m /\ done.context = context
  BY DEF Remembered
<1> HIDE DEF done
<1>2. GoodContext(context, f, kind \in {"navida", "navila"})
  OBVIOUS
<1>3. \A i \in DOMAIN context :
        \/ context[i] \in {None, f, previous}
        \/ \E k \in DOMAIN memory.frames : context[i] = memory.frames[k]
  BY DEF Shows, Remembers
<1>4. SameText(memory) => \A i \in DOMAIN context : context[i] = None \/ context[i].text = f.text
  BY DEF Shows, SameText
<1> QED
  BY <1>1, <1>2, <1>3, <1>4 DEF GoodInference, done

LEMMA InferIsGood ==
    ASSUME NEW kind, NEW memory \in Memories, NEW previous \in Frames \cup {None},
           NEW f \in Frames, InOrder(memory.frames),
           \A i \in DOMAIN memory.frames : Earlier(memory.frames[i], f),
           previous # None => Earlier(previous, f)
    PROVE  GoodInference(kind, memory, previous, f, Infer(kind, memory, previous, f))
<1>1. /\ memory.frames \in Seq(Frames) /\ memory.poses \in Seq(Frames)
      /\ memory = [frames |-> memory.frames, text |-> memory.text, poses |-> memory.poses]
      /\ memory.text \in {"", "left", "right"}
  BY DEF Memories
<1>2. CASE kind = "navida"
  <2> DEFINE m == RememberInstruction(memory, NavidaWindow, f)
  <2>1. NavidaWindow \in Nat \ {0}
    BY BackendAssumption
  <2>2. /\ Remembers(m, memory, f)
        /\ Len(m.frames) > 0 /\ m.frames[Len(m.frames)] = f /\ m.frames \in Seq(Frames)
        /\ SameText(memory) => SameText(m)
        /\ m.text = f.text
    BY <2>1, InstructionRemembered
  <2>3. Infer(kind, memory, previous, f) = Remembered(m, NavidaContext(m.frames))
    BY <1>2 DEF Infer, NavidaInfer
  <2> HIDE DEF m
  <2>4. InOrder(m.frames)
    BY <2>2 DEF Remembers
  <2>5. GoodContext(NavidaContext(m.frames), m.frames[Len(m.frames)], TRUE)
        /\ Shows(NavidaContext(m.frames), m.frames)
    BY <2>2, <2>4, NavidaShows
  <2> QED
    BY <1>2, <2>2, <2>3, <2>5, InstructionInference
<1>3. CASE kind = "navila"
  <2> DEFINE m == RememberInstruction(memory, NavilaWindow, f)
  <2>1. NavilaWindow \in Nat \ {0}
    BY BackendAssumption
  <2>2. /\ Remembers(m, memory, f)
        /\ Len(m.frames) > 0 /\ m.frames[Len(m.frames)] = f /\ m.frames \in Seq(Frames)
        /\ SameText(memory) => SameText(m)
        /\ m.text = f.text
    BY <2>1, InstructionRemembered
  <2>3. Infer(kind, memory, previous, f) = Remembered(m, NavilaContext(m.frames))
    BY <1>3 DEF Infer, NavilaInfer
  <2> HIDE DEF m
  <2>4. InOrder(m.frames)
    BY <2>2 DEF Remembers
  <2>5. GoodContext(NavilaContext(m.frames), m.frames[Len(m.frames)], TRUE)
        /\ Shows(NavilaContext(m.frames), m.frames)
    BY <2>2, <2>4, NavilaShows
  <2> QED
    BY <1>3, <2>2, <2>3, <2>5, InstructionInference
<1>4. CASE kind = "movla"
  <2> DEFINE poses == Keep(memory.poses, HistoryLen + 1, f)
             frames == Keep(memory.frames, ContextFrames, f)
             m == SetMotionState(memory, f)
             n == [m EXCEPT !.frames = frames]
             done == Infer(kind, memory, previous, f)
  <2>1. HistoryLen + 1 \in Nat \ {0} /\ ContextFrames \in Nat \ {0}
    BY BackendAssumption
  <2>2. /\ poses \in Seq(Frames) /\ Slid(memory.poses, poses, f)
        /\ frames \in Seq(Frames) /\ Slid(memory.frames, frames, f)
    BY <1>1, <2>1, KeepSlides
  <2>3. m = [memory EXCEPT !.poses = poses]
    BY DEF SetMotionState
  <2>4. m.frames = memory.frames /\ m.poses = poses /\ m.text = memory.text
    BY <1>1, <2>3
  <2>5. done = [memory |-> n, failed |-> m, context |-> MovlaContext(m.frames, f)]
    BY <1>4, <2>4 DEF Infer, MovlaInfer
  <2> HIDE DEF poses, frames, m, n
  <2>6. m \in Memories
    BY <1>1, <2>2, <2>3 DEF Memories
  <2>7. n \in Memories /\ n.frames = frames /\ n.poses = poses
    BY <2>2, <2>4, <2>6 DEF n, Memories
  <2>8. InOrder(frames)
    BY <1>1, <2>2, SlidInOrder
  <2>9. /\ \A i \in DOMAIN frames :
              frames[i] = f \/ \E k \in DOMAIN memory.frames : frames[i] = memory.frames[k]
        /\ \A i \in DOMAIN poses :
              poses[i] = f \/ \E k \in DOMAIN memory.poses : poses[i] = memory.poses[k]
    BY <1>1, <2>2, SlidElements
  <2>10. Remembers(m, memory, f) /\ Remembers(n, memory, f)
    BY <2>4, <2>6, <2>7, <2>8, <2>9 DEF Remembers
  <2> DEFINE shown == MovlaContext(memory.frames, f)
  <2>11. /\ GoodContext(shown, f, FALSE)
         /\ \A i \in DOMAIN shown :
               shown[i] = f \/ \E k \in DOMAIN memory.frames : shown[i] = memory.frames[k]
    BY <1>1, MovlaShows
  <2>12. done.memory = n /\ done.failed = m /\ done.context = shown
    BY <2>4, <2>5
  <2> HIDE DEF shown
  <2> HIDE DEF done
  <2>13. kind \notin {"navida", "navila"}
    BY <1>4
  <2>14. GoodContext(done.context, f, kind \in {"navida", "navila"})
    BY <2>11, <2>12, <2>13 DEF GoodContext, Ordered
  <2> QED
    BY <2>10, <2>11, <2>12, <2>13, <2>14 DEF GoodInference, done
<1>5. CASE kind = "omnivla_edge"
  <2> DEFINE ring == PushFrame(memory.frames, f)
             m == [memory EXCEPT !.frames = ring]
             done == Infer(kind, memory, previous, f)
  <2>1. ring \in Seq(Frames) /\ Slid(memory.frames, ring, f)
    BY <1>1, PushSlides
  <2>2. done = Remembered(m, StackFrames(m.frames))
    BY <1>5 DEF Infer, EdgeInfer
  <2> HIDE DEF ring
  <2>3. m \in Memories /\ m.frames = ring /\ m.poses = memory.poses
    BY <1>1, <2>1 DEF Memories
  <2> HIDE DEF m
  <2>4. InOrder(ring)
    BY <1>1, <2>1, SlidInOrder
  <2>5. \A i \in DOMAIN ring :
           ring[i] = f \/ \E k \in DOMAIN memory.frames : ring[i] = memory.frames[k]
    BY <1>1, <2>1, SlidElements
  <2>6. Remembers(m, memory, f)
    BY <2>3, <2>4, <2>5 DEF Remembers
  <2>7. Len(ring) > 0 /\ ring[Len(ring)] = f
    BY <2>1 DEF Slid
  <2>8. GoodContext(StackFrames(ring), f, FALSE) /\ Shows(StackFrames(ring), ring)
    BY <2>1, <2>4, <2>7, StackShows
  <2>9. done.memory = m /\ done.failed = m /\ done.context = StackFrames(ring)
    BY <2>2, <2>3 DEF Remembered
  <2> HIDE DEF done
  <2>10. \A i \in DOMAIN done.context :
            \/ done.context[i] \in {None, f, previous}
            \/ \E k \in DOMAIN memory.frames : done.context[i] = memory.frames[k]
    BY <2>5, <2>8, <2>9 DEF Shows
  <2>11. kind \notin {"navida", "navila"}
    BY <1>5
  <2>12. GoodContext(done.context, f, kind \in {"navida", "navila"})
    BY <2>8, <2>9, <2>11 DEF GoodContext, Ordered
  <2> QED
    BY <2>6, <2>9, <2>10, <2>11, <2>12 DEF GoodInference, done
<1>6. CASE kind \notin {"navida", "navila", "movla", "omnivla_edge"}
  <2> DEFINE e == IF previous = None THEN f ELSE previous
             shown == <<e, f>>
             done == Infer(kind, memory, previous, f)
  <2>1. done = Remembered(memory, shown)
    BY <1>6 DEF Infer, PairInfer
  <2>2. done.memory = memory /\ done.failed = memory /\ done.context = shown
    BY <2>1 DEF Remembered
  <2>3. e \in Frames /\ e \in {f, previous} /\ (e = f \/ Earlier(e, f))
    OBVIOUS
  <2> HIDE DEF done, e
  <2>4. /\ shown \in Seq(Frames \cup {None}) /\ Len(shown) = 2 /\ DOMAIN shown = 1 .. 2
        /\ shown[1] = e /\ shown[2] = f
    BY <2>3
  <2> HIDE DEF shown
  <2>5. \A i \in DOMAIN shown : i = 1 \/ i = 2
    BY <2>4
  <2>6. Len(shown) > 0 /\ Last(shown) = f
    BY <2>4 DEF Last
  <2>7. (\A i \in DOMAIN shown : shown[i] \in {None, f}) \/ Ordered(shown, FALSE)
    <3>1. CASE e = f
      BY <2>4, <2>5, <3>1
    <3>2. CASE Earlier(e, f)
      BY <2>4, <2>5, <3>2 DEF Ordered, Earlier
    <3> QED
      BY <2>3, <3>1, <3>2
  <2>8. kind \notin {"navida", "navila"}
    BY <1>6
  <2>9. GoodContext(shown, f, kind \in {"navida", "navila"})
    BY <2>4, <2>6, <2>7, <2>8 DEF GoodContext, Ordered
  <2>10. Remembers(memory, memory, f)
    BY DEF Remembers
  <2>11. \A i \in DOMAIN shown : shown[i] \in {None, f, previous}
    BY <2>3, <2>4, <2>5
  <2> QED
    BY <2>2, <2>8, <2>9, <2>10, <2>11 DEF GoodInference, done
<1> QED
  BY <1>2, <1>3, <1>4, <1>5, <1>6

LEMMA MotionIs ==
    ASSUME NEW kind, NEW memory \in Memories
    PROVE  /\ Motion(kind, memory) \in Seq(Frames)
           /\ \A i \in DOMAIN Motion(kind, memory) :
                 \E k \in DOMAIN memory.poses : Motion(kind, memory)[i] = memory.poses[k]
<1>1. memory.poses \in Seq(Frames)
  BY DEF Memories
<1>2. <<>> \in Seq(Frames) /\ DOMAIN <<>> = {}
  BY EmptySeq
<1>3. CASE kind = "movla"
  BY <1>1, <1>3 DEF Motion
<1>4. CASE kind # "movla"
  BY <1>2, <1>4 DEF Motion
<1> QED
  BY <1>3, <1>4

(***************************************************************************)
(* Steps, as seen by the server: its queue and what it remembers.          *)
(***************************************************************************)

LEMMA State ==
    ASSUME Typed
    PROVE  /\ Len(queue) \in Nat /\ DOMAIN queue = 1 .. Len(queue)
           /\ \A i \in DOMAIN queue : queue[i] \in Requests
           /\ \A c \in Clients : client[c] \in Sender
           /\ Serving => /\ server \in Servers /\ server.memory \in Memories
                         /\ server.job \in Jobs /\ server.usable \in BOOLEAN
                         /\ server.previous \in Frames \cup {None}
                         /\ server.memory.frames \in Seq(Frames)
                         /\ server.memory.poses \in Seq(Frames)
                         /\ DOMAIN server.memory.frames = 1 .. Len(server.memory.frames)
<1>1. /\ Len(queue) \in Nat /\ DOMAIN queue = 1 .. Len(queue)
      /\ \A i \in DOMAIN queue : queue[i] \in Requests
  BY LenProperties, ElementOfSeq DEF Typed
<1>2. \A c \in Clients : client[c] \in Sender
  BY DEF Typed
<1>3. Serving => server \in Servers
  BY DEF Typed, Serving
<1>4. Serving => /\ server.memory \in Memories
                 /\ server.job \in Jobs /\ server.usable \in BOOLEAN
                 /\ server.previous \in Frames \cup {None}
  BY <1>3 DEF Servers
<1>5. Serving => /\ server.memory.frames \in Seq(Frames)
                 /\ server.memory.poses \in Seq(Frames)
  BY <1>4 DEF Memories
<1> QED
  BY <1>1, <1>2, <1>3, <1>4, <1>5, LenProperties

\* A frame that the server has, or that it is about to get.
Known(off, f) ==
    \/ Serving /\ \E i \in DOMAIN server.memory.frames : f = server.memory.frames[i]
    \/ Serving /\ server.previous # None /\ f = server.previous
    \/ off = 1 /\ 1 \in DOMAIN queue /\ Infers(1) /\ f = queue[1].frame

LEMMA KnownIsEarlier ==
    ASSUME Typed, FramesInOrder, NEW off \in {0, 1}, NEW f, Known(off, f),
           NEW k \in DOMAIN queue, k > off, Infers(k)
    PROVE  Earlier(f, queue[k].frame)
BY State DEF FramesInOrder, Known

\* No client falls back before what it has sent.
ClientsGoOn ==
    \A c \in Clients :
        /\ client'[c].pc \in {"off", "start", "reset"} => client[c].pc \in {"off", "start", "reset"}
        /\ client'[c].pc \in {"off", "start"} => client[c].pc \in {"off", "start"}
        /\ client'[c].pc = "run" => \/ client[c].pc \in {"off", "start", "reset"}
                                    \/ client[c].pc = "run" /\ client[c].sent <= client'[c].sent

\* What is in the queue was there before, but for the first request perhaps.
QueueGoesOn(off) ==
    /\ queue' \in Seq(Requests)
    /\ \A k \in DOMAIN queue' :
          /\ k \in Nat /\ k > 0 /\ k + off \in DOMAIN queue
          /\ queue'[k].kind = queue[k + off].kind /\ queue'[k].by = queue[k + off].by
          /\ queue'[k].frame = queue[k + off].frame

MemoryGoesOn(off) ==
    Serving' => /\ InOrder(server'.memory.frames)
                /\ \A i \in DOMAIN server'.memory.frames : Known(off, server'.memory.frames[i])
                /\ server'.previous # None => Known(off, server'.previous)

LEMMA SentGoesOn ==
    ASSUME Typed, ClientsGoOn, NEW c \in Clients, NEW f \in Frames,
           client'[c] \in Sender,
           client[c].pc \notin {"off", "start", "reset"},
           client[c].pc = "run" => f.number < client[c].sent
    PROVE  /\ client'[c].pc \notin {"off", "start", "reset"}
           /\ client'[c].pc = "run" => f.number < client'[c].sent
<1>1. f.number \in Nat /\ client[c].sent \in Nat /\ client'[c].sent \in Nat
  BY State DEF Frames, Sender
<1> QED
  BY <1>1 DEF ClientsGoOn

LEMMA ServerGoesOn ==
    ASSUME Typed, Typed', RequestsOwn, FramesSent, FramesInOrder, NEW off \in {0, 1},
           ClientsGoOn, QueueGoesOn(off), MemoryGoesOn(off)
    PROVE  RequestsOwn' /\ FramesSent' /\ FramesInOrder'
<1>1. RequestsOwn'
  BY DEF RequestsOwn, QueueGoesOn, Infers
<1>2. FramesInOrder'
  <2>1. ASSUME NEW i \in DOMAIN queue', NEW k \in DOMAIN queue', i < k, Infers(i)', Infers(k)'
        PROVE  Earlier(queue'[i].frame, queue'[k].frame)
    <3>1. /\ i + off \in DOMAIN queue /\ k + off \in DOMAIN queue /\ i + off < k + off
          /\ Infers(i + off) /\ Infers(k + off)
          /\ queue'[i].frame = queue[i + off].frame /\ queue'[k].frame = queue[k + off].frame
      BY <2>1 DEF QueueGoesOn, Infers
    <3> QED
      BY <3>1 DEF FramesInOrder
  <2>2. ASSUME Serving', NEW k \in DOMAIN queue', Infers(k)', NEW f, Known(off, f)
        PROVE  Earlier(f, queue'[k].frame)
    <3>1. /\ k + off \in DOMAIN queue /\ k + off > off /\ Infers(k + off)
          /\ queue'[k].frame = queue[k + off].frame
      BY <2>2 DEF QueueGoesOn, Infers
    <3> QED
      BY <2>2, <3>1, KnownIsEarlier
  <2> QED
    BY <2>1, <2>2 DEF FramesInOrder, MemoryGoesOn
<1>3. ASSUME NEW c \in Clients, NEW f \in Frames, Known(off, f), f.by = c
      PROVE  /\ client[c].pc \notin {"off", "start", "reset"}
             /\ client[c].pc = "run" => f.number < client[c].sent
  BY <1>3 DEF Known, FramesSent, RequestsOwn
<1>4. FramesSent'
  <2> SUFFICES ASSUME NEW c \in Clients
               PROVE  LET known(f) == /\ client'[c].pc \notin {"off", "start", "reset"}
                                      /\ client'[c].pc = "run" => f.number < client'[c].sent
                      IN  /\ \A i \in DOMAIN queue' :
                                Infers(i)' /\ queue'[i].by = c => known(queue'[i].frame)
                          /\ Serving' =>
                               /\ \A i \in DOMAIN server'.memory.frames :
                                     server'.memory.frames[i].by = c
                                         => known(server'.memory.frames[i])
                               /\ server'.previous # None /\ server'.previous.by = c
                                     => known(server'.previous)
                          /\ client'[c].pc \in {"off", "start"} =>
                                \A i \in DOMAIN queue' : queue'[i].by # c
    BY DEF FramesSent
  <2>1. client'[c] \in Sender
    BY DEF Typed
  <2>2. ASSUME NEW i \in DOMAIN queue', Infers(i)', queue'[i].by = c
        PROVE  /\ client'[c].pc \notin {"off", "start", "reset"}
               /\ client'[c].pc = "run" => queue'[i].frame.number < client'[c].sent
    <3>1. /\ i + off \in DOMAIN queue /\ Infers(i + off) /\ queue[i + off].by = c
          /\ queue'[i].frame = queue[i + off].frame
      BY <2>2 DEF QueueGoesOn, Infers
    <3>2. /\ queue[i + off].frame \in Frames
          /\ client[c].pc \notin {"off", "start", "reset"}
          /\ client[c].pc = "run" => queue[i + off].frame.number < client[c].sent
      BY <3>1 DEF RequestsOwn, FramesSent
    <3> QED
      BY <2>1, <3>1, <3>2, SentGoesOn
  <2>3. ASSUME Serving', NEW f \in Frames, Known(off, f), f.by = c
        PROVE  /\ client'[c].pc \notin {"off", "start", "reset"}
               /\ client'[c].pc = "run" => f.number < client'[c].sent
    BY <1>3, <2>1, <2>3, SentGoesOn
  <2>4. Serving' => /\ \A i \in DOMAIN server'.memory.frames : server'.memory.frames[i] \in Frames
                    /\ server'.previous \in Frames \cup {None}
    <3>1. Serving' => server' \in Servers
      BY DEF Typed, Serving
    <3>2. Serving' => server'.previous \in Frames \cup {None} /\ server'.memory.frames \in Seq(Frames)
      BY <3>1 DEF Servers, Memories
    <3> QED
      BY <3>2, LenProperties, ElementOfSeq
  <2>5. client'[c].pc \in {"off", "start"} => \A i \in DOMAIN queue' : queue'[i].by # c
    BY DEF ClientsGoOn, QueueGoesOn, FramesSent
  <2> QED
    BY <2>2, <2>3, <2>4, <2>5 DEF MemoryGoesOn
<1> QED
  BY <1>1, <1>2, <1>4

\* The request of a client comes to the queue: a frame has the client's next number.
LEMMA RequestComes ==
    ASSUME Typed, Typed', RequestsOwn, FramesSent, FramesInOrder, ClientsGoOn,
           NEW r \in Requests, queue' = Append(queue, r), server' = server,
           client'[r.by].pc \notin {"off", "start"},
           r.kind = "infer" => /\ r.frame \in Frames /\ r.frame.by = r.by
                               /\ r.frame.number = client[r.by].sent
                               /\ client[r.by].pc = "run" /\ client'[r.by].pc = "run"
                               /\ client'[r.by].sent = client[r.by].sent + 1
    PROVE  RequestsOwn' /\ FramesSent' /\ FramesInOrder'
<1> DEFINE n == Len(queue) + 1
<1>1. /\ DOMAIN queue' = 1 .. n /\ n \in Nat /\ queue'[n] = r
      /\ \A i \in DOMAIN queue : queue'[i] = queue[i]
      /\ DOMAIN queue = 1 .. n - 1
  <2>1. queue \in Seq(Requests) /\ Len(queue) \in Nat /\ DOMAIN queue = 1 .. Len(queue)
    BY State DEF Typed
  <2>2. /\ Append(queue, r) \in Seq(Requests) /\ Len(Append(queue, r)) = n
        /\ Append(queue, r)[n] = r /\ \A i \in 1 .. Len(queue) : Append(queue, r)[i] = queue[i]
    BY <2>1, AppendProperties
  <2>3. DOMAIN Append(queue, r) = 1 .. n
    BY <2>2, LenProperties
  <2> QED
    BY <2>1, <2>2, <2>3
<1> HIDE DEF n
<1>2. \A i \in DOMAIN queue' : i = n \/ i \in DOMAIN queue
  BY <1>1
<1>3. \A i \in DOMAIN queue : i # n
  BY <1>1
<1>4. Serving' = Serving /\ r.by \in Clients
  BY DEF Serving, Requests
<1>5. RequestsOwn'
  BY <1>1, <1>2 DEF RequestsOwn, Infers
\* What the client has sent before has a smaller number.
<1>6. ASSUME r.kind = "infer", NEW f, f.by = r.by, f.number < client[r.by].sent
      PROVE  Earlier(f, r.frame)
  BY <1>6 DEF Earlier
<1>7. FramesInOrder'
  <2>1. ASSUME NEW i \in DOMAIN queue', NEW k \in DOMAIN queue', i < k, Infers(i)', Infers(k)'
        PROVE  Earlier(queue'[i].frame, queue'[k].frame)
    <3>1. i \in DOMAIN queue /\ queue'[i] = queue[i] /\ Infers(i)
      BY <1>1, <1>2, <2>1 DEF Infers
    <3>2. CASE k = n
      <4>1. r.kind = "infer" /\ queue'[k].frame = r.frame
        BY <1>1, <2>1, <3>2 DEF Infers
      <4>2. queue[i].frame.by = r.by => queue[i].frame.number < client[r.by].sent
        BY <1>4, <3>1, <4>1 DEF RequestsOwn, FramesSent
      <4> QED
        BY <3>1, <4>1, <4>2 DEF Earlier
    <3>3. CASE k # n
      <4>1. k \in DOMAIN queue /\ queue'[k] = queue[k] /\ Infers(k)
        BY <1>1, <1>2, <2>1, <3>3 DEF Infers
      <4> QED
        BY <2>1, <3>1, <4>1 DEF FramesInOrder
    <3> QED
      BY <3>2, <3>3
  <2>2. ASSUME Serving, NEW k \in DOMAIN queue', Infers(k)', NEW f, Known(0, f)
        PROVE  Earlier(f, queue'[k].frame)
    <3>1. CASE k = n
      <4>1. r.kind = "infer" /\ queue'[k].frame = r.frame
        BY <1>1, <2>2, <3>1 DEF Infers
      <4>2. f.by = r.by => f.number < client[r.by].sent
        BY <1>4, <2>2, <4>1 DEF Known, FramesSent
      <4> QED
        BY <4>1, <4>2 DEF Earlier
    <3>2. CASE k # n
      <4>1. k \in DOMAIN queue /\ queue'[k] = queue[k] /\ Infers(k) /\ k > 0
        BY <1>1, <1>2, <2>2, <3>2 DEF Infers
      <4> QED
        BY <2>2, <4>1, KnownIsEarlier
    <3> QED
      BY <3>1, <3>2
  <2>3. Serving => /\ \A i \in DOMAIN server.memory.frames : Known(0, server.memory.frames[i])
                   /\ server.previous # None => Known(0, server.previous)
    BY DEF Known
  <2> QED
    BY <1>4, <2>1, <2>2, <2>3 DEF FramesInOrder
<1>8. FramesSent'
  <2> SUFFICES ASSUME NEW c \in Clients
               PROVE  LET known(f) == /\ client'[c].pc \notin {"off", "start", "reset"}
                                      /\ client'[c].pc = "run" => f.number < client'[c].sent
                      IN  /\ \A i \in DOMAIN queue' :
                                Infers(i)' /\ queue'[i].by = c => known(queue'[i].frame)
                          /\ Serving =>
                               /\ \A i \in DOMAIN server.memory.frames :
                                     server.memory.frames[i].by = c
                                         => known(server.memory.frames[i])
                               /\ server.previous # None /\ server.previous.by = c
                                     => known(server.previous)
                          /\ client'[c].pc \in {"off", "start"} =>
                                \A i \in DOMAIN queue' : queue'[i].by # c
    BY <1>4 DEF FramesSent
  <2>1. client'[c] \in Sender
    BY DEF Typed
  <2>2. ASSUME NEW i \in DOMAIN queue', Infers(i)', queue'[i].by = c
        PROVE  /\ client'[c].pc \notin {"off", "start", "reset"}
               /\ client'[c].pc = "run" => queue'[i].frame.number < client'[c].sent
    <3>1. CASE i = n
      <4>1. r.kind = "infer" /\ r.by = c /\ queue'[i].frame = r.frame
        BY <1>1, <2>2, <3>1 DEF Infers
      <4>2. client[c].sent \in Nat
        BY State DEF Sender
      <4> QED
        BY <4>1, <4>2
    <3>2. CASE i # n
      <4>1. i \in DOMAIN queue /\ queue'[i] = queue[i] /\ Infers(i)
        BY <1>1, <1>2, <2>2, <3>2 DEF Infers
      <4>2. /\ queue[i].frame \in Frames
            /\ client[c].pc \notin {"off", "start", "reset"}
            /\ client[c].pc = "run" => queue[i].frame.number < client[c].sent
        BY <2>2, <4>1 DEF RequestsOwn, FramesSent
      <4> QED
        BY <2>1, <4>1, <4>2, SentGoesOn
    <3> QED
      BY <3>1, <3>2
  <2>3. ASSUME Serving, NEW f \in Frames, Known(0, f), f.by = c
        PROVE  /\ client'[c].pc \notin {"off", "start", "reset"}
               /\ client'[c].pc = "run" => f.number < client'[c].sent
    <3>1. /\ client[c].pc \notin {"off", "start", "reset"}
          /\ client[c].pc = "run" => f.number < client[c].sent
      BY <2>3 DEF Known, FramesSent
    <3> QED
      BY <2>1, <2>3, <3>1, SentGoesOn
  <2>4. Serving => /\ \A i \in DOMAIN server.memory.frames :
                         server.memory.frames[i] \in Frames /\ Known(0, server.memory.frames[i])
                   /\ server.previous # None => server.previous \in Frames /\ Known(0, server.previous)
    BY State, ElementOfSeq DEF Known
  <2>5. ASSUME client'[c].pc \in {"off", "start"}, NEW i \in DOMAIN queue'
        PROVE  queue'[i].by # c
    <3>1. r.by # c
      BY <2>5
    <3>2. client[c].pc \in {"off", "start"}
      BY <2>5 DEF ClientsGoOn
    <3> QED
      BY <1>1, <1>2, <3>1, <3>2 DEF FramesSent
  <2> QED
    BY <2>2, <2>3, <2>4, <2>5
<1> QED
  BY <1>5, <1>7, <1>8

(***************************************************************************)
(* Steps of a server that answers its oldest request.                      *)
(***************************************************************************)

Told == {None, Waiting, Ack, Dropped, Rejected} \cup Answers

LEMMA AnswerIs ==
    ASSUME NEW x \in Told, x # None, x.kind = "answer"
    PROVE  x \in Answers
BY DEF Told, Waiting, Ack, Dropped, Rejected

LEMMA Oldest ==
    ASSUME Typed, queue # <<>>
    PROVE  /\ 1 \in DOMAIN queue /\ Head(queue) = queue[1] /\ Head(queue) \in Requests
           /\ Tail(queue) \in Seq(Requests) /\ Len(Tail(queue)) = Len(queue) - 1
           /\ DOMAIN Tail(queue) = 1 .. Len(queue) - 1
           /\ \A k \in DOMAIN Tail(queue) : k + 1 \in DOMAIN queue /\ Tail(queue)[k] = queue[k + 1]
<1>1. queue \in Seq(Requests) /\ Len(queue) \in Nat /\ DOMAIN queue = 1 .. Len(queue)
  BY State DEF Typed
<1>2. Len(queue) # 0
  BY <1>1, EmptySeq
<1>3. /\ Head(queue) = queue[1] /\ Head(queue) \in Requests
      /\ Tail(queue) \in Seq(Requests) /\ Len(Tail(queue)) = Len(queue) - 1
      /\ \A k \in 1 .. Len(Tail(queue)) : Tail(queue)[k] = queue[k + 1]
  BY <1>1, <1>2, HeadTailProperties
<1>4. DOMAIN Tail(queue) = 1 .. Len(Tail(queue))
  BY <1>3, LenProperties
<1> QED
  BY <1>1, <1>2, <1>3, <1>4

\* What the answer to a frame was computed from.
Answered(a, f) ==
    /\ a \in Answers /\ a.job = server.job /\ a.version = Backend
    /\ GoodContext(a.context, f, Backend \in {"navida", "navila"})
    /\ \A i \in DOMAIN a.context :
          \/ a.context[i] \in {None, f, server.previous}
          \/ \E k \in DOMAIN server.memory.frames : a.context[i] = server.memory.frames[k]
    /\ \A i \in DOMAIN a.motion :
          a.motion[i] = f \/ \E k \in DOMAIN server.memory.poses : a.motion[i] = server.memory.poses[k]
    /\ Backend \in {"navida", "navila"} /\ SameText(server.memory) =>
          \A i \in DOMAIN a.context : a.context[i] = None \/ a.context[i].text = f.text

\* What a request may change: the one who asked is told, and the server remembers
\* the frame, or forgets.
Keeps(new, old, r) ==
    /\ new \in Memories /\ InOrder(new.frames)
    /\ \A i \in DOMAIN new.frames :
          \/ r.kind = "infer" /\ new.frames[i] = r.frame
          \/ \E k \in DOMAIN old.frames : new.frames[i] = old.frames[k]
    /\ \A i \in DOMAIN new.poses :
          \/ r.kind = "infer" /\ new.poses[i] = r.frame
          \/ \E k \in DOMAIN old.poses : new.poses[i] = old.poses[k]
Tells(r) ==
    /\ replies' \in [Clients -> Told]
    /\ \A c \in Clients :
          \/ replies'[c] = replies[c]
          \/ /\ c = r.by /\ r.awaited
             /\ r.kind = "infer" => replies'[c] # Ack
             /\ IsAnswer(c)' => r.kind = "infer" /\ Answered(replies'[c], r.frame)
Served(r) ==
    /\ jobs' = jobs /\ queue' = Tail(queue)
    /\ server' \in Servers /\ server'.job = server.job
    /\ Keeps(server'.memory, server.memory, r)
    /\ \/ server'.previous \in {None, server.previous}
       \/ r.kind = "infer" /\ server'.previous = r.frame
    /\ Backend \in {"navida", "navila"} /\ SameText(server.memory) => SameText(server'.memory)
    /\ r.kind = "reset" => /\ DOMAIN server'.memory.frames = {}
                           /\ DOMAIN server'.memory.poses = {}
                           /\ server'.previous = None
    /\ Tells(r)

LEMMA AnswerTells ==
    ASSUME Typed, NEW r \in Requests, NEW a \in Told, Answer(r, a),
           r.kind = "infer" => a # Ack,
           a.kind = "answer" => r.kind = "infer" /\ Answered(a, r.frame)
    PROVE  Tells(r)
<1>1. r.by \in Clients /\ r.awaited \in BOOLEAN
  BY DEF Requests
<1>2. replies \in [Clients -> Told]
  BY DEF Typed, Told
<1>3. CASE r.awaited
  <2>1. replies' = [replies EXCEPT ![r.by] = a]
    BY <1>3 DEF Answer
  <2> QED
    BY <1>1, <1>2, <1>3, <2>1 DEF Tells, IsAnswer
<1>4. CASE ~r.awaited
  BY <1>2, <1>4 DEF Tells, Answer
<1> QED
  BY <1>3, <1>4

LEMMA ResetServed ==
    ASSUME Typed, Serving, queue # <<>>, ServeReset(Head(queue))
    PROVE  Served(Head(queue))
<1> DEFINE r == Head(queue)
<1>1. r \in Requests /\ r.kind = "reset" /\ server \in Servers
  BY Oldest, State DEF ServeReset
<1>2. /\ <<>> \in Seq(Frames) /\ DOMAIN <<>> = {}
      /\ NewMemory.frames = <<>> /\ NewMemory.poses = <<>>
      /\ NewMemory = [frames |-> <<>>, text |-> "", poses |-> <<>>]
  BY EmptySeq DEF NewMemory
<1>3. NewMemory \in Memories
  BY <1>2 DEF Memories
<1>4. InOrder(NewMemory.frames) /\ SameText(NewMemory) /\ Keeps(NewMemory, server.memory, r)
  BY <1>2, <1>3 DEF InOrder, SameText, Keeps
<1>5. PICK a \in {Ack, Dropped} :
        /\ Answer(r, a) /\ jobs' = jobs
        /\ \/ server' = [server EXCEPT !.memory = NewMemory, !.previous = None]
           \/ server' = [server EXCEPT !.usable = FALSE, !.memory = NewMemory, !.previous = None]
  BY DEF ServeReset
<1>6. /\ server' \in Servers /\ server'.job = server.job
      /\ server'.memory = NewMemory /\ server'.previous = None
  BY <1>1, <1>3, <1>5 DEF Servers
<1>7. Tells(r)
  <2>1. a \in Told /\ a.kind # "answer" /\ (r.kind = "infer" => a # Ack)
    BY <1>1 DEF Told, Ack, Dropped
  <2> QED
    BY <1>1, <1>5, <2>1, AnswerTells
<1>8. queue' = Tail(queue)
  BY <1>5 DEF Answer
<1> QED
  BY <1>1, <1>2, <1>4, <1>5, <1>6, <1>7, <1>8 DEF Served

LEMMA InferServed ==
    ASSUME Typed, RequestsOwn, FramesInOrder, JobsOwn,
           Serving, queue # <<>>, ServeInfer(Head(queue))
    PROVE  Served(Head(queue))
<1> DEFINE r == Head(queue)
           f == r.frame
           done == Infer(Backend, server.memory, server.previous, f)
           answer == [kind |-> "answer", job |-> server.job, version |-> Backend,
                      context |-> done.context, motion |-> Motion(Backend, done.memory)]
<1>1. /\ r \in Requests /\ r.kind = "infer" /\ f \in Frames /\ Infers(1) /\ 1 \in DOMAIN queue
      /\ queue[1] = r /\ server \in Servers
  BY Oldest, State DEF ServeInfer, Infers, RequestsOwn
<1>2. /\ server.memory \in Memories /\ server.previous \in Frames \cup {None}
      /\ server.job \in Jobs /\ server.memory.frames \in Seq(Frames)
  BY State
<1>3. Backend \in Kinds \cup {None}
  BY <1>2 DEF Backend, Typed, Backed
<1>4. GoodInference(Backend, server.memory, server.previous, f, done)
  <2>1. /\ InOrder(server.memory.frames)
        /\ \A i \in DOMAIN server.memory.frames : Earlier(server.memory.frames[i], f)
        /\ server.previous # None => Earlier(server.previous, f)
    BY <1>1 DEF FramesInOrder
  <2> QED
    BY <1>1, <1>2, <2>1, InferIsGood
<1>5. /\ Remembers(done.memory, server.memory, f) /\ Remembers(done.failed, server.memory, f)
      /\ Backend \in {"navida", "navila"} /\ SameText(server.memory) =>
            SameText(done.memory) /\ SameText(done.failed)
  BY <1>4 DEF GoodInference
<1>6. Answered(answer, f)
  <2>1. GoodContext(answer.context, f, Backend \in {"navida", "navila"})
    BY <1>4 DEF GoodInference
  <2>2. answer.context \in Seq(Frames \cup {None})
    BY <2>1 DEF GoodContext
  <2>3. /\ done.memory \in Memories
        /\ \A i \in DOMAIN done.memory.poses :
              \/ done.memory.poses[i] = f
              \/ \E k \in DOMAIN server.memory.poses :
                    done.memory.poses[i] = server.memory.poses[k]
    BY <1>5 DEF Remembers
  <2>4. /\ answer.motion \in Seq(Frames)
        /\ \A i \in DOMAIN answer.motion :
              answer.motion[i] = f
              \/ \E k \in DOMAIN server.memory.poses : answer.motion[i] = server.memory.poses[k]
    <3>1. answer.motion = Motion(Backend, done.memory)
      OBVIOUS
    <3> HIDE DEF done, answer
    <3>2. /\ Motion(Backend, done.memory) \in Seq(Frames)
          /\ \A i \in DOMAIN Motion(Backend, done.memory) :
                \E k \in DOMAIN done.memory.poses :
                    Motion(Backend, done.memory)[i] = done.memory.poses[k]
      BY <2>3, MotionIs
    <3>3. \A i \in DOMAIN Motion(Backend, done.memory) :
              \/ Motion(Backend, done.memory)[i] = f
              \/ \E k \in DOMAIN server.memory.poses :
                    Motion(Backend, done.memory)[i] = server.memory.poses[k]
      BY <2>3, <3>2
    <3> QED
      BY <3>1, <3>2, <3>3
  <2>5. answer \in Answers /\ answer.job = server.job /\ answer.version = Backend
    BY <1>2, <1>3, <2>2, <2>4 DEF Answers
  <2>6. /\ \A i \in DOMAIN answer.context :
              \/ answer.context[i] \in {None, f, server.previous}
              \/ \E k \in DOMAIN server.memory.frames : answer.context[i] = server.memory.frames[k]
        /\ Backend \in {"navida", "navila"} /\ SameText(server.memory) =>
              \A i \in DOMAIN answer.context :
                  answer.context[i] = None \/ answer.context[i].text = f.text
    BY <1>4 DEF GoodInference
  <2> HIDE DEF answer
  <2> QED
    BY <2>1, <2>4, <2>5, <2>6 DEF Answered
<1>7. \E a \in {answer, Rejected, Dropped} :
        /\ Answer(r, a) /\ jobs' = jobs
        /\ \/ server' = server
           \/ server' = [server EXCEPT !.memory = done.memory, !.previous = f]
           \/ \E m \in {done.memory, done.failed} : server' = [server EXCEPT !.memory = m]
  <2> HIDE DEF done, answer
  <2> QED
    BY DEF ServeInfer, done, answer
<1> HIDE DEF answer, done
<1>8. PICK a \in {answer, Rejected, Dropped} :
        /\ Answer(r, a) /\ jobs' = jobs
        /\ \/ server' = server
           \/ server' = [server EXCEPT !.memory = done.memory, !.previous = f]
           \/ \E m \in {done.memory, done.failed} : server' = [server EXCEPT !.memory = m]
  BY <1>7
<1>9. Tells(r)
  <2>1. answer \in Told /\ answer.kind = "answer"
    BY <1>6 DEF Answered, Told, Answers
  <2>2. a \in Told /\ a # Ack /\ (a.kind = "answer" => a = answer)
    BY <2>1 DEF Told, Rejected, Dropped, Ack
  <2> QED
    BY <1>1, <1>6, <1>8, <2>2, AnswerTells
<1>10. \A m \in {server.memory, done.memory, done.failed} :
         /\ Keeps(m, server.memory, r)
         /\ Backend \in {"navida", "navila"} /\ SameText(server.memory) => SameText(m)
  <2>1. InOrder(server.memory.frames)
    BY DEF FramesInOrder
  <2> QED
    BY <1>1, <1>2, <1>5, <2>1 DEF Remembers, Keeps
<1>11. /\ server' \in Servers /\ server'.job = server.job
       /\ server'.memory \in {server.memory, done.memory, done.failed}
       /\ server'.previous = server.previous \/ server'.previous = f
  <2>1. done.memory \in Memories /\ done.failed \in Memories
    BY <1>5 DEF Remembers
  <2>2. CASE server' = server
    BY <1>1, <2>2
  <2>3. CASE server' = [server EXCEPT !.memory = done.memory, !.previous = f]
    BY <1>1, <2>1, <2>3 DEF Servers
  <2>4. ASSUME NEW m \in {done.memory, done.failed}, server' = [server EXCEPT !.memory = m]
        PROVE  /\ server' \in Servers /\ server'.job = server.job
               /\ server'.memory = m /\ server'.previous = server.previous
    BY <1>1, <2>1, <2>4 DEF Servers
  <2> QED
    BY <1>8, <2>2, <2>3, <2>4
<1>12. queue' = Tail(queue)
  BY <1>8 DEF Answer
<1> QED
  BY <1>1, <1>8, <1>9, <1>10, <1>11, <1>12 DEF Served

LEMMA Serves ==
    ASSUME Typed, RequestsOwn, FramesInOrder, JobsOwn, ServeNext
    PROVE  Serving /\ queue # <<>> /\ Served(Head(queue))
BY ResetServed, InferServed DEF ServeNext

(***************************************************************************)
(* What the clients are told.                                              *)
(***************************************************************************)

\* The answers of before are still there, or gone, or else new.
LEMMA InstructionStands ==
    ASSUME OneInstruction,
           \A c \in Clients : IsAnswer(c)' =>
               \/ replies'[c] = replies[c]
               \/ replies'[c].version \in {"navida", "navila"} =>
                      Cardinality({f.text : f \in Shown(c)'}) = 1
    PROVE  OneInstruction'
<1> SUFFICES ASSUME NEW c \in Clients, IsAnswer(c)', replies'[c].version \in {"navida", "navila"}
             PROVE  Cardinality({f.text : f \in Shown(c)'}) = 1
  BY DEF OneInstruction
<1>1. CASE replies'[c] = replies[c]
  <2>1. IsAnswer(c) /\ Shown(c)' = Shown(c)
    BY <1>1 DEF IsAnswer, Shown
  <2> QED
    BY <1>1, <2>1 DEF OneInstruction
<1>2. CASE replies'[c] # replies[c]
  BY <1>2
<1> QED
  BY <1>1, <1>2

InThePast(a) ==
    /\ Last(a.context) # None
    /\ \A i, k \in DOMAIN a.context :
          i < k /\ None \notin {a.context[i], a.context[k]} /\ a.context[i].by = a.context[k].by
              => IF a.version \in {"navida", "navila"} \/ k = Len(a.context)
                 THEN a.context[i].number < a.context[k].number
                 ELSE a.context[i].number <= a.context[k].number

LEMMA PastStands ==
    ASSUME PastThenPresent,
           \A c \in Clients : IsAnswer(c)' =>
               \/ replies'[c] = replies[c]
               \/ Cardinality(Shown(c)') > 1 => InThePast(replies'[c])
    PROVE  PastThenPresent'
<1>1. ASSUME NEW c \in Clients, IsAnswer(c)', Cardinality(Shown(c)') > 1
      PROVE  InThePast(replies'[c])
  <2>1. CASE replies'[c] = replies[c]
    <3>1. IsAnswer(c) /\ Shown(c)' = Shown(c)
      BY <1>1, <2>1 DEF IsAnswer, Shown
    <3> QED
      BY <1>1, <2>1, <3>1 DEF PastThenPresent, InThePast
  <2>2. CASE replies'[c] # replies[c]
    BY <1>1, <2>2
  <2> QED
    BY <2>1, <2>2
<1> QED
  BY <1>1 DEF PastThenPresent, InThePast

LEMMA AnsweredIsGood ==
    ASSUME Typed, OneText, Serving, NEW f \in Frames, NEW a, Answered(a, f),
           NEW shown, shown = {a.context[i] : i \in DOMAIN a.context} \ {None}
    PROVE  /\ a.version \in {"navida", "navila"} => Cardinality({g.text : g \in shown}) = 1
           /\ Cardinality(shown) > 1 => InThePast(a)
<1>1. /\ GoodContext(a.context, f, Backend \in {"navida", "navila"}) /\ a.version = Backend
      /\ a.context \in Seq(Frames \cup {None})
  BY DEF Answered, GoodContext
<1>2. f # None
  BY ServerAssumption
<1>3. Len(a.context) \in DOMAIN a.context /\ a.context[Len(a.context)] = f
  <2>1. Len(a.context) \in Nat /\ DOMAIN a.context = 1 .. Len(a.context)
    BY <1>1, LenProperties
  <2> QED
    BY <1>1, <2>1 DEF GoodContext, Last
<1>4. f \in shown
  BY <1>2, <1>3
<1>5. ASSUME a.version \in {"navida", "navila"} PROVE Cardinality({g.text : g \in shown}) = 1
  <2>1. SameText(server.memory)
    BY <1>1, <1>5 DEF OneText, SameText
  <2>2. \A i \in DOMAIN a.context : a.context[i] = None \/ a.context[i].text = f.text
    BY <1>1, <1>5, <2>1 DEF Answered
  <2>3. {g.text : g \in shown} = {f.text}
    BY <1>4, <2>2
  <2> QED
    BY <2>3, FS_Singleton
<1>6. ASSUME Cardinality(shown) > 1 PROVE InThePast(a)
  <2>1. CASE \A i \in DOMAIN a.context : a.context[i] \in {None, f}
    <3>1. shown = {f}
      BY <1>4, <2>1
    <3>2. Cardinality(shown) = 1
      BY <3>1, FS_Singleton
    <3> QED
      BY <1>6, <3>2
  <2>2. CASE Ordered(a.context, Backend \in {"navida", "navila"})
    BY <1>1, <1>2, <2>2 DEF Ordered, InThePast, GoodContext
  <2> QED
    BY <1>1, <2>1, <2>2 DEF GoodContext
<1> QED
  BY <1>5, <1>6

LEMMA ServedAnswers ==
    ASSUME Typed, RequestsOwn, OneText, OneInstruction, PastThenPresent,
           Serving, queue # <<>>, Served(Head(queue))
    PROVE  OneInstruction' /\ PastThenPresent'
<1> DEFINE r == Head(queue)
<1>1. r.kind = "infer" => r.frame \in Frames
  BY Oldest DEF RequestsOwn, Infers
<1>2. \A c \in Clients : IsAnswer(c)' =>
         \/ replies'[c] = replies[c]
         \/ r.kind = "infer" /\ Answered(replies'[c], r.frame)
  BY DEF Served, Tells
<1>3. ASSUME NEW c \in Clients, r.kind = "infer", Answered(replies'[c], r.frame)
      PROVE  /\ replies'[c].version \in {"navida", "navila"} =>
                   Cardinality({f.text : f \in Shown(c)'}) = 1
             /\ Cardinality(Shown(c)') > 1 => InThePast(replies'[c])
  <2>1. Shown(c)' = {replies'[c].context[i] : i \in DOMAIN replies'[c].context} \ {None}
    BY DEF Shown
  <2> QED
    BY <1>1, <1>3, <2>1, AnsweredIsGood
<1> QED
  BY <1>2, <1>3, InstructionStands, PastStands

\* Elsewhere nobody gets an answer.
NoneAnswered ==
    \A c \in Clients : IsAnswer(c)' => replies'[c] = replies[c]

LEMMA AnswersStand ==
    ASSUME OneInstruction, PastThenPresent, NoneAnswered
    PROVE  OneInstruction' /\ PastThenPresent'
BY InstructionStands, PastStands DEF NoneAnswered

LEMMA ServedTexts ==
    ASSUME OneText, Serving, Served(Head(queue))
    PROVE  OneText'
<1>1. Backend' = Backend /\ server'.memory = server'.memory
  BY DEF Served, Backend
<1> QED
  BY <1>1 DEF OneText, Served, SameText

LEMMA ServedRequests ==
    ASSUME Typed, Typed', RequestsOwn, FramesSent, FramesInOrder, UNCHANGED client,
           Serving, queue # <<>>, Served(Head(queue))
    PROVE  RequestsOwn' /\ FramesSent' /\ FramesInOrder'
<1> DEFINE r == Head(queue)
<1>1. /\ 1 \in DOMAIN queue /\ r = queue[1] /\ Tail(queue) \in Seq(Requests)
      /\ DOMAIN Tail(queue) = 1 .. Len(queue) - 1
      /\ \A k \in DOMAIN Tail(queue) : k + 1 \in DOMAIN queue /\ Tail(queue)[k] = queue[k + 1]
  BY Oldest
<1>2. QueueGoesOn(1)
  <2>1. queue' = Tail(queue) /\ Len(queue) \in Nat
    BY State DEF Served
  <2> QED
    BY <1>1, <2>1 DEF QueueGoesOn
<1>3. ClientsGoOn
  <2>1. \A c \in Clients : client[c].sent \in Nat
    BY State DEF Sender
  <2> QED
    BY <2>1 DEF ClientsGoOn
<1>4. \A f : \/ r.kind = "infer" /\ f = r.frame
             \/ \E k \in DOMAIN server.memory.frames : f = server.memory.frames[k]
             \/ server.previous # None /\ f = server.previous
             => Known(1, f)
  BY <1>1 DEF Known, Infers
<1>5. MemoryGoesOn(1)
  BY <1>4 DEF MemoryGoesOn, Served, Keeps
<1> QED
  BY <1>2, <1>3, <1>5, ServerGoesOn

(***************************************************************************)
(* What the runner's reset leaves in the server.                           *)
(***************************************************************************)

Undisturbed == "stop" \notin faults /\ client[Bridge].pc = "off"

LEMMA RunnersAre == Runners \subseteq Clients /\ Bridge \in Clients /\ Bridge \notin Runners
BY MatrixAssumption DEF Runners

LEMMA OwnStays ==
    ASSUME RunnerOwn, UNCHANGED <<server, queue, replies>>,
           Undisturbed' => Undisturbed,
           \A c \in Runners : client'[c].pc \in {"reset", "run"} => client'[c].pc = client[c].pc
    PROVE  RunnerOwn'
<1> SUFFICES ASSUME Undisturbed', NEW c \in Runners
             PROVE  /\ client'[c].pc = "reset" => ResetStands(c)'
                    /\ client'[c].pc = "run" =>
                          /\ Own(c)'
                          /\ IsAnswer(c)' => \A f \in Shown(c)' \cup Felt(c)' : f.by = c
  BY DEF RunnerOwn, Undisturbed
<1>1. /\ client[c].pc = "reset" => ResetStands(c)
      /\ client[c].pc = "run" =>
            Own(c) /\ (IsAnswer(c) => \A f \in Shown(c) \cup Felt(c) : f.by = c)
  BY DEF RunnerOwn, Undisturbed
<1>2. /\ ResetStands(c)' = ResetStands(c) /\ Own(c)' = Own(c)
      /\ IsAnswer(c)' = IsAnswer(c) /\ Shown(c)' = Shown(c) /\ Felt(c)' = Felt(c)
  <2>1. server' = server /\ queue' = queue /\ replies' = replies
    OBVIOUS
  <2> QED
    BY <2>1 DEF ResetStands, ResetWaits, Own, IsAnswer, Shown, Felt, Serving
<1> QED
  BY <1>1, <1>2

LEMMA ServedOwn ==
    ASSUME Typed, Typed', RequestsOwn, RunnerOwn, UNCHANGED <<client, faults>>,
           Serving, queue # <<>>, Served(Head(queue))
    PROVE  RunnerOwn'
<1> SUFFICES ASSUME Undisturbed', NEW c \in Runners
             PROVE  /\ client'[c].pc = "reset" => ResetStands(c)'
                    /\ client'[c].pc = "run" =>
                          /\ Own(c)'
                          /\ IsAnswer(c)' => \A f \in Shown(c)' \cup Felt(c)' : f.by = c
  BY DEF RunnerOwn, Undisturbed
<1> DEFINE r == Head(queue)
           q == Tail(queue)
<1>1. /\ client[c].pc = "reset" => ResetStands(c)
      /\ client[c].pc = "run" =>
            Own(c) /\ (IsAnswer(c) => \A f \in Shown(c) \cup Felt(c) : f.by = c)
  BY DEF RunnerOwn, Undisturbed
<1>2. /\ 1 \in DOMAIN queue /\ r = queue[1] /\ r \in Requests
      /\ q \in Seq(Requests) /\ Len(q) = Len(queue) - 1 /\ DOMAIN q = 1 .. Len(q)
      /\ \A k \in DOMAIN q : k + 1 \in DOMAIN queue /\ q[k] = queue[k + 1]
  BY Oldest
<1>3. queue' = q /\ c \in Clients /\ Len(queue) \in Nat /\ DOMAIN queue = 1 .. Len(queue)
  BY RunnersAre, State DEF Served
<1>4. r.kind = "infer" => r.frame.by = r.by
  BY <1>2 DEF RequestsOwn, Infers
<1> HIDE DEF r, q
<1>5. \/ replies'[c] = replies[c]
      \/ /\ c = r.by /\ r.awaited
         /\ r.kind = "infer" => replies'[c] # Ack
         /\ IsAnswer(c)' => r.kind = "infer" /\ Answered(replies'[c], r.frame)
  BY <1>3 DEF Served, Tells, r
<1>6. ASSUME r.kind = "reset" \/ (r.kind = "infer" /\ r.by = c /\ Own(c)),
             \A k \in DOMAIN q : q[k].by = c
      PROVE  Own(c)'
  <2>1. /\ \A i \in DOMAIN server'.memory.frames : server'.memory.frames[i].by = c
        /\ \A i \in DOMAIN server'.memory.poses : server'.memory.poses[i].by = c
        /\ server'.previous # None => server'.previous.by = c
    BY <1>4, <1>6 DEF Served, Keeps, Own, r
  <2> QED
    BY <1>3, <1>6, <2>1 DEF Own
<1>7. r.kind \in {"reset", "infer"}
  BY <1>2 DEF Requests
<1>8. ASSUME client[c].pc = "reset"
      PROVE  ResetStands(c)'
  <2>1. CASE replies[c] # Ack /\ ResetWaits(c) /\ Len(queue) = 1
    <3>1. /\ q = <<>> /\ DOMAIN q = {} /\ r.kind = "reset"
      BY <1>2, <1>3, <2>1, EmptySeq DEF ResetWaits, Last
    <3>2. Own(c)'
      BY <1>6, <3>1
    <3> QED
      BY <1>3, <3>1, <3>2 DEF ResetStands
  <2>2. CASE replies[c] # Ack /\ ResetWaits(c) /\ Len(queue) # 1
    <3>1. r.by # c /\ Len(q) # 0
      BY <1>2, <1>3, <2>2 DEF ResetWaits
    <3>2. q # <<>> /\ Last(q) = Last(queue)
      BY <1>2, <1>3, <3>1, EmptySeq DEF Last
    <3>3. \A i \in 1 .. Len(q) - 1 : q[i].by # c
      BY <1>2, <1>3, <2>2 DEF ResetWaits
    <3> QED
      BY <1>3, <1>5, <2>2, <3>1, <3>2, <3>3 DEF ResetStands, ResetWaits
  <2>3. CASE replies[c] # Ack /\ \A i \in DOMAIN queue : queue[i].by # c
    BY <1>2, <1>3, <1>5, <2>3 DEF ResetStands
  <2> QED
    BY <1>1, <1>8, <2>1, <2>2, <2>3 DEF ResetStands
<1>9. ASSUME client[c].pc = "run"
      PROVE  Own(c)' /\ (IsAnswer(c)' => \A f \in Shown(c)' \cup Felt(c)' : f.by = c)
  <2>1. Own(c) /\ r.by = c /\ \A k \in DOMAIN q : q[k].by = c
    BY <1>1, <1>2, <1>9 DEF Own
  <2>2. Own(c)'
    BY <1>6, <1>7, <2>1
  <2>3. ASSUME IsAnswer(c)', replies'[c] = replies[c]
        PROVE  \A f \in Shown(c)' \cup Felt(c)' : f.by = c
    <3>1. IsAnswer(c) /\ Shown(c)' = Shown(c) /\ Felt(c)' = Felt(c)
      BY <2>3 DEF IsAnswer, Shown, Felt
    <3> QED
      BY <1>1, <1>9, <3>1
  <2>4. ASSUME r.kind = "infer", Answered(replies'[c], r.frame)
        PROVE  \A f \in Shown(c)' \cup Felt(c)' : f.by = c
    <3>1. /\ \A i \in DOMAIN server.memory.frames : server.memory.frames[i].by = c
          /\ \A i \in DOMAIN server.memory.poses : server.memory.poses[i].by = c
          /\ server.previous # None => server.previous.by = c
      BY <2>1 DEF Own
    <3>2. r.frame.by = c
      BY <1>4, <2>1, <2>4
    <3>3. /\ \A i \in DOMAIN replies'[c].context :
                replies'[c].context[i] # None => replies'[c].context[i].by = c
          /\ \A i \in DOMAIN replies'[c].motion : replies'[c].motion[i].by = c
      BY <2>4, <3>1, <3>2 DEF Answered
    <3> QED
      BY <3>3 DEF Shown, Felt
  <2> QED
    BY <1>5, <2>2, <2>3, <2>4
<1> QED
  BY <1>8, <1>9

LEMMA BindOwn ==
    ASSUME Typed, RunnerOwn, UNCHANGED <<client, faults>>, NEW j \in Jobs, Bind(j)
    PROVE  RunnerOwn'
<1>1. CASE server' = server
  <2>1. UNCHANGED <<server, queue, replies>>
    BY <1>1 DEF Bind
  <2> QED
    BY <2>1, OwnStays DEF Undisturbed
<1>2. CASE server' # server
  <2>1. /\ server' = [job |-> j, usable |-> TRUE, memory |-> NewMemory, previous |-> None]
        /\ queue' = queue /\ replies' = replies
    BY <1>2 DEF Bind
  <2>2. /\ NewMemory.frames = <<>> /\ NewMemory.poses = <<>> /\ DOMAIN <<>> = {}
    BY EmptySeq DEF NewMemory
  <2>3. /\ server'.memory = NewMemory /\ server'.previous = None
    BY <2>1
  <2>4. ASSUME NEW c \in Runners
        PROVE  /\ Own(c) => Own(c)'
               /\ ResetStands(c) => ResetStands(c)'
               /\ IsAnswer(c)' = IsAnswer(c) /\ Shown(c)' = Shown(c) /\ Felt(c)' = Felt(c)
    <3>1. Own(c) => Own(c)'
      BY <2>1, <2>2, <2>3 DEF Own
    <3> QED
      BY <2>1, <3>1 DEF ResetStands, ResetWaits, IsAnswer, Shown, Felt
  <2> QED
    BY <2>4 DEF RunnerOwn
<1> QED
  BY <1>1, <1>2

LEMMA EndJobOwn ==
    ASSUME Typed, RunnerOwn, UNCHANGED client, faults \subseteq faults', NEW j \in Jobs, EndJob(j)
    PROVE  RunnerOwn'
<1>1. CASE UNCHANGED <<server, queue, replies>>
  BY <1>1, OwnStays DEF Undisturbed
<1>2. CASE ~UNCHANGED <<server, queue, replies>>
  <2>1. /\ server' = None /\ queue' = <<>>
        /\ replies' = [c \in Clients |-> IF replies[c] = Waiting THEN Dropped ELSE replies[c]]
    BY <1>2 DEF EndJob
  <2>2. ~Serving' /\ DOMAIN queue' = {}
    BY <2>1, EmptySeq DEF Serving
  <2>3. ASSUME NEW c \in Runners
        PROVE  /\ Own(c)'
               /\ ResetStands(c)'
               /\ IsAnswer(c)' => /\ IsAnswer(c)
                                  /\ Shown(c)' = Shown(c) /\ Felt(c)' = Felt(c)
    <3>1. Own(c)'
      BY <2>2 DEF Own
    <3>2. ResetStands(c)'
      BY <2>1, <2>2, <3>1 DEF ResetStands
    <3>3. replies'[c] = replies[c] \/ replies'[c] = Dropped
      BY <2>1, RunnersAre
    <3>4. IsAnswer(c)' => replies'[c] = replies[c]
      BY <3>3 DEF IsAnswer, Dropped
    <3> QED
      BY <3>1, <3>2, <3>4 DEF IsAnswer, Shown, Felt
  <2>4. Undisturbed' => Undisturbed
    BY DEF Undisturbed
  <2> QED
    BY <2>3, <2>4 DEF RunnerOwn, Undisturbed
<1> QED
  BY <1>1, <1>2

(***************************************************************************)
(* Steps of the clients.                                                   *)
(***************************************************************************)

LEMMA PlanIs ==
    ASSUME plan \in Plans
    PROVE  /\ plan.episodes \in Nat \ {0} /\ plan.runs \in Nat \ {0} /\ plan.frames \in Nat \ {0}
           /\ plan.models \in Seq(Kinds) /\ Len(plan.models) \in Nat \ {0}
           /\ DOMAIN plan.models = 1 .. Len(plan.models)
           /\ Len(plan.models) * plan.episodes * plan.runs <= MaxEpisodes
<1>1. /\ plan.models \in Seq(Kinds) /\ plan.models # <<>>
      /\ {plan.episodes, plan.runs, plan.frames} \subseteq Nat \ {0}
      /\ Len(plan.models) * plan.episodes * plan.runs <= MaxEpisodes
  BY MatrixAssumption
<1>2. Len(plan.models) \in Nat \ {0} /\ DOMAIN plan.models = 1 .. Len(plan.models)
  BY <1>1, LenProperties, EmptySeq
<1> QED
  BY <1>1, <1>2

LEMMA SendIs ==
    ASSUME Typed, NEW r \in Requests, Send(r)
    PROVE  /\ jobs' = jobs /\ server' = server
           /\ queue' \in Seq(Requests) /\ Len(queue') <= MaxQueue
           /\ replies' \in [Clients -> Told]
           /\ \A c \in Clients : c # r.by => replies'[c] = replies[c]
           /\ replies'[r.by] \in {Waiting, Dropped}
           /\ \/ queue' = Append(queue, r) /\ replies'[r.by] = Waiting
              \/ queue' = queue /\ replies'[r.by] = Dropped
<1>1. r.by \in Clients /\ replies \in [Clients -> Told]
  BY DEF Requests, Typed, Told
<1>2. queue \in Seq(Requests) /\ Len(queue) \in Nat /\ Len(queue) <= MaxQueue
  BY State DEF Typed
<1>3. Append(queue, r) \in Seq(Requests) /\ Len(Append(queue, r)) = Len(queue) + 1
  BY <1>2, AppendProperties
<1>4. MaxQueue \in Nat
  BY ServerAssumption
<1>5. CASE Serving
  <2>1. /\ queue' = Append(queue, r) /\ Len(queue) < MaxQueue
        /\ replies' = [replies EXCEPT ![r.by] = Waiting]
        /\ jobs' = jobs /\ server' = server
    BY <1>5 DEF Send
  <2> QED
    BY <1>1, <1>2, <1>3, <1>4, <2>1 DEF Told
<1>6. CASE ~Serving
  <2>1. /\ queue' = queue /\ replies' = [replies EXCEPT ![r.by] = Dropped]
        /\ jobs' = jobs /\ server' = server
    BY <1>6 DEF Send
  <2> QED
    BY <1>1, <1>2, <2>1 DEF Told
<1> QED
  BY <1>5, <1>6

LEMMA ForgetIs ==
    ASSUME Typed, NEW clients, Forget(clients)
    PROVE  /\ queue' \in Seq(Requests) /\ Len(queue') = Len(queue) /\ Len(queue') <= MaxQueue
           /\ DOMAIN queue' = DOMAIN queue
           /\ \A k \in DOMAIN queue :
                 /\ queue'[k].kind = queue[k].kind /\ queue'[k].by = queue[k].by
                 /\ queue'[k].frame = queue[k].frame
                 /\ queue[k].by \notin clients => queue'[k] = queue[k]
           /\ queue = <<>> => queue' = <<>>
           /\ replies' \in [Clients -> Told]
           /\ \A c \in Clients : replies'[c] = IF c \in clients THEN None ELSE replies[c]
<1>1. /\ Len(queue) \in Nat /\ DOMAIN queue = 1 .. Len(queue) /\ Len(queue) <= MaxQueue
      /\ \A k \in DOMAIN queue : queue[k] \in Requests
  BY State DEF Typed
<1>2. /\ queue' = [i \in 1 .. Len(queue) |->
            IF queue[i].by \in clients THEN [queue[i] EXCEPT !.awaited = FALSE] ELSE queue[i]]
      /\ replies' = [c \in Clients |-> IF c \in clients THEN None ELSE replies[c]]
  BY <1>1 DEF Forget
<1>3. ASSUME NEW k \in DOMAIN queue
      PROVE  /\ queue'[k].kind = queue[k].kind /\ queue'[k].by = queue[k].by
             /\ queue'[k].frame = queue[k].frame /\ queue'[k] \in Requests
             /\ queue[k].by \notin clients => queue'[k] = queue[k]
  <2>1. queue'[k] = IF queue[k].by \in clients THEN [queue[k] EXCEPT !.awaited = FALSE] ELSE queue[k]
    BY <1>1, <1>2
  <2>2. queue[k] \in Requests
    BY <1>1
  <2> QED
    BY <2>1, <2>2 DEF Requests
<1>4. queue' \in [1 .. Len(queue) -> Requests] /\ DOMAIN queue' = 1 .. Len(queue)
  BY <1>1, <1>2, <1>3
<1>5. queue' \in Seq(Requests) /\ Len(queue') = Len(queue)
  <2>1. queue' \in Seq(Requests)
    BY <1>1, <1>4, FunctionIsSeq
  <2> QED
    BY <1>1, <1>4, <2>1, LenProperties
<1>6. queue = <<>> => queue' = <<>>
  BY <1>5, EmptySeq
<1>7. replies' \in [Clients -> Told]
  <2>1. replies \in [Clients -> Told]
    BY DEF Typed, Told
  <2> QED
    BY <1>2, <2>1 DEF Told
<1> QED
  BY <1>1, <1>2, <1>3, <1>4, <1>5, <1>6, <1>7

\* One client goes on: it is not there again, nor at its start.
Further(old, new) ==
    /\ new.pc \notin {"off", "start"}
    /\ new.pc = "reset" => old.pc = "start"
    /\ new.pc = "run" => old.pc \in {"off", "reset"} \/ (old.pc = "run" /\ old.sent <= new.sent)
Turn(d) ==
    /\ d \in Clients
    /\ UNCHANGED <<plan, matrix, cancelled, faults, jobs, server>>
    /\ client' \in [Clients -> Sender]
    /\ \A c \in Clients : c # d => client'[c] = client[c]
    /\ client'[d].job = client[d].job /\ client'[d].sent <= plan.frames
    /\ Further(client[d], client'[d])
    /\ client[d].pc \in {"over", "died"} => client'[d].pc \in {"over", "died"}
    /\ client[d].pc = "off" => d = Bridge
    /\ NoneAnswered
    /\ replies' \in [Clients -> Told]
    /\ queue' \in Seq(Requests) /\ Len(queue') <= MaxQueue

\* What a turn is of, when only this client changes.
LEMMA TurnIs ==
    ASSUME Typed, Counted, NEW d \in Clients, NEW new \in Sender,
           UNCHANGED <<plan, matrix, cancelled, faults, jobs, server>>,
           client' = [client EXCEPT ![d] = new],
           new.job = client[d].job, new.sent <= plan.frames,
           Further(client[d], new),
           client[d].pc = "off" => d = Bridge, client[d].pc \notin {"over", "died"},
           \A c \in Clients : replies'[c] # replies[c] =>
               replies'[c] = None \/ replies'[c] \in {Waiting, Dropped},
           replies' \in [Clients -> Told],
           queue' \in Seq(Requests), Len(queue') <= MaxQueue
    PROVE  Turn(d)
<1>1. client \in [Clients -> Sender]
  BY DEF Typed
<1>2. /\ client' \in [Clients -> Sender] /\ client'[d] = new
      /\ \A c \in Clients : c # d => client'[c] = client[c]
  BY <1>1
<1>3. NoneAnswered
  BY DEF NoneAnswered, IsAnswer, Waiting, Dropped
<1> QED
  BY <1>2, <1>3 DEF Turn

LEMMA TurnTyped ==
    ASSUME Typed, NEW d, Turn(d)
    PROVE  Typed' /\ ClientsGoOn
<1>1. Typed'
  BY DEF Typed, Turn, Told
<1>2. ASSUME NEW c \in Clients
      PROVE  /\ client'[c].pc \in {"off", "start", "reset"} => client[c].pc \in {"off", "start", "reset"}
             /\ client'[c].pc \in {"off", "start"} => client[c].pc \in {"off", "start"}
             /\ client'[c].pc = "run" => \/ client[c].pc \in {"off", "start", "reset"}
                                         \/ client[c].pc = "run" /\ client[c].sent <= client'[c].sent
  <2>1. client[c].sent \in Nat
    BY State DEF Sender
  <2> QED
    BY <2>1 DEF Turn, Further
<1> QED
  BY <1>1, <1>2 DEF ClientsGoOn

LEMMA TurnCounts ==
    ASSUME Typed, Counted, Untouched, JobsOwn, ServerOwn, ContainerOwn, JobsLeft, NEW d, Turn(d)
    PROVE  Counted' /\ Untouched' /\ JobsOwn' /\ ServerOwn' /\ ContainerOwn' /\ JobsLeft'
<1>1. /\ plan' = plan /\ matrix' = matrix /\ cancelled' = cancelled /\ faults' = faults
      /\ jobs' = jobs /\ server' = server
  BY DEF Turn
<1>2. Counted'
  <2>1. \A c \in Clients : client'[c].sent <= plan.frames
    BY DEF Turn, Counted
  <2> QED
    BY <1>1, <2>1 DEF Counted, Before, PerRun, Episodes
<1>3. \A c \in Clients : IsAnswer(c)' => IsAnswer(c) /\ replies'[c] = replies[c]
  BY DEF Turn, NoneAnswered, IsAnswer
<1>4. Untouched'
  <2> SUFFICES ASSUME NEW c \in Runners, c > matrix.runner
               PROVE  client'[c].pc = "off" /\ ~IsAnswer(c)'
    BY <1>1 DEF Untouched
  <2>1. c # Bridge /\ c \in Clients /\ client[c].pc = "off" /\ ~IsAnswer(c)
    BY RunnersAre DEF Untouched
  <2>2. c # d
    BY <2>1 DEF Turn
  <2> QED
    BY <1>3, <2>1, <2>2 DEF Turn
<1>5. JobsOwn'
  BY <1>1 DEF JobsOwn, Serving
<1>6. ServerOwn'
  <2>1. matrix.pc = "episode" => matrix.runner \in Clients
    BY RunnersAre DEF Counted
  <2>2. \A c \in Clients : client'[c].job = client[c].job
    BY DEF Turn
  <2> QED
    BY <1>1, <1>3, <2>1, <2>2 DEF ServerOwn, Serving
<1>7. ContainerOwn'
  <2>1. InContainer' \cap Runners \subseteq InContainer
    <3> SUFFICES ASSUME NEW c \in Runners, c \in Clients,
                         client'[c].pc \in {"start", "reset", "run"}
                 PROVE  client[c].pc \in {"start", "reset", "run"}
      BY DEF InContainer
    <3>1. CASE c = d
      <4>1. client[c].pc \notin {"over", "died"} /\ client[c].pc # "off"
        BY <3>1, RunnersAre DEF Turn
      <4> QED
        BY <4>1, State DEF Sender
    <3>2. CASE c # d
      BY <3>2 DEF Turn
    <3> QED
      BY <3>1, <3>2
  <2> QED
    BY <1>1, <2>1 DEF ContainerOwn
<1>8. JobsLeft'
  BY <1>1 DEF JobsLeft, Alive
<1> QED
  BY <1>2, <1>4, <1>5, <1>6, <1>7, <1>8

LEMMA TurnOwn ==
    ASSUME Typed, ContainerOwn, RunnerOwn, NEW d, Turn(d),
           d # Bridge => client[d].pc \in {"start", "reset", "run"},
           Undisturbed /\ d \in Runners =>
               /\ client'[d].pc = "reset" => ResetStands(d)'
               /\ client'[d].pc = "run" =>
                     Own(d)' /\ (IsAnswer(d)' => \A f \in Shown(d)' \cup Felt(d)' : f.by = d)
    PROVE  RunnerOwn'
<1> SUFFICES ASSUME Undisturbed', NEW c \in Runners, client'[c].pc \in {"reset", "run"}
             PROVE  /\ client'[c].pc = "reset" => ResetStands(c)'
                    /\ client'[c].pc = "run" =>
                          /\ Own(c)'
                          /\ IsAnswer(c)' => \A f \in Shown(c)' \cup Felt(c)' : f.by = c
  BY DEF RunnerOwn, Undisturbed
<1>1. d # Bridge /\ Undisturbed
  BY RunnersAre DEF Undisturbed, Turn, Further
<1>2. d \in Runners /\ d \in InContainer
  BY <1>1, MatrixAssumption DEF Turn, Runners, InContainer
<1>3. CASE c = d
  BY <1>1, <1>2, <1>3
<1>4. CASE c # d
  <2>1. c \in Clients /\ client'[c] = client[c]
    BY <1>4, RunnersAre DEF Turn
  <2>2. c \in InContainer \cap Runners
    BY <2>1 DEF InContainer
  <2> QED
    BY <1>1, <1>2, <1>4, <2>2 DEF ContainerOwn, Undisturbed
<1> QED
  BY <1>3, <1>4

LEMMA TurnSafe ==
    ASSUME IInv, NEW d, Turn(d), Requested', RunnerOwn'
    PROVE  IInv'
<1>1. Typed' /\ Counted' /\ Untouched' /\ JobsOwn' /\ ServerOwn' /\ ContainerOwn' /\ JobsLeft'
  BY TurnTyped, TurnCounts DEF IInv
<1>2. OneText'
  BY DEF IInv, Turn, OneText, Serving, Backend
<1>3. OneInstruction' /\ PastThenPresent'
  BY AnswersStand DEF IInv, Turn
<1> QED
  BY <1>1, <1>2, <1>3 DEF IInv

\* The server stays as it is, and so do the requests but for who awaits them.
LEMMA QueueStays ==
    ASSUME Typed, Typed', Requested, ClientsGoOn, server' = server,
           DOMAIN queue' = DOMAIN queue,
           \A k \in DOMAIN queue : /\ queue'[k].kind = queue[k].kind /\ queue'[k].by = queue[k].by
                                   /\ queue'[k].frame = queue[k].frame
    PROVE  Requested'
<1>1. QueueGoesOn(0)
  BY State DEF QueueGoesOn, Typed
<1>2. MemoryGoesOn(0)
  BY DEF MemoryGoesOn, Known, Requested, FramesInOrder, Serving
<1> QED
  BY <1>1, <1>2, ServerGoesOn DEF Requested

LEMMA SendResetSafe ==
    ASSUME IInv, NEW d \in Clients, SendReset(d), UNCHANGED <<plan, matrix, cancelled, faults>>
    PROVE  IInv'
<1> DEFINE r == [kind |-> "reset", by |-> d, frame |-> None, posed |-> FALSE, awaited |-> TRUE]
           new == [client[d] EXCEPT !.pc = "reset"]
<1>0. Typed /\ Counted /\ Requested /\ ContainerOwn /\ RunnerOwn
  BY DEF IInv
<1>1. /\ client[d] \in Sender /\ client[d].pc = "start"
      /\ Send(r) /\ client' = [client EXCEPT ![d] = new]
  BY <1>0, State DEF SendReset
<1>2. r \in Requests
  BY DEF Requests
<1>3. /\ new \in Sender /\ new.job = client[d].job /\ new.sent = client[d].sent /\ new.pc = "reset"
      /\ client[d].sent <= plan.frames
  BY <1>0, <1>1 DEF Sender, Counted
<1> HIDE DEF new
<1>4. /\ jobs' = jobs /\ server' = server
      /\ queue' \in Seq(Requests) /\ Len(queue') <= MaxQueue
      /\ replies' \in [Clients -> Told]
      /\ \A c \in Clients : c # d => replies'[c] = replies[c]
      /\ replies'[d] \in {Waiting, Dropped}
      /\ \/ queue' = Append(queue, r) /\ replies'[d] = Waiting
         \/ queue' = queue /\ replies'[d] = Dropped
  BY <1>0, <1>1, <1>2, SendIs
<1>5. Turn(d)
  BY <1>0, <1>1, <1>3, <1>4, TurnIs DEF Further
<1>6. Typed' /\ ClientsGoOn /\ client'[d] = new
  BY <1>0, <1>1, <1>3, <1>5, TurnTyped DEF Typed
<1>7. Requested'
  <2>1. CASE queue' = Append(queue, r)
    BY <1>0, <1>2, <1>3, <1>4, <1>6, <2>1, RequestComes DEF Requested
  <2>2. CASE queue' = queue
    BY <1>0, <1>4, <1>6, <2>2, QueueStays
  <2> QED
    BY <1>4, <2>1, <2>2
<1>8. ResetStands(d)'
  <2>1. replies'[d] # Ack /\ \A i \in DOMAIN queue : queue[i].by # d
    BY <1>0, <1>1, <1>4 DEF Waiting, Dropped, Ack, Requested, FramesSent
  <2>2. CASE queue' = Append(queue, r)
    <3>1. queue \in Seq(Requests) /\ Len(queue) \in Nat /\ DOMAIN queue = 1 .. Len(queue)
      BY <1>0, State DEF Typed
    <3>2. /\ Len(queue') = Len(queue) + 1 /\ queue'[Len(queue) + 1] = r
          /\ \A i \in 1 .. Len(queue) : queue'[i] = queue[i]
      BY <1>2, <2>2, <3>1, AppendProperties
    <3>3. queue' # <<>>
      BY <3>1, <3>2, EmptySeq
    <3> QED
      BY <2>1, <3>1, <3>2, <3>3 DEF ResetStands, ResetWaits, Last
  <2>3. CASE queue' = queue
    BY <2>1, <2>3 DEF ResetStands
  <2> QED
    BY <1>4, <2>2, <2>3
<1>9. RunnerOwn'
  BY <1>0, <1>1, <1>3, <1>5, <1>6, <1>8, TurnOwn
<1> QED
  BY <1>5, <1>7, <1>9, TurnSafe

LEMMA AwaitResetSafe ==
    ASSUME IInv, NEW d \in Clients, AwaitReset(d), UNCHANGED <<plan, matrix, cancelled, faults>>
    PROVE  IInv'
<1> DEFINE new == IF replies[d] = Ack THEN [client[d] EXCEPT !.pc = "run"]
                  ELSE [Idle EXCEPT !.pc = "died", !.job = client[d].job]
<1>0. Typed /\ Counted /\ Requested /\ ContainerOwn /\ RunnerOwn
  BY DEF IInv
<1>1. /\ client[d] \in Sender /\ client[d].pc = "reset" /\ Forget({d})
      /\ client' = [client EXCEPT ![d] = new] /\ jobs' = jobs /\ server' = server
  BY <1>0, State DEF AwaitReset, Leave
<1>2. plan.frames \in Nat /\ client[d].sent \in Nat /\ client[d].sent <= plan.frames
  BY <1>0, <1>1, PlanIs DEF Typed, Counted, Sender
<1>3. /\ new \in Sender /\ new.job = client[d].job /\ new.sent <= plan.frames
      /\ new.pc = IF replies[d] = Ack THEN "run" ELSE "died"
  <2>1. CASE replies[d] = Ack
    BY <1>1, <1>2, <2>1 DEF Sender
  <2>2. CASE replies[d] # Ack
    <3>1. /\ new = [pc |-> "died", job |-> client[d].job, text |-> "", sent |-> 0,
                    version |-> None]
          /\ client[d].job \in Jobs \cup {None}
      BY <1>1, <2>2 DEF Idle, Sender
    <3> HIDE DEF new
    <3>2. new \in Sender
      BY <3>1 DEF Sender
    <3>3. new.job = client[d].job /\ new.sent = 0 /\ new.pc = "died"
      BY <3>1
    <3> QED
      BY <1>2, <2>2, <3>2, <3>3
  <2> QED
    BY <2>1, <2>2
<1> HIDE DEF new
<1>4. /\ queue' \in Seq(Requests) /\ Len(queue') = Len(queue) /\ Len(queue') <= MaxQueue
      /\ DOMAIN queue' = DOMAIN queue
      /\ \A k \in DOMAIN queue :
            /\ queue'[k].kind = queue[k].kind /\ queue'[k].by = queue[k].by
            /\ queue'[k].frame = queue[k].frame
      /\ replies' \in [Clients -> Told]
      /\ \A c \in Clients : replies'[c] = IF c = d THEN None ELSE replies[c]
  BY <1>0, <1>1, ForgetIs
<1>5. Turn(d)
  BY <1>0, <1>1, <1>3, <1>4, TurnIs DEF Further
<1>6. Typed' /\ ClientsGoOn /\ client'[d] = new
  BY <1>0, <1>1, <1>3, <1>5, TurnTyped DEF Typed
<1>7. Requested'
  BY <1>0, <1>1, <1>4, <1>6, QueueStays
<1>8. RunnerOwn'
  <2>1. ASSUME Undisturbed, d \in Runners, client'[d].pc = "run"
        PROVE  Own(d)' /\ ~IsAnswer(d)'
    <3>1. replies[d] = Ack /\ Own(d)
      BY <1>1, <1>3, <1>6, <2>1 DEF RunnerOwn, ResetStands, Undisturbed, IInv
    <3> QED
      BY <1>1, <1>4, <3>1 DEF Own, IsAnswer, Serving
  <2>2. client'[d].pc # "reset"
    BY <1>3, <1>6
  <2> QED
    BY <1>0, <1>1, <1>5, <2>1, <2>2, TurnOwn
<1> QED
  BY <1>5, <1>7, <1>8, TurnSafe

LEMMA TakeReplySafe ==
    ASSUME IInv, NEW d \in Clients, TakeReply(d), UNCHANGED <<plan, matrix, cancelled, faults>>
    PROVE  IInv'
<1> DEFINE new == IF Accepted(d) THEN [client[d] EXCEPT !.version = replies[d].version] ELSE client[d]
<1>0. Typed /\ Counted /\ Requested /\ ContainerOwn /\ RunnerOwn
  BY DEF IInv
<1>1. /\ client[d] \in Sender /\ client[d].pc = "run" /\ Forget({d})
      /\ client' = [client EXCEPT ![d] = new] /\ jobs' = jobs /\ server' = server
  BY <1>0, State DEF TakeReply, Typed
<1>2. Accepted(d) => replies[d].version \in Kinds \cup {None}
  BY <1>0, AnswerIs DEF Accepted, IsAnswer, Typed, Answers, Told
<1>3. /\ new \in Sender /\ new.job = client[d].job /\ new.sent = client[d].sent /\ new.pc = "run"
      /\ client[d].sent \in Nat /\ client[d].sent <= plan.frames
  BY <1>0, <1>1, <1>2 DEF Sender, Counted
<1> HIDE DEF new
<1>4. /\ queue' \in Seq(Requests) /\ Len(queue') = Len(queue) /\ Len(queue') <= MaxQueue
      /\ DOMAIN queue' = DOMAIN queue
      /\ \A k \in DOMAIN queue :
            /\ queue'[k].kind = queue[k].kind /\ queue'[k].by = queue[k].by
            /\ queue'[k].frame = queue[k].frame
      /\ replies' \in [Clients -> Told]
      /\ \A c \in Clients : replies'[c] = IF c = d THEN None ELSE replies[c]
  BY <1>0, <1>1, ForgetIs
<1>5. Turn(d)
  <2>1. Further(client[d], new)
    BY <1>1, <1>3 DEF Further
  <2> QED
    BY <1>0, <1>1, <1>3, <1>4, <2>1, TurnIs
<1>6. Typed' /\ ClientsGoOn /\ client'[d] = new
  BY <1>0, <1>1, <1>3, <1>5, TurnTyped DEF Typed
<1>7. Requested'
  BY <1>0, <1>1, <1>4, <1>6, QueueStays
<1>8. RunnerOwn'
  <2>1. ASSUME Undisturbed, d \in Runners, client'[d].pc = "run"
        PROVE  Own(d)' /\ ~IsAnswer(d)'
    <3>1. Own(d)
      BY <1>0, <1>1, <2>1 DEF RunnerOwn, Undisturbed
    <3> QED
      BY <1>1, <1>4, <3>1 DEF Own, IsAnswer, Serving
  <2>2. client'[d].pc # "reset"
    BY <1>3, <1>6
  <2> QED
    BY <1>0, <1>1, <1>5, <2>1, <2>2, TurnOwn
<1> QED
  BY <1>5, <1>7, <1>8, TurnSafe

LEMMA SendFrameSafe ==
    ASSUME IInv, NEW d \in Clients,
           client[d].pc = "run", client[d].sent < plan.frames,
           NEW r \in Requests, r.by = d, r.kind = "infer",
           r.frame \in Frames, r.frame.by = d, r.frame.number = client[d].sent,
           Send(r),
           client' = [client EXCEPT ![d] = [client[d] EXCEPT !.sent = client[d].sent + 1]],
           UNCHANGED <<plan, matrix, cancelled, faults>>
    PROVE  IInv'
<1> DEFINE new == [client[d] EXCEPT !.sent = client[d].sent + 1]
<1>0. Typed /\ Counted /\ Requested /\ ContainerOwn /\ RunnerOwn
  BY DEF IInv
<1>1. /\ client[d] \in Sender /\ client[d].sent \in Nat /\ client' = [client EXCEPT ![d] = new]
      /\ plan.frames \in Nat \ {0}
  BY <1>0, State, PlanIs DEF Sender, Typed
<1>3. /\ new \in Sender /\ new.job = client[d].job /\ new.sent = client[d].sent + 1
      /\ new.pc = "run" /\ new.sent <= plan.frames
  <2>1. client[d].sent + 1 \in Nat /\ client[d].sent + 1 <= plan.frames
    BY <1>1
  <2>2. /\ new \in Sender /\ new.job = client[d].job /\ new.sent = client[d].sent + 1
        /\ new.pc = "run"
    BY <1>1, <2>1 DEF Sender
  <2> QED
    BY <2>1, <2>2
<1> HIDE DEF new
<1>4. /\ jobs' = jobs /\ server' = server
      /\ queue' \in Seq(Requests) /\ Len(queue') <= MaxQueue
      /\ replies' \in [Clients -> Told]
      /\ \A c \in Clients : c # d => replies'[c] = replies[c]
      /\ replies'[d] \in {Waiting, Dropped}
      /\ queue' = Append(queue, r) \/ queue' = queue
  BY <1>0, SendIs
<1>5. Turn(d)
  <2>1. Further(client[d], new)
    BY <1>1, <1>3 DEF Further
  <2> QED
    BY <1>0, <1>1, <1>3, <1>4, <2>1, TurnIs
<1>6. Typed' /\ ClientsGoOn /\ client'[d] = new
  BY <1>0, <1>1, <1>3, <1>5, TurnTyped DEF Typed
<1>7. Requested'
  <2>1. CASE queue' = Append(queue, r)
    BY <1>0, <1>3, <1>4, <1>6, <2>1, RequestComes DEF Requested
  <2>2. CASE queue' = queue
    BY <1>0, <1>4, <1>6, <2>2, QueueStays
  <2> QED
    BY <1>4, <2>1, <2>2
<1>8. RunnerOwn'
  <2>1. ASSUME Undisturbed, d \in Runners, client'[d].pc = "run"
        PROVE  Own(d)' /\ ~IsAnswer(d)'
    <3>1. Own(d)
      BY <1>0, <2>1 DEF RunnerOwn, Undisturbed
    <3>2. \A i \in DOMAIN queue' : queue'[i].by = d
      <4>1. CASE queue' = Append(queue, r)
        <5>1. queue \in Seq(Requests) /\ Len(queue) \in Nat /\ DOMAIN queue = 1 .. Len(queue)
          BY <1>0, State DEF Typed
        <5>2. /\ Len(queue') = Len(queue) + 1 /\ queue'[Len(queue) + 1] = r
              /\ \A i \in 1 .. Len(queue) : queue'[i] = queue[i]
          BY <4>1, <5>1, AppendProperties
        <5>3. DOMAIN queue' = 1 .. Len(queue) + 1
          BY <1>4, <5>2, LenProperties
        <5> QED
          BY <3>1, <5>1, <5>2, <5>3 DEF Own
      <4>2. CASE queue' = queue
        BY <3>1, <4>2 DEF Own
      <4> QED
        BY <1>4, <4>1, <4>2
    <3> QED
      BY <1>4, <3>1, <3>2 DEF Own, IsAnswer, Serving, Waiting, Dropped
  <2>2. client'[d].pc # "reset"
    BY <1>3, <1>6
  <2> QED
    BY <1>0, <1>5, <2>1, <2>2, TurnOwn
<1> QED
  BY <1>5, <1>7, <1>8, TurnSafe


LEMMA QuietTurnSafe ==
    ASSUME IInv, NEW d \in Clients, NEW new \in Sender,
           UNCHANGED <<plan, matrix, cancelled, faults, serverVars>>,
           client' = [client EXCEPT ![d] = new],
           new.job = client[d].job, new.sent <= plan.frames,
           \/ client[d].pc = "run" /\ new.pc \in {"over", "died"}
           \/ client[d].pc = "off" /\ d = Bridge /\ new.pc = "run"
    PROVE  IInv'
<1>0. Typed /\ Counted /\ Requested /\ ContainerOwn /\ RunnerOwn
  BY DEF IInv
<1>1. jobs' = jobs /\ server' = server /\ queue' = queue /\ replies' = replies
  BY DEF serverVars
<1>2. /\ queue' \in Seq(Requests) /\ Len(queue') <= MaxQueue
      /\ replies' \in [Clients -> Told]
  BY <1>0, <1>1 DEF Typed, Told
<1>3. Turn(d)
  <2>1. Further(client[d], new)
    BY DEF Further
  <2> QED
    BY <1>0, <1>1, <1>2, <2>1, TurnIs
<1>4. Typed' /\ ClientsGoOn /\ client'[d] = new
  BY <1>0, <1>3, TurnTyped DEF Typed
<1>5. Requested'
  BY <1>0, <1>1, <1>4, QueueStays
<1>6. RunnerOwn'
  <2>1. d \in Runners => client'[d].pc \in {"over", "died"}
    BY <1>4, RunnersAre
  <2> QED
    BY <1>0, <1>3, <2>1, TurnOwn
<1> QED
  BY <1>3, <1>5, <1>6, TurnSafe

LEMMA ClientSafe ==
    ASSUME IInv, ClientStep
    PROVE  IInv'
<1>0. Typed /\ Counted /\ UNCHANGED <<plan, matrix, cancelled, faults>>
  BY DEF IInv, ClientStep
<1>1. /\ plan.frames \in Nat \ {0} /\ Bridge \in Clients
      /\ \A c \in Clients : client[c] \in Sender /\ client[c].sent <= plan.frames
      /\ client[Bridge].sent \in Nat
  <2>1. \A c \in Clients : client[c] \in Sender
    BY <1>0, State
  <2>2. Bridge \in Clients
    BY RunnersAre
  <2>3. client[Bridge].sent \in Nat
    BY <2>1, <2>2 DEF Sender
  <2> QED
    BY <1>0, <2>1, <2>2, <2>3, PlanIs DEF Typed, Counted
<1>2. ASSUME NEW c \in Clients, SendReset(c) PROVE IInv'
  BY <1>0, <1>2, SendResetSafe
<1>3. ASSUME NEW c \in Clients, AwaitReset(c) PROVE IInv'
  BY <1>0, <1>3, AwaitResetSafe
<1>4. ASSUME NEW c \in Clients, TakeReply(c) PROVE IInv'
  BY <1>0, <1>4, TakeReplySafe
<1>5. ASSUME NEW c \in Clients, SendObservation(c) PROVE IInv'
  <2>1. /\ client[c].sent \in Nat /\ client[c].text \in {"", "left", "right"}
        /\ client \in [Clients -> Sender]
    BY <1>0, <1>1 DEF Sender, Typed
  <2> DEFINE f == [by |-> c, number |-> client[c].sent, text |-> client[c].text]
             r == [kind |-> "infer", by |-> c, frame |-> f, posed |-> TRUE, awaited |-> TRUE]
  <2>2. /\ client[c].pc = "run" /\ client[c].sent < plan.frames
        /\ Send(r)
        /\ client' = [client EXCEPT ![c] = [client[c] EXCEPT !.sent = client[c].sent + 1]]
    BY <2>1, <1>5 DEF SendObservation, InferRequest, Frame
  <2>3. /\ f \in Frames /\ f.by = c /\ f.number = client[c].sent
        /\ r \in Requests /\ r.by = c /\ r.kind = "infer" /\ r.frame = f
    BY <2>1 DEF Frames, Requests
  <2> HIDE DEF f, r
  <2> QED
    BY <1>0, <2>2, <2>3, SendFrameSafe
<1>6. ASSUME NEW c \in Clients, FinishClient(c) PROVE IInv'
  <2> DEFINE new(pc) == [pc |-> pc, job |-> client[c].job, text |-> "", sent |-> 0, version |-> None]
  <2>1. client[c].job \in Jobs \cup {None}
    BY <1>1 DEF Sender
  <2>2. /\ client' = [client EXCEPT ![c] = new("over")] \/ client' = [client EXCEPT ![c] = new("died")]
        /\ client[c].pc = "run" /\ UNCHANGED serverVars
    BY <1>6 DEF FinishClient, Leave, Idle
  <2>3. /\ new("over") \in Sender /\ new("over").pc = "over" /\ new("over").job = client[c].job
        /\ new("over").sent = 0
    BY <2>1 DEF Sender
  <2>4. /\ new("died") \in Sender /\ new("died").pc = "died" /\ new("died").job = client[c].job
        /\ new("died").sent = 0
    BY <2>1 DEF Sender
  <2>5. 0 <= plan.frames
    BY <1>1
  <2> HIDE DEF new
  <2>6. PICK n \in Sender : /\ client' = [client EXCEPT ![c] = n] /\ n.pc \in {"over", "died"}
                            /\ n.job = client[c].job /\ n.sent <= plan.frames
    BY <2>2, <2>3, <2>4, <2>5
  <2> QED
    BY <1>0, <2>2, <2>6, QuietTurnSafe
<1>7. CASE SendBridged
  <2> DEFINE f(text) == [by |-> Bridge, number |-> client[Bridge].sent, text |-> text]
             r(text) == [kind |-> "infer", by |-> Bridge, frame |-> f(text), posed |-> FALSE,
                         awaited |-> TRUE]
  <2>1. client \in [Clients -> Sender]
    BY <1>0 DEF Typed
  <2>2. /\ client[Bridge].pc = "run" /\ client[Bridge].sent < 1
        /\ Send(r("")) \/ Send(r("left"))
        /\ client' = [client EXCEPT ![Bridge] =
                        [client[Bridge] EXCEPT !.sent = client[Bridge].sent + 1]]
    BY <1>1, <1>7, <2>1 DEF SendBridged, InferRequest, Frame
  <2>3. client[Bridge].sent < plan.frames
    <3>1. client[Bridge].sent < 1
      BY <2>2
    <3> QED
      BY <1>1, <3>1
  <2>4. /\ f("") \in Frames /\ f("").by = Bridge /\ f("").number = client[Bridge].sent
        /\ r("") \in Requests /\ r("").by = Bridge /\ r("").kind = "infer" /\ r("").frame = f("")
    BY <1>1 DEF Frames, Requests
  <2>5. /\ f("left") \in Frames /\ f("left").by = Bridge /\ f("left").number = client[Bridge].sent
        /\ r("left") \in Requests /\ r("left").by = Bridge /\ r("left").kind = "infer"
        /\ r("left").frame = f("left")
    BY <1>1 DEF Frames, Requests
  <2> HIDE DEF f, r
  <2>6. PICK q \in Requests : /\ Send(q) /\ q.by = Bridge /\ q.kind = "infer" /\ q.frame \in Frames
                              /\ q.frame.by = Bridge /\ q.frame.number = client[Bridge].sent
    BY <2>2, <2>4, <2>5
  <2> QED
    BY <1>0, <1>1, <2>2, <2>3, <2>6, SendFrameSafe
<1>8. CASE StartBridge
  <2> DEFINE new == [client[Bridge] EXCEPT !.pc = "run"]
  <2>1. /\ client[Bridge].pc = "off" /\ UNCHANGED serverVars
        /\ client' = [client EXCEPT ![Bridge] = new]
    BY <1>8 DEF StartBridge
  <2>2. /\ new \in Sender /\ new.pc = "run" /\ new.job = client[Bridge].job
        /\ new.sent <= plan.frames
    BY <1>1 DEF Sender
  <2> HIDE DEF new
  <2> QED
    BY <1>0, <1>1, <2>1, <2>2, QuietTurnSafe
<1> QED
  BY <1>2, <1>3, <1>4, <1>5, <1>6, <1>7, <1>8 DEF ClientStep

(***************************************************************************)
(* Steps of the servers.                                                   *)
(***************************************************************************)

ServerMoves ==
    /\ UNCHANGED <<plan, matrix, cancelled, client>>
    /\ faults \subseteq faults' /\ faults' \subseteq Faults
    /\ jobs' \in [Jobs -> Backed] /\ server' \in Servers \cup {None}
    /\ queue' \in Seq(Requests) /\ Len(queue') <= MaxQueue
    /\ replies' \in [Clients -> Told]
    /\ \A j \in Jobs : /\ jobs[j].phase # "free" => jobs'[j].phase # "free"
                       /\ j \in Alive' => j \in Alive
    /\ Serving' => jobs'[server'.job].phase = "serving"
    /\ "ended" \notin faults' /\ Serving /\ server.job \notin cancelled =>
          Serving' /\ server'.job = server.job
    /\ \A c \in Clients : IsAnswer(c)' =>
          \/ replies'[c] = replies[c]
          \/ /\ Serving /\ replies'[c].job = server.job
             /\ \E i \in DOMAIN queue : queue[i].by = c

LEMMA MovesCount ==
    ASSUME IInv, ServerMoves
    PROVE  Typed' /\ Counted' /\ Untouched' /\ JobsOwn' /\ ServerOwn' /\ ContainerOwn' /\ JobsLeft'
<1>0. /\ Typed /\ Counted /\ Untouched /\ JobsOwn /\ ServerOwn /\ ContainerOwn /\ JobsLeft
      /\ FramesSent
  BY DEF IInv, Requested
<1>1. /\ plan' = plan /\ matrix' = matrix /\ cancelled' = cancelled /\ client' = client
      /\ faults \subseteq faults'
  BY DEF ServerMoves
<1>2. Typed'
  BY <1>0 DEF Typed, ServerMoves, Told
<1>3. Counted'
  BY <1>0, <1>1 DEF Counted, Before, PerRun, Episodes
<1>4. Untouched'
  <2> SUFFICES ASSUME NEW c \in Runners, c > matrix.runner
               PROVE  client[c].pc = "off" /\ ~IsAnswer(c)'
    BY <1>1 DEF Untouched
  <2>1. c \in Clients /\ client[c].pc = "off" /\ ~IsAnswer(c)
    BY <1>0, RunnersAre DEF Untouched
  <2>2. \A i \in DOMAIN queue : queue[i].by # c
    BY <1>0, <2>1 DEF FramesSent
  <2>3. replies'[c] = replies[c] => ~IsAnswer(c)'
    BY <2>1 DEF IsAnswer
  <2> QED
    BY <2>1, <2>2, <2>3 DEF ServerMoves
<1>5. JobsOwn'
  BY <1>0, <1>1 DEF JobsOwn, ServerMoves, Typed
<1>6. ServerOwn'
  <2>1. ASSUME "ended" \notin faults', matrix.pc \in {"sim", "start", "episode"}
        PROVE  Serving' /\ server'.job = matrix.job /\ Serving /\ server.job = matrix.job
    <3>1. "ended" \notin faults /\ Serving /\ server.job = matrix.job
      BY <1>0, <1>1, <2>1 DEF ServerOwn
    <3>2. matrix.job \notin cancelled
      BY <1>0, <2>1 DEF JobsOwn
    <3> QED
      BY <2>1, <3>1, <3>2 DEF ServerMoves
  <2>2. ASSUME "ended" \notin faults', matrix.pc = "episode", IsAnswer(matrix.runner)'
        PROVE  replies'[matrix.runner].job = matrix.job
    <3>1. matrix.runner \in Clients
      BY <1>0, <2>2, RunnersAre DEF Counted
    <3>2. CASE replies'[matrix.runner] = replies[matrix.runner]
      BY <1>0, <1>1, <2>2, <3>1, <3>2 DEF ServerOwn, IsAnswer
    <3>3. CASE replies'[matrix.runner] # replies[matrix.runner]
      BY <1>1, <2>1, <2>2, <3>1, <3>3 DEF ServerMoves
    <3> QED
      BY <3>2, <3>3
  <2> QED
    BY <1>0, <1>1, <2>1, <2>2 DEF ServerOwn
<1>7. ContainerOwn'
  BY <1>0, <1>1 DEF ContainerOwn, InContainer
<1>8. JobsLeft'
  BY <1>0, <1>1 DEF JobsLeft, ServerMoves, Alive
<1> QED
  BY <1>2, <1>3, <1>4, <1>5, <1>6, <1>7, <1>8

LEMMA ClientsStay ==
    ASSUME Typed, UNCHANGED client
    PROVE  ClientsGoOn
<1>1. \A c \in Clients : client[c].sent \in Nat
  BY State DEF Sender
<1> QED
  BY <1>1 DEF ClientsGoOn

LEMMA ServeNextSafe ==
    ASSUME IInv, ServeNext, UNCHANGED <<plan, matrix, cancelled, client, faults>>
    PROVE  IInv'
<1>0. /\ Typed /\ Requested /\ RequestsOwn /\ FramesSent /\ FramesInOrder /\ JobsOwn /\ OneText
      /\ RunnerOwn /\ OneInstruction /\ PastThenPresent
  BY DEF IInv, Requested
<1> DEFINE r == Head(queue)
<1>1. Serving /\ queue # <<>> /\ Served(r)
  BY <1>0, Serves
<1>2. 1 \in DOMAIN queue /\ r = queue[1] /\ Tail(queue) \in Seq(Requests)
      /\ Len(Tail(queue)) = Len(queue) - 1 /\ Len(queue) \in Nat /\ Len(queue) <= MaxQueue
      /\ MaxQueue \in Nat
  BY <1>0, <1>1, Oldest, State, ServerAssumption DEF Typed
<1>3. /\ queue' = Tail(queue) /\ jobs' = jobs /\ server' \in Servers /\ server'.job = server.job
      /\ replies' \in [Clients -> Told] /\ server' # None
  BY <1>1, ServerAssumption DEF Served, Tells
<1>4. \A c \in Clients : IsAnswer(c)' =>
          \/ replies'[c] = replies[c]
          \/ /\ replies'[c].job = server.job
             /\ \E i \in DOMAIN queue : queue[i].by = c
  BY <1>1, <1>2 DEF Served, Tells, Answered
<1> HIDE DEF r
<1>5. ServerMoves
  <2>1. Len(queue') <= MaxQueue
    BY <1>2, <1>3
  <2>2. Serving' /\ jobs'[server'.job].phase = "serving"
    BY <1>0, <1>1, <1>3 DEF Serving, JobsOwn
  <2>3. Alive' = Alive
    BY <1>3 DEF Alive
  <2>4. faults' = faults /\ faults \subseteq Faults /\ jobs \in [Jobs -> Backed]
    BY <1>0 DEF Typed
  <2> QED
    BY <1>1, <1>2, <1>3, <1>4, <2>1, <2>2, <2>3, <2>4 DEF ServerMoves
<1>6. Typed' /\ Counted' /\ Untouched' /\ JobsOwn' /\ ServerOwn' /\ ContainerOwn' /\ JobsLeft'
  BY <1>5, MovesCount
<1>7. Requested'
  BY <1>0, <1>1, <1>6, ServedRequests DEF Requested, r
<1>8. OneText' /\ OneInstruction' /\ PastThenPresent'
  BY <1>0, <1>1, ServedTexts, ServedAnswers DEF r
<1>9. RunnerOwn'
  BY <1>0, <1>1, <1>6, ServedOwn DEF r
<1> QED
  BY <1>6, <1>7, <1>8, <1>9 DEF IInv

LEMMA LaunchSafe ==
    ASSUME IInv, NEW j \in Jobs, Launch(j), UNCHANGED <<plan, matrix, cancelled, client, faults>>
    PROVE  IInv'
<1>0. /\ Typed /\ Requested /\ JobsOwn /\ OneText /\ RunnerOwn /\ OneInstruction /\ PastThenPresent
  BY DEF IInv
<1>1. /\ jobs \in [Jobs -> Backed] /\ jobs[j].phase = "pending"
      /\ jobs' = [jobs EXCEPT ![j] = [jobs[j] EXCEPT !.phase = "loading"]]
      /\ server' = server /\ queue' = queue /\ replies' = replies
  BY <1>0 DEF Launch, Typed
<1>2. /\ jobs' \in [Jobs -> Backed] /\ jobs'[j].phase = "loading"
      /\ jobs'[j].backend = jobs[j].backend
      /\ \A k \in Jobs : k # j => jobs'[k] = jobs[k]
  BY <1>1 DEF Backed, Phases
<1>3. Serving' = Serving /\ (Serving => server.job \in Jobs \ {j})
  BY <1>0, <1>1, State DEF Serving, JobsOwn
<1>4. ServerMoves
  <2>1. \A k \in Jobs : k \in Alive' => k \in Alive
    BY <1>1, <1>2 DEF Alive
  <2>2. /\ server' \in Servers \cup {None} /\ queue' \in Seq(Requests) /\ Len(queue') <= MaxQueue
        /\ replies' \in [Clients -> Told] /\ faults' = faults /\ faults \subseteq Faults
    BY <1>0, <1>1 DEF Typed, Told
  <2> QED
    BY <1>0, <1>1, <1>2, <1>3, <2>1, <2>2 DEF ServerMoves, JobsOwn
<1>5. Typed' /\ Counted' /\ Untouched' /\ JobsOwn' /\ ServerOwn' /\ ContainerOwn' /\ JobsLeft'
  BY <1>4, MovesCount
<1>6. Requested'
  BY <1>0, <1>1, <1>5, ClientsStay, QueueStays
<1>7. OneText'
  BY <1>0, <1>1, <1>2, <1>3 DEF OneText, Backend
<1>8. OneInstruction' /\ PastThenPresent'
  BY <1>0, <1>1, AnswersStand DEF NoneAnswered
<1>9. RunnerOwn'
  BY <1>0, <1>1, OwnStays DEF Undisturbed
<1> QED
  BY <1>5, <1>6, <1>7, <1>8, <1>9 DEF IInv

LEMMA BindSafe ==
    ASSUME IInv, NEW j \in Jobs, Bind(j), UNCHANGED <<plan, matrix, cancelled, client, faults>>
    PROVE  IInv'
<1>0. /\ Typed /\ Requested /\ RequestsOwn /\ FramesSent /\ FramesInOrder /\ JobsOwn /\ OneText
      /\ RunnerOwn /\ OneInstruction /\ PastThenPresent
  BY DEF IInv, Requested
<1>1. /\ jobs \in [Jobs -> Backed] /\ jobs[j].phase = "loading"
      /\ queue' = queue /\ replies' = replies
  BY <1>0 DEF Bind, Typed
<1> DEFINE new == [job |-> j, usable |-> TRUE, memory |-> NewMemory, previous |-> None]
<1>2. PICK phase :
        /\ jobs' = [jobs EXCEPT ![j] = [jobs[j] EXCEPT !.phase = phase]]
        /\ \/ Serving /\ phase = "ended" /\ server' = server
           \/ ~Serving /\ phase = "serving" /\ server' = new
  BY <1>1 DEF Bind
<1>3. /\ jobs' \in [Jobs -> Backed] /\ jobs'[j].phase = phase /\ phase \in {"ended", "serving"}
      /\ jobs'[j].backend = jobs[j].backend
      /\ \A k \in Jobs : k # j => jobs'[k] = jobs[k]
  BY <1>1, <1>2 DEF Backed, Phases
<1>4. /\ new \in Servers /\ new # None /\ new.memory.frames = <<>> /\ new.previous = None
      /\ DOMAIN <<>> = {} /\ new.job = j
  <2>1. /\ NewMemory = [frames |-> <<>>, text |-> "", poses |-> <<>>] /\ NewMemory.frames = <<>>
        /\ <<>> \in Seq(Frames) /\ DOMAIN <<>> = {}
    BY EmptySeq DEF NewMemory
  <2>2. NewMemory \in Memories
    BY <2>1 DEF Memories
  <2>3. new \in Servers
    BY <2>2 DEF Servers
  <2> QED
    BY <2>1, <2>3, ServerAssumption
<1> HIDE DEF new
<1>5. Serving => /\ Serving' /\ server' = server /\ server.job \in Jobs \ {j}
  BY <1>0, <1>1, <1>2, State DEF Serving, JobsOwn
<1>6. ServerMoves
  <2>1. \A k \in Jobs : /\ k \in Alive' => k \in Alive
                        /\ jobs[k].phase # "free" => jobs'[k].phase # "free"
    BY <1>1, <1>3 DEF Alive
  <2>2. /\ server' \in Servers \cup {None} /\ queue' \in Seq(Requests) /\ Len(queue') <= MaxQueue
        /\ replies' \in [Clients -> Told] /\ faults' = faults /\ faults \subseteq Faults
    BY <1>0, <1>1, <1>2, <1>4 DEF Typed, Told
  <2>3. Serving' => jobs'[server'.job].phase = "serving"
    BY <1>0, <1>2, <1>3, <1>4, <1>5 DEF JobsOwn
  <2> QED
    BY <1>1, <1>3, <1>5, <2>1, <2>2, <2>3 DEF ServerMoves
<1>7. Typed' /\ Counted' /\ Untouched' /\ JobsOwn' /\ ServerOwn' /\ ContainerOwn' /\ JobsLeft'
  BY <1>6, MovesCount
<1>8. Requested'
  <2>1. CASE Serving
    BY <1>0, <1>1, <1>5, <1>7, <2>1, ClientsStay, QueueStays
  <2>2. CASE ~Serving
    <3>1. server' = new
      BY <1>2, <2>2
    <3>2. MemoryGoesOn(0)
      BY <1>4, <3>1 DEF MemoryGoesOn, InOrder
    <3>3. QueueGoesOn(0)
      BY <1>0, <1>1, State DEF QueueGoesOn, Typed
    <3> QED
      BY <1>0, <1>7, <3>2, <3>3, ClientsStay, ServerGoesOn DEF Requested
  <2> QED
    BY <2>1, <2>2
<1>9. OneText'
  <2>1. CASE Serving
    BY <1>0, <1>3, <1>5, <2>1 DEF OneText, Backend
  <2>2. CASE ~Serving
    BY <1>2, <1>4, <2>2 DEF OneText
  <2> QED
    BY <2>1, <2>2
<1>10. OneInstruction' /\ PastThenPresent'
  BY <1>0, <1>1, AnswersStand DEF NoneAnswered
<1>11. RunnerOwn'
  BY <1>0, BindOwn
<1> QED
  BY <1>7, <1>8, <1>9, <1>10, <1>11 DEF IInv

LEMMA JobEndsSafe ==
    ASSUME IInv, NEW j \in Jobs, JobEnds(j), UNCHANGED <<plan, matrix, cancelled, client>>
    PROVE  IInv'
<1>0. /\ Typed /\ Requested /\ RequestsOwn /\ FramesSent /\ FramesInOrder /\ JobsOwn /\ OneText
      /\ RunnerOwn /\ OneInstruction /\ PastThenPresent
  BY DEF IInv, Requested
<1>1. /\ jobs \in [Jobs -> Backed] /\ j \in Alive /\ EndJob(j)
      /\ jobs' = [jobs EXCEPT ![j] = [jobs[j] EXCEPT !.phase = "ended"]]
      /\ faults \subseteq faults' /\ faults' \subseteq Faults
      /\ j \notin cancelled => "ended" \in faults'
  BY <1>0 DEF JobEnds, EndJob, Typed, Fault, Faults
<1>2. /\ jobs' \in [Jobs -> Backed] /\ jobs'[j].phase = "ended"
      /\ jobs'[j].backend = jobs[j].backend
      /\ \A k \in Jobs : k # j => jobs'[k] = jobs[k]
  BY <1>1 DEF Backed, Phases
<1>3. \/ UNCHANGED <<server, queue, replies>> /\ ~(Serving /\ server.job = j)
      \/ /\ Serving /\ server.job = j /\ server' = None /\ queue' = <<>>
         /\ replies' = [c \in Clients |-> IF replies[c] = Waiting THEN Dropped ELSE replies[c]]
  BY <1>1 DEF EndJob
<1>4. /\ server' \in Servers \cup {None} /\ queue' \in Seq(Requests) /\ Len(queue') <= MaxQueue
      /\ replies' \in [Clients -> Told]
  <2>1. /\ server \in Servers \cup {None} /\ queue \in Seq(Requests) /\ Len(queue) <= MaxQueue
        /\ replies \in [Clients -> Told]
    BY <1>0 DEF Typed, Told
  <2>2. <<>> \in Seq(Requests) /\ Len(<<>>) = 0 /\ 0 <= MaxQueue
    BY ServerAssumption, EmptySeq
  <2> QED
    BY <1>3, <2>1, <2>2 DEF Told
<1>5. NoneAnswered
  BY <1>3 DEF NoneAnswered, IsAnswer, Dropped
<1>6. ServerMoves
  <2>1. \A k \in Jobs : /\ k \in Alive' => k \in Alive
                        /\ jobs[k].phase # "free" => jobs'[k].phase # "free"
    BY <1>1, <1>2 DEF Alive
  <2>2. Serving' => jobs'[server'.job].phase = "serving"
    BY <1>0, <1>2, <1>3, State DEF JobsOwn, Serving
  <2>3. "ended" \notin faults' /\ Serving /\ server.job \notin cancelled =>
          Serving' /\ server'.job = server.job
    BY <1>1, <1>3 DEF Serving
  <2> QED
    BY <1>1, <1>2, <1>4, <1>5, <2>1, <2>2, <2>3 DEF ServerMoves, NoneAnswered
<1>7. Typed' /\ Counted' /\ Untouched' /\ JobsOwn' /\ ServerOwn' /\ ContainerOwn' /\ JobsLeft'
  BY <1>6, MovesCount
<1>8. Requested'
  <2>1. CASE UNCHANGED <<server, queue, replies>>
    BY <1>0, <1>7, <2>1, ClientsStay, QueueStays
  <2>2. CASE server' = None /\ queue' = <<>>
    <3>1. ~Serving' /\ DOMAIN queue' = {}
      BY <2>2, EmptySeq DEF Serving
    <3>2. MemoryGoesOn(0) /\ QueueGoesOn(0)
      BY <1>4, <3>1 DEF MemoryGoesOn, QueueGoesOn
    <3> QED
      BY <1>0, <1>7, <3>2, ClientsStay, ServerGoesOn DEF Requested
  <2> QED
    BY <1>3, <2>1, <2>2
<1>9. OneText'
  <2>1. ASSUME Serving'
        PROVE  Serving /\ server' = server /\ Backend' = Backend
    <3>1. Serving /\ server' = server /\ server.job \in Jobs
      BY <1>0, <1>3, <2>1, State DEF Serving
    <3> QED
      BY <1>2, <3>1 DEF Backend
  <2> QED
    BY <1>0, <2>1 DEF OneText
<1>10. OneInstruction' /\ PastThenPresent'
  BY <1>0, <1>5, AnswersStand
<1>11. RunnerOwn'
  BY <1>0, <1>1, EndJobOwn
<1> QED
  BY <1>7, <1>8, <1>9, <1>10, <1>11 DEF IInv

LEMMA ServerSafe ==
    ASSUME IInv, ServerStep
    PROVE  IInv'
<1>1. UNCHANGED <<plan, matrix, cancelled, client>>
  BY DEF ServerStep
<1>2. ASSUME ServeNext, UNCHANGED faults PROVE IInv'
  BY <1>1, <1>2, ServeNextSafe
<1>3. ASSUME NEW j \in Jobs, Launch(j), UNCHANGED faults PROVE IInv'
  BY <1>1, <1>3, LaunchSafe
<1>4. ASSUME NEW j \in Jobs, Bind(j), UNCHANGED faults PROVE IInv'
  BY <1>1, <1>4, BindSafe
<1>5. ASSUME NEW j \in Jobs, JobEnds(j) PROVE IInv'
  BY <1>1, <1>5, JobEndsSafe
<1> QED
  BY <1>2, <1>3, <1>4, <1>5 DEF ServerStep

(***************************************************************************)
(* Steps of the matrix.                                                    *)
(***************************************************************************)

LEMMA PlanHolds ==
    ASSUME Typed, Counted
    PROVE  /\ Episodes \in Nat \ {0} /\ PerRun \in Nat /\ Before \in Nat
           /\ MaxEpisodes \in Nat
           /\ matrix.model \in Nat \ {0} /\ matrix.episode \in Nat \ {0} /\ matrix.runs \in Nat \ {0}
           /\ matrix.runner \in Nat /\ matrix.job \in Jobs \cup {None} /\ matrix.pc \in Steps
           /\ (matrix.runs - 1) * PerRun + matrix.model * Episodes = Before + Episodes
           /\ Before + Episodes <= matrix.runs * PerRun
           /\ matrix.runs * PerRun <= MaxEpisodes
<1> DEFINE L == Len(plan.models)
           E == plan.episodes
           P == L * E
           m == matrix.model
           n == matrix.runs
<1>1. /\ E \in Nat \ {0} /\ plan.runs \in Nat \ {0} /\ L \in Nat \ {0}
      /\ L * E * plan.runs <= MaxEpisodes /\ MaxEpisodes \in Nat
  BY PlanIs, MatrixAssumption DEF Typed
<1>2. /\ m \in Nat \ {0} /\ matrix.episode \in Nat \ {0} /\ n \in Nat \ {0}
      /\ matrix.runner \in Nat /\ matrix.job \in Jobs \cup {None} /\ matrix.pc \in Steps
  BY DEF Typed, Driven
<1>3. m <= L /\ n <= plan.runs
  BY DEF Counted
<1>4. Episodes = E /\ PerRun = P /\ Before = (n - 1) * P + (m - 1) * E
  BY DEF Episodes, PerRun, Before
<1> HIDE DEF L, E, m, n
<1>5. P \in Nat /\ (n - 1) * P \in Nat /\ (m - 1) * E \in Nat /\ n - 1 \in Nat
  BY <1>1, <1>2
<1>6. m * E <= P
  BY <1>1, <1>2, <1>3, Monotone
<1>7. n * P <= plan.runs * P
  BY <1>1, <1>2, <1>3, <1>5, Monotone
<1>8. plan.runs * P = L * E * plan.runs
  BY <1>1
<1>9. (m - 1) * E + E = m * E /\ (n - 1) * P + P = n * P
  BY <1>1, <1>2, <1>5
<1> HIDE DEF P
<1>10. /\ (n - 1) * P + m * E = Before + E /\ Before + E <= n * P /\ Before \in Nat
       /\ n * P <= MaxEpisodes
  <2>1. m * E \in Nat /\ n * P \in Nat
    BY <1>1, <1>2, <1>5
  <2> QED
    BY <1>1, <1>4, <1>5, <1>6, <1>7, <1>8, <1>9, <2>1
<1> QED
  BY <1>1, <1>2, <1>4, <1>5, <1>10 DEF n, m

Matrix == Typed /\ Counted /\ Untouched /\ JobsOwn /\ ServerOwn /\ ContainerOwn /\ JobsLeft

\* Nothing happens to the clients and to the requests.
LEMMA QuietSafe ==
    ASSUME IInv, UNCHANGED <<server, queue, replies>>, ClientsGoOn, Matrix',
           faults \subseteq faults',
           \A c \in Runners : client'[c].pc \in {"reset", "run"} => client'[c].pc = client[c].pc,
           client'[Bridge] = client[Bridge],
           Serving => Backend' = Backend
    PROVE  IInv'
<1>0. /\ Typed /\ Typed' /\ Requested /\ OneText /\ RunnerOwn /\ OneInstruction /\ PastThenPresent
  BY DEF IInv, Matrix
<1>1. server' = server /\ queue' = queue /\ replies' = replies
  OBVIOUS
<1>2. Requested'
  BY <1>0, <1>1, QueueStays
<1>3. OneText'
  BY <1>0, <1>1 DEF OneText, Serving
<1>4. OneInstruction' /\ PastThenPresent'
  BY <1>0, <1>1, AnswersStand DEF NoneAnswered
<1>5. RunnerOwn'
  BY <1>0, OwnStays DEF Undisturbed
<1> QED
  BY <1>2, <1>3, <1>4, <1>5 DEF IInv, Matrix

LEMMA EpisodeIs ==
    ASSUME NEW m \in Driven, NEW e \in Nat \ {0}
    PROVE  /\ [m EXCEPT !.episode = e] \in Driven /\ [m EXCEPT !.episode = e].episode = e
           /\ [m EXCEPT !.episode = e].pc = m.pc /\ [m EXCEPT !.episode = e].job = m.job
           /\ [m EXCEPT !.episode = e].model = m.model /\ [m EXCEPT !.episode = e].runs = m.runs
           /\ [m EXCEPT !.episode = e].runner = m.runner
BY DEF Driven

LEMMA SubmitSafe ==
    ASSUME IInv, Submit
    PROVE  IInv'
<1>0. Typed /\ Counted /\ Untouched /\ JobsOwn /\ ServerOwn /\ ContainerOwn /\ JobsLeft
  BY DEF IInv
<1>1. /\ matrix.pc = "submit" /\ UNCHANGED <<server, queue, replies, plan, client, cancelled>>
      /\ plan' = plan /\ client' = client /\ cancelled' = cancelled /\ replies' = replies
      /\ server' = server
  BY DEF Submit, serverVars
<1>2. /\ matrix \in Driven /\ plan.models[matrix.model] \in Kinds /\ jobs \in [Jobs -> Backed]
      /\ matrix.model \in 1 .. Len(plan.models)
  <2>1. matrix \in Driven /\ matrix.model \in Nat \ {0} /\ matrix.model <= Len(plan.models)
    BY <1>0, PlanHolds DEF Typed, Counted
  <2>2. plan.models \in Seq(Kinds) /\ Len(plan.models) \in Nat /\ plan \in Plans
    BY <1>0, PlanIs DEF Typed
  <2>3. matrix.model \in 1 .. Len(plan.models)
    BY <2>1, <2>2
  <2> QED
    BY <1>0, <2>1, <2>2, <2>3, ElementOfSeq DEF Typed
<1>3. PICK j \in Jobs : \/ SubmitJob(j, plan.models[matrix.model])
                           /\ matrix' = [matrix EXCEPT !.pc = "wait", !.job = j, !.episode = 1]
                           /\ faults' = faults
                        \/ SubmitJob(j, plan.models[matrix.model])
                           /\ Fault("leak") /\ matrix' = [matrix EXCEPT !.pc = "failed"]
                        \/ matrix' = [matrix EXCEPT !.pc = "failed"] /\ faults' = faults /\ jobs' = jobs
  <2>1. 1 \in Jobs
    BY ServerAssumption DEF Jobs
  <2> QED
    BY <2>1 DEF Submit, Go, serverVars
<1>4. faults \subseteq faults' /\ faults' \subseteq Faults
  BY <1>0, <1>3 DEF Fault, Faults, Typed
<1>5. ClientsGoOn
  BY <1>0, <1>1, ClientsStay
<1>6. /\ matrix' \in Driven /\ matrix'.model = matrix.model /\ matrix'.runner = matrix.runner
      /\ matrix'.runs = matrix.runs /\ matrix'.episode \in {matrix.episode, 1}
      /\ \/ matrix'.pc = "failed"
         \/ matrix'.pc = "wait" /\ matrix'.job = j
  <2>1. CASE matrix' = [matrix EXCEPT !.pc = "wait", !.job = j, !.episode = 1]
    <3>1. /\ matrix'.model = matrix.model /\ matrix'.runner = matrix.runner
          /\ matrix'.runs = matrix.runs /\ matrix'.episode = 1 /\ matrix'.pc = "wait"
          /\ matrix'.job = j
      BY <1>2, <2>1 DEF Driven
    <3>2. [matrix EXCEPT !.pc = "wait", !.job = j] \in Driven
      BY <1>2 DEF Driven, Steps
    <3>3. matrix' = [[matrix EXCEPT !.pc = "wait", !.job = j] EXCEPT !.episode = 1]
      BY <2>1
    <3>4. matrix' \in Driven
      <4>1. 1 \in Nat \ {0}
        OBVIOUS
      <4> QED
        BY <3>2, <3>3, <4>1, EpisodeIs
    <3> QED
      BY <3>1, <3>4
  <2>2. CASE matrix' = [matrix EXCEPT !.pc = "failed"]
    <3>1. /\ matrix' \in Driven /\ matrix'.model = matrix.model /\ matrix'.runner = matrix.runner
          /\ matrix'.runs = matrix.runs /\ matrix'.episode = matrix.episode
          /\ matrix'.pc = "failed"
      BY <1>2, <2>2 DEF Driven, Steps
    <3> QED
      BY <3>1
  <2> QED
    BY <1>3, <2>1, <2>2
<1>7. \/ jobs' = jobs
      \/ /\ jobs' = [jobs EXCEPT ![j] = [backend |-> plan.models[matrix.model], phase |-> "pending"]]
         /\ jobs[j].phase = "free"
  BY <1>3 DEF SubmitJob
<1>8. /\ jobs' \in [Jobs -> Backed]
      /\ \A k \in Jobs : k # j => jobs'[k] = jobs[k]
      /\ \A k \in Jobs : jobs[k].phase # "free" => jobs'[k] = jobs[k]
  BY <1>2, <1>7 DEF Backed, Phases
<1>9. Typed'
  BY <1>0, <1>1, <1>4, <1>6, <1>8 DEF Typed
<1>10. Counted'
  <2>1. Episodes' = Episodes /\ Before' = Before /\ PerRun' = PerRun
    BY <1>1, <1>6 DEF Episodes, Before, PerRun
  <2>2. 1 <= Episodes
    BY <1>0, PlanHolds
  <2> QED
    BY <1>0, <1>1, <1>6, <2>1, <2>2 DEF Counted
<1>11. Untouched'
  BY <1>0, <1>1, <1>6 DEF Untouched, IsAnswer
<1>12. matrix'.pc = "wait" => j \notin cancelled /\ jobs'[j].phase = "pending"
  <2>1. matrix'.pc = "wait" => SubmitJob(j, plan.models[matrix.model])
    BY <1>2, <1>3 DEF Driven
  <2>2. SubmitJob(j, plan.models[matrix.model]) => jobs[j].phase = "free" /\ jobs'[j].phase = "pending"
    BY <1>2 DEF SubmitJob
  <2> QED
    BY <1>0, <2>1, <2>2 DEF JobsOwn
<1>13. JobsOwn'
  <2>1. Serving' => jobs'[server'.job].phase = "serving"
    BY <1>0, <1>1, <1>8, State DEF JobsOwn, Serving
  <2>2. \A k \in cancelled' : jobs'[k].phase # "free"
    BY <1>0, <1>1, <1>8 DEF JobsOwn, Typed
  <2> QED
    BY <1>1, <1>6, <1>12, <2>1, <2>2 DEF JobsOwn
<1>14. ServerOwn'
  BY <1>6 DEF ServerOwn
<1>15. ContainerOwn'
  BY <1>0, <1>1, <1>4, <1>6 DEF ContainerOwn, InContainer
<1>16. JobsLeft'
  <2>1. faults' = {} => Alive \subseteq cancelled
    BY <1>0, <1>1, <1>4 DEF JobsLeft
  <2>2. Alive' \subseteq Alive \cup {j}
    BY <1>8 DEF Alive
  <2>3. faults' = {} => matrix'.pc = "wait" \/ Alive' = Alive
    BY <1>2, <1>3 DEF Fault, Alive, Driven
  <2> QED
    BY <1>1, <1>6, <2>1, <2>2, <2>3 DEF JobsLeft
<1>17. Serving => Backend' = Backend
  BY <1>0, <1>1, <1>8, State DEF JobsOwn, Backend
<1> QED
  BY <1>1, <1>4, <1>5, <1>9, <1>10, <1>11, <1>13, <1>14, <1>15, <1>16, <1>17, QuietSafe DEF Matrix

\* Only the matrix itself goes on.
LEMMA MatrixSafe ==
    ASSUME IInv, UNCHANGED <<serverVars, plan, client>>,
           matrix' \in Driven, matrix'.runner = matrix.runner,
           faults \subseteq faults', faults' \subseteq Faults, cancelled' \subseteq Jobs,
           Counted', JobsOwn', ServerOwn', ContainerOwn', JobsLeft'
    PROVE  IInv'
<1>1. /\ jobs' = jobs /\ server' = server /\ queue' = queue /\ replies' = replies /\ plan' = plan
      /\ client' = client
  BY DEF serverVars
<1>2. Typed'
  BY <1>1 DEF IInv, Typed
<1>3. Untouched'
  BY <1>1 DEF IInv, Untouched, IsAnswer
<1>4. ClientsGoOn
  BY <1>1, ClientsStay DEF IInv
<1>5. Serving => Backend' = Backend
  BY <1>1 DEF Backend
<1> QED
  BY <1>1, <1>2, <1>3, <1>4, <1>5, QuietSafe DEF Matrix

\* The next stage, with or without an exception.
GoesOn(pc) ==
    \/ matrix' = [matrix EXCEPT !.pc = pc]
    \/ matrix' = [matrix EXCEPT !.pc = pc, !.failing = TRUE]

LEMMA DrivenGoesOn ==
    ASSUME matrix \in Driven, NEW pc, pc \in Steps, GoesOn(pc)
    PROVE  /\ matrix' \in Driven /\ matrix'.pc = pc /\ matrix'.model = matrix.model
           /\ matrix'.job = matrix.job /\ matrix'.runner = matrix.runner
           /\ matrix'.runs = matrix.runs /\ matrix'.episode = matrix.episode
<1>1. CASE matrix' = [matrix EXCEPT !.pc = pc]
  BY <1>1 DEF Driven
<1>2. CASE matrix' = [matrix EXCEPT !.pc = pc, !.failing = TRUE]
  BY <1>2 DEF Driven
<1> QED
  BY <1>1, <1>2 DEF GoesOn

\* To another stage of the same model with the same episode.
LEMMA StageSafe ==
    ASSUME IInv, UNCHANGED <<serverVars, plan, client, faults, cancelled>>,
           NEW pc \in {"sim", "cancel"},
           matrix' \in Driven, matrix'.pc = pc, matrix'.model = matrix.model,
           matrix'.job = matrix.job, matrix'.runner = matrix.runner, matrix'.runs = matrix.runs,
           matrix'.episode <= Episodes,
           matrix.pc \in {"wait", "sim", "start", "episode"},
           pc = "sim" => /\ matrix.runner <= Before + matrix'.episode - 1
                         /\ "ended" \notin faults => Serving /\ server.job = matrix.job
    PROVE  IInv'
<1>0. Typed /\ Counted /\ Untouched /\ JobsOwn /\ ServerOwn /\ ContainerOwn /\ JobsLeft
  BY DEF IInv
<1>1. /\ jobs' = jobs /\ server' = server /\ queue' = queue /\ replies' = replies /\ plan' = plan
      /\ client' = client /\ faults' = faults /\ cancelled' = cancelled
  BY DEF serverVars
<1>2. Counted'
  <2>1. Episodes' = Episodes /\ Before' = Before /\ PerRun' = PerRun
    BY <1>1 DEF Episodes, Before, PerRun
  <2> QED
    BY <1>0, <1>1, <2>1 DEF Counted
<1>3. JobsOwn'
  BY <1>0, <1>1 DEF JobsOwn, Serving
<1>4. ServerOwn'
  BY <1>1 DEF ServerOwn, Serving
<1>5. ContainerOwn'
  BY <1>0, <1>1 DEF ContainerOwn, InContainer
<1>6. JobsLeft'
  BY <1>0, <1>1 DEF JobsLeft, Alive
<1>7. faults' \subseteq Faults /\ cancelled' \subseteq Jobs
  BY <1>0, <1>1 DEF Typed
<1> QED
  BY <1>1, <1>2, <1>3, <1>4, <1>5, <1>6, <1>7, MatrixSafe

LEMMA WaitServerSafe ==
    ASSUME IInv, WaitServer
    PROVE  IInv'
<1>0. Typed /\ Counted /\ matrix \in Driven /\ "sim" \in Steps /\ "cancel" \in Steps
  BY DEF IInv, Typed, Steps
<1>1. /\ matrix.pc = "wait" /\ UNCHANGED <<serverVars, plan, client, faults, cancelled>>
      /\ (Health(matrix.job) /\ GoesOn("sim")) \/ GoesOn("cancel")
  BY DEF WaitServer, Go, Raise, GoesOn
<1>2. matrix.episode \in Nat \ {0} /\ Before \in Nat /\ matrix.runner \in Nat
      /\ matrix.episode <= Episodes /\ matrix.runner <= Before
  BY <1>0, <1>1, PlanHolds DEF Counted
<1>3. matrix.runner <= Before + matrix.episode - 1
  BY <1>2
<1>4. CASE Health(matrix.job) /\ GoesOn("sim")
  <2>1. /\ matrix' \in Driven /\ matrix'.pc = "sim" /\ matrix'.model = matrix.model
        /\ matrix'.job = matrix.job /\ matrix'.runner = matrix.runner
        /\ matrix'.runs = matrix.runs /\ matrix'.episode = matrix.episode
    BY <1>0, <1>4, DrivenGoesOn
  <2>2. Serving /\ server.job = matrix.job
    BY <1>4 DEF Health
  <2> QED
    BY <1>1, <1>2, <1>3, <2>1, <2>2, StageSafe
<1>5. CASE GoesOn("cancel")
  <2>1. /\ matrix' \in Driven /\ matrix'.pc = "cancel" /\ matrix'.model = matrix.model
        /\ matrix'.job = matrix.job /\ matrix'.runner = matrix.runner
        /\ matrix'.runs = matrix.runs /\ matrix'.episode = matrix.episode
    BY <1>0, <1>5, DrivenGoesOn
  <2> QED
    BY <1>1, <1>2, <2>1, StageSafe
<1> QED
  BY <1>1, <1>4, <1>5

LEMMA AwaitEpisodeSafe ==
    ASSUME IInv, AwaitEpisode
    PROVE  IInv'
<1>0. /\ Typed /\ Counted /\ ServerOwn /\ matrix \in Driven /\ "sim" \in Steps /\ "cancel" \in Steps
      /\ matrix.episode \in Nat /\ Episodes \in Nat /\ Before \in Nat /\ matrix.runner \in Nat
      /\ matrix.episode <= Episodes
  BY PlanHolds DEF IInv, Typed, Steps, Counted
<1>1. /\ matrix.pc = "episode" /\ UNCHANGED <<serverVars, plan, client, faults, cancelled>>
      /\ \/ /\ matrix.episode < Episodes
            /\ matrix' = [matrix EXCEPT !.pc = "sim", !.episode = matrix.episode + 1]
         \/ GoesOn("cancel")
  BY <1>0 DEF AwaitEpisode, NextEpisode, Raise, Episodes, GoesOn
<1>2. CASE matrix.episode < Episodes
           /\ matrix' = [matrix EXCEPT !.pc = "sim", !.episode = matrix.episode + 1]
  <2> DEFINE n == [matrix EXCEPT !.pc = "sim"]
  <2>1. /\ n \in Driven /\ n.pc = "sim" /\ n.model = matrix.model
        /\ n.job = matrix.job /\ n.runner = matrix.runner /\ n.runs = matrix.runs
    BY <1>0 DEF Driven
  <2>2. matrix' = [n EXCEPT !.episode = matrix.episode + 1]
    BY <1>2
  <2>3. matrix.episode + 1 \in Nat \ {0} /\ matrix.episode + 1 <= Episodes
    BY <1>0, <1>2
  <2> HIDE DEF n
  <2>4. /\ matrix' \in Driven /\ matrix'.pc = "sim" /\ matrix'.model = matrix.model
        /\ matrix'.job = matrix.job /\ matrix'.runner = matrix.runner /\ matrix'.runs = matrix.runs
        /\ matrix'.episode = matrix.episode + 1
    BY <2>1, <2>2, <2>3, EpisodeIs
  <2>5. matrix.runner <= Before + matrix'.episode - 1 /\ matrix'.episode <= Episodes
    <3>1. matrix.runner <= Before + matrix.episode
      BY <1>0, <1>1 DEF Counted
    <3> QED
      BY <1>0, <2>3, <2>4, <3>1
  <2>6. "ended" \notin faults => Serving /\ server.job = matrix.job
    BY <1>0, <1>1 DEF ServerOwn
  <2> QED
    BY <1>1, <2>4, <2>5, <2>6, StageSafe
<1>3. CASE GoesOn("cancel")
  <2>1. /\ matrix' \in Driven /\ matrix'.pc = "cancel" /\ matrix'.model = matrix.model
        /\ matrix'.job = matrix.job /\ matrix'.runner = matrix.runner /\ matrix'.runs = matrix.runs
        /\ matrix'.episode = matrix.episode
    BY <1>0, <1>3, DrivenGoesOn
  <2> QED
    BY <1>0, <1>1, <2>1, StageSafe
<1> QED
  BY <1>1, <1>2, <1>3

LEMMA CancelSafe ==
    ASSUME IInv, Cancel
    PROVE  IInv'
<1>0. /\ Typed /\ Counted /\ Untouched /\ JobsOwn /\ ServerOwn /\ ContainerOwn /\ JobsLeft
      /\ matrix \in Driven /\ "stop" \in Steps
  BY DEF IInv, Typed, Steps
<1>1. /\ matrix.pc = "cancel" /\ UNCHANGED <<serverVars, plan, client>>
      /\ \/ /\ cancelled' = cancelled \cup {matrix.job} /\ faults' = faults
         \/ cancelled' = cancelled /\ faults' = faults \cup {"scancel"}
      /\ GoesOn("stop")
  BY DEF Cancel, Go, Fault, GoesOn
<1>2. /\ matrix' \in Driven /\ matrix'.pc = "stop" /\ matrix'.model = matrix.model
      /\ matrix'.runner = matrix.runner /\ matrix'.runs = matrix.runs
      /\ matrix'.episode = matrix.episode
  BY <1>0, <1>1, DrivenGoesOn
<1>3. /\ jobs' = jobs /\ server' = server /\ queue' = queue /\ replies' = replies /\ plan' = plan
      /\ client' = client
  BY <1>1 DEF serverVars
<1>4. matrix.job \in Jobs /\ jobs[matrix.job].phase # "free"
  BY <1>0, <1>1 DEF JobsOwn
<1>5. faults \subseteq faults' /\ faults' \subseteq Faults /\ cancelled' \subseteq Jobs
  BY <1>0, <1>1, <1>4 DEF Typed, Faults
<1>6. Counted'
  <2>1. Episodes' = Episodes /\ Before' = Before /\ PerRun' = PerRun
    BY <1>2, <1>3 DEF Episodes, Before, PerRun
  <2> QED
    BY <1>0, <1>2, <1>3, <2>1 DEF Counted
<1>7. JobsOwn'
  BY <1>0, <1>1, <1>2, <1>3, <1>4 DEF JobsOwn, Serving
<1>8. ServerOwn'
  BY <1>2 DEF ServerOwn
<1>9. ContainerOwn'
  BY <1>0, <1>2, <1>3, <1>5 DEF ContainerOwn, InContainer
<1>10. JobsLeft'
  <2>1. faults' = {} => cancelled' = cancelled \cup {matrix.job} /\ faults = {}
    BY <1>1
  <2> QED
    BY <1>0, <1>1, <1>3, <2>1 DEF JobsLeft, Alive
<1> QED
  BY <1>1, <1>2, <1>5, <1>6, <1>7, <1>8, <1>9, <1>10, MatrixSafe

LEMMA RerunSafe ==
    ASSUME IInv, Rerun
    PROVE  IInv'
<1>0. /\ Typed /\ Counted /\ Untouched /\ JobsOwn /\ ServerOwn /\ ContainerOwn /\ JobsLeft
      /\ matrix \in Driven
  BY DEF IInv, Typed
<1>1. /\ matrix.pc = "failed" /\ UNCHANGED <<serverVars, plan, client, faults, cancelled>>
      /\ matrix.runs < plan.runs
      /\ matrix' = [matrix EXCEPT !.pc = "submit", !.model = 1, !.job = None,
                                  !.failing = FALSE, !.runs = matrix.runs + 1]
  BY <1>0 DEF Rerun, Driven
<1>2. /\ matrix.runs \in Nat \ {0} /\ plan.runs \in Nat /\ matrix.runs + 1 \in Nat \ {0}
      /\ matrix.runs + 1 <= plan.runs /\ Len(plan.models) \in Nat \ {0} /\ 1 \in Nat \ {0}
      /\ PerRun \in Nat /\ Episodes \in Nat /\ Before \in Nat /\ matrix.runner \in Nat
      /\ Before + Episodes <= matrix.runs * PerRun
  <2>1. /\ matrix.runs \in Nat \ {0} /\ PerRun \in Nat /\ Episodes \in Nat /\ Before \in Nat
        /\ matrix.runner \in Nat /\ Before + Episodes <= matrix.runs * PerRun
    BY <1>0, PlanHolds
  <2>2. plan.runs \in Nat /\ Len(plan.models) \in Nat \ {0}
    BY <1>0, PlanIs DEF Typed
  <2>3. matrix.runs + 1 \in Nat \ {0} /\ matrix.runs + 1 <= plan.runs
    BY <1>1, <2>1, <2>2
  <2> QED
    BY <2>1, <2>2, <2>3
<1>3. /\ matrix' = [pc |-> "submit", model |-> 1, episode |-> matrix.episode, job |-> None,
                    runner |-> matrix.runner, failing |-> FALSE, runs |-> matrix.runs + 1]
  BY <1>0, <1>1 DEF Driven
<1>4. /\ matrix'.pc = "submit" /\ matrix'.model = 1 /\ matrix'.runner = matrix.runner
      /\ matrix'.runs = matrix.runs + 1 /\ matrix'.episode = matrix.episode
  BY <1>3
<1>5. matrix' \in Driven
  BY <1>0, <1>2, <1>3 DEF Driven, Steps
<1>6. /\ jobs' = jobs /\ server' = server /\ queue' = queue /\ replies' = replies /\ plan' = plan
      /\ client' = client /\ faults' = faults /\ cancelled' = cancelled
  BY <1>1 DEF serverVars
<1>7. Counted'
  <2>1. Episodes' = Episodes /\ PerRun' = PerRun
    BY <1>6 DEF Episodes, PerRun
  <2>2. Before' = matrix.runs * PerRun
    BY <1>2, <1>4, <2>1 DEF Before
  <2>3. matrix.runner <= Before + Episodes
    BY <1>0 DEF Counted
  <2>4. matrix.runs * PerRun \in Nat
    BY <1>2
  <2>5. matrix.runner <= Before' /\ matrix.runner <= Before' + Episodes
    BY <1>2, <2>2, <2>3, <2>4
  <2> QED
    BY <1>0, <1>2, <1>4, <1>6, <2>1, <2>5 DEF Counted
<1>8. JobsOwn'
  BY <1>0, <1>4, <1>6 DEF JobsOwn, Serving
<1>9. ServerOwn'
  BY <1>4 DEF ServerOwn
<1>10. ContainerOwn'
  BY <1>0, <1>1, <1>4, <1>6 DEF ContainerOwn, InContainer
<1>11. JobsLeft'
  BY <1>0, <1>1, <1>4, <1>6 DEF JobsLeft, Alive
<1>12. faults' \subseteq Faults /\ cancelled' \subseteq Jobs
  BY <1>0, <1>6 DEF Typed
<1> QED
  BY <1>1, <1>4, <1>5, <1>6, <1>7, <1>8, <1>9, <1>10, <1>11, <1>12, MatrixSafe

Texts == {"", "left", "right"}
Started(job, text) == [Idle EXCEPT !.pc = "start", !.job = job, !.text = text]

LEMMA StartsIdle ==
    ASSUME NEW job \in Jobs, NEW text \in Texts
    PROVE  /\ Started(job, text) \in Sender /\ Started(job, text).pc = "start"
           /\ Started(job, text).job = job /\ Started(job, text).sent = 0
<1>1. Idle \in Sender
  BY DEF Idle, Sender
<1>2. Idle.sent = 0
  BY DEF Idle
<1> QED
  BY <1>1, <1>2 DEF Sender, Started, Texts

LEMMA StartEpisodeSafe ==
    ASSUME IInv, StartEpisode
    PROVE  IInv'
<1>0. /\ Typed /\ Counted /\ Untouched /\ JobsOwn /\ ServerOwn /\ ContainerOwn /\ JobsLeft
      /\ matrix \in Driven /\ client \in [Clients -> Sender]
  BY DEF IInv, Typed
<1> PICK c1 : c1 = matrix.runner + 1
  OBVIOUS
<1> DEFINE new == Started(matrix.job, Text(matrix.episode))
<1>1. /\ matrix.pc = "start" /\ UNCHANGED <<serverVars, plan, faults, cancelled>>
      /\ matrix' = [matrix EXCEPT !.pc = "episode", !.runner = matrix.runner + 1]
      /\ client' = [client EXCEPT ![c1] = new]
  <2>1. matrix.pc = "start" /\ UNCHANGED <<serverVars, plan, faults, cancelled>>
    BY DEF StartEpisode
  <2>2. matrix' = [matrix EXCEPT !.pc = "episode", !.runner = matrix.runner + 1]
    BY <1>0 DEF StartEpisode, Driven
  <2>3. client' = [client EXCEPT ![c1] = new]
    BY DEF StartEpisode, Started
  <2> QED
    BY <2>1, <2>2, <2>3
<1>2. /\ jobs' = jobs /\ server' = server /\ queue' = queue /\ replies' = replies /\ plan' = plan
      /\ faults' = faults /\ cancelled' = cancelled
  BY <1>1 DEF serverVars
<1>3. /\ matrix.runner \in Nat /\ matrix.episode \in Nat \ {0} /\ Before \in Nat
      /\ Episodes \in Nat \ {0} /\ MaxEpisodes \in Nat /\ matrix.runs * PerRun \in Nat
      /\ matrix.runner <= Before + matrix.episode - 1 /\ matrix.episode <= Episodes
      /\ Before + Episodes <= matrix.runs * PerRun /\ matrix.runs * PerRun <= MaxEpisodes
      /\ matrix.job \in Jobs /\ plan.frames \in Nat \ {0}
  <2>1. /\ matrix.runner \in Nat /\ matrix.episode \in Nat \ {0} /\ Before \in Nat
        /\ Episodes \in Nat \ {0} /\ MaxEpisodes \in Nat /\ matrix.runs \in Nat /\ PerRun \in Nat
        /\ Before + Episodes <= matrix.runs * PerRun /\ matrix.runs * PerRun <= MaxEpisodes
    BY <1>0, PlanHolds
  <2>2. matrix.runs * PerRun \in Nat
    BY <2>1
  <2>3. /\ matrix.runner <= Before + matrix.episode - 1 /\ matrix.episode <= Episodes
        /\ matrix.job \in Jobs
    BY <1>0, <1>1 DEF Counted, JobsOwn
  <2>4. plan.frames \in Nat \ {0}
    BY <1>0, PlanIs DEF Typed
  <2> QED
    BY <2>1, <2>2, <2>3, <2>4
<1>4. /\ c1 \in Nat /\ 1 <= c1 /\ c1 <= Before + matrix.episode /\ c1 <= Before + Episodes
      /\ c1 <= MaxEpisodes
  BY <1>3
<1>5. c1 \in Runners /\ c1 \in Clients /\ c1 # Bridge
  <2>1. c1 \in Runners
    BY <1>3, <1>4 DEF Runners
  <2> QED
    BY <2>1, RunnersAre
<1>6. client[c1].pc = "off" /\ ~IsAnswer(c1)
  BY <1>3, <1>5, <1>0 DEF Untouched
<1>7. /\ matrix' \in Driven /\ matrix'.pc = "episode" /\ matrix'.runner = c1
      /\ matrix'.model = matrix.model /\ matrix'.runs = matrix.runs /\ matrix'.job = matrix.job
      /\ matrix'.episode = matrix.episode
  <2>1. c1 \in Nat /\ matrix' = [matrix EXCEPT !.pc = "episode", !.runner = c1]
    BY <1>1, <1>4
  <2> QED
    BY <1>0, <2>1 DEF Driven, Steps
<1>8. /\ new \in Sender /\ new.pc = "start" /\ new.job = matrix.job /\ new.sent = 0
  <2>1. Text(matrix.episode) \in Texts
    BY DEF Text, Texts
  <2> QED
    BY <1>3, <2>1, StartsIdle
<1> HIDE DEF new
<1>9. /\ client' \in [Clients -> Sender] /\ client'[c1] = new
      /\ \A c \in Clients : c # c1 => client'[c] = client[c]
  BY <1>0, <1>1, <1>5, <1>8
<1>10. Typed'
  BY <1>0, <1>2, <1>7, <1>9 DEF Typed
<1>11. Counted'
  <2>1. Episodes' = Episodes /\ Before' = Before /\ PerRun' = PerRun
    BY <1>2, <1>7 DEF Episodes, Before, PerRun
  <2>2. \A c \in Clients : client'[c].sent <= plan'.frames
    BY <1>0, <1>2, <1>3, <1>8, <1>9 DEF Counted
  <2> QED
    BY <1>0, <1>2, <1>4, <1>5, <1>7, <2>1, <2>2 DEF Counted
<1>12. Untouched'
  <2> SUFFICES ASSUME NEW c \in Runners, c > matrix'.runner
               PROVE  client'[c].pc = "off" /\ ~IsAnswer(c)'
    BY DEF Untouched
  <2>1. c > matrix.runner /\ c # c1 /\ c \in Clients
    <3>1. c \in Nat /\ c1 \in Nat /\ c > c1
      BY <1>4, <1>7, MatrixAssumption DEF Runners
    <3> QED
      BY <1>3, <3>1, RunnersAre
  <2>2. client[c].pc = "off" /\ ~IsAnswer(c)
    BY <1>0, <2>1 DEF Untouched
  <2> QED
    BY <1>2, <1>9, <2>1, <2>2 DEF IsAnswer
<1>13. JobsOwn'
  BY <1>0, <1>1, <1>2, <1>7 DEF JobsOwn, Serving
<1>14. ServerOwn'
  <2>1. ~IsAnswer(c1)'
    BY <1>2, <1>6 DEF IsAnswer
  <2> QED
    BY <1>0, <1>1, <1>2, <1>7, <1>8, <1>9, <2>1 DEF ServerOwn, Serving
<1>15. ContainerOwn'
  <2> SUFFICES ASSUME "stop" \notin faults
               PROVE  InContainer' \cap Runners \subseteq {c1}
    BY <1>2, <1>7 DEF ContainerOwn
  <2>1. InContainer \cap Runners = {}
    BY <1>0, <1>1 DEF ContainerOwn
  <2> QED
    BY <1>9, <2>1 DEF InContainer
<1>16. JobsLeft'
  BY <1>0, <1>1, <1>2, <1>7 DEF JobsLeft, Alive
<1>17. ClientsGoOn
  <2>1. \A c \in Clients : client[c].sent \in Nat
    BY <1>0, State DEF Sender
  <2> QED
    BY <1>6, <1>8, <1>9, <2>1 DEF ClientsGoOn
<1>18. /\ client'[Bridge] = client[Bridge]
       /\ \A c \in Runners : client'[c].pc \in {"reset", "run"} => client'[c].pc = client[c].pc
       /\ Serving => Backend' = Backend
  BY <1>2, <1>5, <1>8, <1>9, RunnersAre DEF Backend
<1> QED
  BY <1>2, <1>10, <1>11, <1>12, <1>13, <1>14, <1>15, <1>16, <1>17, <1>18, QuietSafe DEF Matrix

\* docker stop, before an episode or after the last one of a model.
LEMMA DockerStopSafe ==
    ASSUME IInv, DockerStop, UNCHANGED <<plan, cancelled>>,
           matrix' \in Driven, matrix'.runner = matrix.runner,
           \/ /\ matrix'.pc \in {"start", "cancel"} /\ matrix.pc = "sim"
              /\ matrix'.job = matrix.job
           \/ matrix'.pc \in {"submit", "done", "failed"} /\ matrix.pc = "stop",
           matrix'.model <= Len(plan.models), matrix'.runs <= plan.runs,
           matrix'.episode <= Episodes,
           matrix'.pc = "submit" => matrix.runner <= Before',
           matrix'.pc = "start" => matrix.runner <= Before' + matrix'.episode - 1,
           matrix.runner <= Before' + Episodes
    PROVE  IInv'
<1>0. /\ Typed /\ Counted /\ Untouched /\ JobsOwn /\ ServerOwn /\ ContainerOwn /\ JobsLeft
      /\ Requested /\ OneText /\ RunnerOwn /\ OneInstruction /\ PastThenPresent
  BY DEF IInv
<1>1. /\ jobs' = jobs /\ server' = server /\ plan' = plan /\ cancelled' = cancelled
      /\ faults \subseteq faults' /\ faults' \subseteq Faults
      /\ Kill \/ ("stop" \in faults' /\ UNCHANGED <<serverVars, client>>)
  BY <1>0 DEF DockerStop, Kill, Fault, Faults, serverVars, Typed
<1>2. ASSUME \A c \in Clients : client'[c].sent = client[c].sent
      PROVE  Counted'
  <2>1. Episodes' = Episodes
    BY <1>1 DEF Episodes
  <2> QED
    BY <1>0, <1>1, <1>2, <2>1 DEF Counted
<1>3. JobsOwn'
  BY <1>0, <1>1 DEF JobsOwn, Serving
<1>4. ServerOwn'
  BY <1>0, <1>1 DEF ServerOwn, Serving
<1>5. JobsLeft'
  BY <1>0, <1>1 DEF JobsLeft, Alive
<1>6. CASE "stop" \in faults' /\ UNCHANGED <<serverVars, client>>
  <2>1. ContainerOwn' /\ cancelled' \subseteq Jobs
    BY <1>0, <1>1, <1>6 DEF ContainerOwn, Typed
  <2>2. Counted'
    BY <1>2, <1>6
  <2> QED
    BY <1>1, <1>3, <1>4, <1>5, <1>6, <2>1, <2>2, MatrixSafe
<1>7. CASE Kill
  <2>1. /\ client' = [c \in Clients |->
              IF c \in InContainer THEN [client[c] EXCEPT !.pc = "died"] ELSE client[c]]
        /\ Forget(InContainer)
    BY <1>7 DEF Kill
  <2>2. ASSUME NEW c \in Clients
        PROVE  /\ client'[c] \in Sender /\ client'[c].sent = client[c].sent
               /\ client'[c].job = client[c].job
               /\ client'[c].pc \notin {"start", "reset", "run"}
               /\ client'[c].pc \in {"off", "died"} \/ client'[c].pc = client[c].pc
               /\ client'[c].pc = "off" <=> client[c].pc = "off"
    <3>1. client[c] \in Sender
      BY <1>0, State
    <3>2. CASE c \in InContainer
      BY <2>1, <3>1, <3>2 DEF Sender, InContainer
    <3>3. CASE c \notin InContainer
      BY <2>1, <3>1, <3>3 DEF Sender, InContainer
    <3> QED
      BY <3>2, <3>3
  <2>3. /\ queue' \in Seq(Requests) /\ Len(queue') <= MaxQueue
        /\ DOMAIN queue' = DOMAIN queue
        /\ \A k \in DOMAIN queue :
              /\ queue'[k].kind = queue[k].kind /\ queue'[k].by = queue[k].by
              /\ queue'[k].frame = queue[k].frame
        /\ replies' \in [Clients -> Told]
        /\ \A c \in Clients : replies'[c] \in {None, replies[c]}
    BY <1>0, <2>1, ForgetIs
  <2>4. Typed'
    <3>1. client' \in [Clients -> Sender]
      BY <2>1, <2>2
    <3> QED
      BY <1>0, <1>1, <2>3, <3>1 DEF Typed, Told
  <2>5. NoneAnswered
    BY <2>3 DEF NoneAnswered, IsAnswer
  <2>6. ClientsGoOn
    BY <2>2 DEF ClientsGoOn
  <2>7. Untouched'
    <3>1. \A c \in Runners : IsAnswer(c)' => IsAnswer(c)
      BY <2>5, RunnersAre DEF NoneAnswered, IsAnswer
    <3> QED
      BY <1>0, <2>2, <3>1, RunnersAre DEF Untouched
  <2>8. ContainerOwn'
    <3>1. InContainer' = {}
      BY <2>2 DEF InContainer
    <3> QED
      BY <3>1 DEF ContainerOwn
  <2>9. RunnerOwn'
    BY <2>2, RunnersAre DEF RunnerOwn
  <2>10. Requested'
    BY <1>0, <1>1, <2>3, <2>4, <2>6, QueueStays
  <2>11. OneText'
    BY <1>0, <1>1 DEF OneText, Serving, Backend
  <2>12. OneInstruction' /\ PastThenPresent'
    BY <1>0, <2>5, AnswersStand
  <2>13. Counted'
    BY <1>2, <2>2
  <2> QED
    BY <1>3, <1>4, <1>5, <2>4, <2>7, <2>8, <2>9, <2>10, <2>11, <2>12, <2>13 DEF IInv
<1> QED
  BY <1>1, <1>6, <1>7

LEMMA StartSimSafe ==
    ASSUME IInv, StartSim
    PROVE  IInv'
<1>0. Typed /\ Counted /\ matrix \in Driven /\ "start" \in Steps /\ "cancel" \in Steps
  BY DEF IInv, Typed, Steps
<1>1. /\ matrix.pc = "sim" /\ DockerStop /\ UNCHANGED <<plan, cancelled>>
      /\ GoesOn("start") \/ GoesOn("cancel")
  BY DEF StartSim, Go, Raise, GoesOn
<1>2. /\ matrix' \in Driven /\ matrix'.pc \in {"start", "cancel"} /\ matrix'.model = matrix.model
      /\ matrix'.job = matrix.job /\ matrix'.runner = matrix.runner
      /\ matrix'.runs = matrix.runs /\ matrix'.episode = matrix.episode
  <2>1. CASE GoesOn("start")
    BY <1>0, <2>1, DrivenGoesOn
  <2>2. CASE GoesOn("cancel")
    BY <1>0, <2>2, DrivenGoesOn
  <2> QED
    BY <1>1, <2>1, <2>2
<1>3. Before' = Before
  BY <1>1, <1>2 DEF Before, PerRun, Episodes
<1>4. /\ matrix.runner <= Before + matrix.episode - 1 /\ matrix.runner <= Before + Episodes
      /\ matrix.model <= Len(plan.models) /\ matrix.runs <= plan.runs
      /\ matrix.episode <= Episodes
  BY <1>0, <1>1 DEF Counted
<1> QED
  BY <1>1, <1>2, <1>3, <1>4, DockerStopSafe

LEMMA StopContainerSafe ==
    ASSUME IInv, StopContainer
    PROVE  IInv'
<1>0. /\ Typed /\ Counted /\ matrix \in Driven /\ "failed" \in Steps /\ "done" \in Steps
      /\ "submit" \in Steps
  BY DEF IInv, Typed, Steps
<1>1. /\ matrix.pc = "stop" /\ DockerStop /\ UNCHANGED <<plan, cancelled>>
      /\ \/ GoesOn("failed") \/ GoesOn("done")
         \/ /\ matrix.model # Len(plan.models)
            /\ matrix' = [matrix EXCEPT !.pc = "submit", !.model = matrix.model + 1]
  BY <1>0 DEF StopContainer, Go, GoesOn, Driven
<1>2. /\ matrix.runner \in Nat /\ Before \in Nat /\ Episodes \in Nat /\ matrix.model \in Nat \ {0}
      /\ Len(plan.models) \in Nat /\ matrix.runs \in Nat \ {0}
      /\ (matrix.runs - 1) * PerRun + matrix.model * Episodes = Before + Episodes
      /\ matrix.runner <= Before + Episodes
      /\ matrix.model <= Len(plan.models) /\ matrix.runs <= plan.runs
      /\ matrix.episode <= Episodes
  <2>1. /\ matrix.runner \in Nat /\ Before \in Nat /\ Episodes \in Nat /\ matrix.model \in Nat \ {0}
        /\ matrix.runs \in Nat \ {0}
        /\ (matrix.runs - 1) * PerRun + matrix.model * Episodes = Before + Episodes
    BY <1>0, PlanHolds
  <2>2. Len(plan.models) \in Nat
    BY <1>0, PlanIs DEF Typed
  <2>3. /\ matrix.runner <= Before + Episodes
        /\ matrix.model <= Len(plan.models) /\ matrix.runs <= plan.runs
        /\ matrix.episode <= Episodes
    BY <1>0 DEF Counted
  <2> QED
    BY <2>1, <2>2, <2>3
<1>3. ASSUME NEW pc \in {"failed", "done"}, GoesOn(pc)
      PROVE  IInv'
  <2>1. pc \in Steps /\ pc # "submit" /\ pc # "start"
    BY <1>0, <1>3
  <2>2. /\ matrix' \in Driven /\ matrix'.pc = pc /\ matrix'.model = matrix.model
        /\ matrix'.job = matrix.job /\ matrix'.runner = matrix.runner
        /\ matrix'.runs = matrix.runs /\ matrix'.episode = matrix.episode
    BY <1>0, <1>3, <2>1, DrivenGoesOn
  <2>3. Before' = Before
    BY <1>1, <2>2 DEF Before, PerRun, Episodes
  <2> QED
    BY <1>1, <1>2, <2>1, <2>2, <2>3, DockerStopSafe
<1>4. CASE /\ matrix.model # Len(plan.models)
           /\ matrix' = [matrix EXCEPT !.pc = "submit", !.model = matrix.model + 1]
  <2> DEFINE m == matrix.model + 1
  <2>1. m \in Nat \ {0} /\ m <= Len(plan.models) /\ m - 1 = matrix.model
    BY <1>2, <1>4
  <2>2. matrix' = [matrix EXCEPT !.pc = "submit", !.model = m]
    BY <1>4
  <2> HIDE DEF m
  <2>3. /\ matrix' \in Driven /\ matrix'.pc = "submit" /\ matrix'.model = m
        /\ matrix'.runner = matrix.runner
        /\ matrix'.runs = matrix.runs /\ matrix'.episode = matrix.episode
    BY <1>0, <2>1, <2>2 DEF Driven
  <2>4. Before' = Before + Episodes
    <3>1. Episodes' = Episodes /\ PerRun' = PerRun
      BY <1>1 DEF Episodes, PerRun
    <3>2. Before' = (matrix.runs - 1) * PerRun + (m - 1) * Episodes
      BY <2>3, <3>1 DEF Before
    <3> QED
      BY <1>2, <2>1, <3>2
  <2>5. matrix.runner <= Before' /\ matrix.runner <= Before' + Episodes
    BY <1>2, <2>4
  <2> QED
    BY <1>1, <1>2, <2>1, <2>3, <2>5, DockerStopSafe
<1> QED
  BY <1>1, <1>3, <1>4

(***************************************************************************)
(* The invariant holds.                                                    *)
(***************************************************************************)

LEMMA IInvInit ==
    ASSUME Init
    PROVE  IInv
<1>1. /\ jobs = [j \in Jobs |-> [backend |-> None, phase |-> "free"]]
      /\ server = None /\ queue = <<>> /\ replies = [c \in Clients |-> None]
      /\ plan \in Plans /\ faults = {} /\ cancelled = {}
      /\ matrix = [pc |-> "submit", model |-> 1, episode |-> 1, job |-> None, runner |-> 0,
                   failing |-> FALSE, runs |-> 1]
      /\ client = [c \in Clients |-> Idle]
  BY DEF Init, ServerInit
<1>2. /\ ~Serving /\ DOMAIN queue = {} /\ queue \in Seq(Requests) /\ Len(queue) = 0
  BY <1>1, EmptySeq DEF Serving
<1>3. \A c \in Clients : replies[c] = None /\ client[c].pc = "off" /\ client[c].sent = 0
  BY <1>1 DEF Idle
<1>4. \A c \in Clients : ~IsAnswer(c)
  BY <1>3 DEF IsAnswer
<1>5. /\ plan.episodes \in Nat \ {0} /\ plan.runs \in Nat \ {0} /\ plan.frames \in Nat \ {0}
      /\ Len(plan.models) \in Nat \ {0} /\ MaxEpisodes \in Nat
  BY <1>1, PlanIs, MatrixAssumption
<1>6. /\ matrix.pc = "submit" /\ matrix.model = 1 /\ matrix.episode = 1
      /\ matrix.runner = 0 /\ matrix.runs = 1
  BY <1>1
<1>7. Typed
  <2>1. jobs \in [Jobs -> Backed]
    BY <1>1 DEF Backed, Phases
  <2>2. matrix \in Driven
    BY <1>1 DEF Driven, Steps
  <2>3. client \in [Clients -> Sender]
    <3>1. Idle \in Sender
      BY DEF Idle, Sender
    <3> QED
      BY <1>1, <3>1
  <2>4. Len(queue) <= MaxQueue
    BY <1>2, ServerAssumption
  <2>5. replies \in [Clients -> {None, Waiting, Ack, Dropped, Rejected} \cup Answers]
    BY <1>1
  <2> QED
    BY <1>1, <1>2, <2>1, <2>2, <2>3, <2>4, <2>5 DEF Typed
<1>8. Counted
  <2>1. Before = 0 /\ Episodes \in Nat /\ 1 <= Episodes
    BY <1>5, <1>6 DEF Before, PerRun, Episodes
  <2> QED
    BY <1>3, <1>5, <1>6, <2>1 DEF Counted
<1>9. Untouched
  BY <1>3, <1>4, RunnersAre DEF Untouched
<1>10. JobsOwn /\ ServerOwn /\ ContainerOwn
  BY <1>1, <1>2, <1>3, <1>6, RunnersAre DEF JobsOwn, ServerOwn, ContainerOwn, InContainer
<1>11. JobsLeft
  BY <1>1 DEF JobsLeft, Alive
<1>12. Requested
  BY <1>2 DEF Requested, RequestsOwn, FramesSent, FramesInOrder
<1>13. OneText
  BY <1>2 DEF OneText
<1>14. RunnerOwn
  BY <1>3, RunnersAre DEF RunnerOwn
<1>15. OneInstruction /\ PastThenPresent
  BY <1>4 DEF OneInstruction, PastThenPresent
<1> QED
  BY <1>7, <1>8, <1>9, <1>10, <1>11, <1>12, <1>13, <1>14, <1>15 DEF IInv

LEMMA IInvStep ==
    ASSUME IInv, [Next]_vars
    PROVE  IInv'
<1>1. CASE MatrixStep
  BY <1>1, SubmitSafe, WaitServerSafe, StartSimSafe, StartEpisodeSafe, AwaitEpisodeSafe,
     CancelSafe, StopContainerSafe DEF MatrixStep
<1>2. CASE Rerun
  BY <1>2, RerunSafe
<1>3. CASE ClientStep
  BY <1>3, ClientSafe
<1>4. CASE ServerStep
  BY <1>4, ServerSafe
<1>5. CASE UNCHANGED vars
  <2>1. /\ jobs' = jobs /\ server' = server /\ queue' = queue /\ replies' = replies /\ plan' = plan
        /\ matrix' = matrix /\ client' = client /\ faults' = faults /\ cancelled' = cancelled
    BY <1>5 DEF vars, serverVars
  <2>2. /\ matrix \in Driven /\ faults \subseteq Faults /\ cancelled \subseteq Jobs
    BY DEF IInv, Typed
  <2>3. Counted' /\ JobsOwn' /\ ServerOwn' /\ ContainerOwn' /\ JobsLeft'
    BY <2>1 DEF IInv, Counted, Before, PerRun, Episodes, JobsOwn, ServerOwn, IsAnswer, Serving,
                ContainerOwn, InContainer, JobsLeft, Alive
  <2> QED
    BY <1>5, <2>1, <2>2, <2>3, MatrixSafe DEF vars
<1> QED
  BY <1>1, <1>2, <1>3, <1>4, <1>5 DEF Next

LEMMA AlwaysIInv == Spec => []IInv
<1>1. Init => IInv
  BY IInvInit
<1>2. IInv /\ [Next]_vars => IInv'
  BY IInvStep
<1> QED
  BY <1>1, <1>2, PTL DEF Spec

LEMMA TypeHolds ==
    ASSUME IInv
    PROVE  MatrixType
<1>0. Typed /\ Counted
  BY DEF IInv
<1>1. ServerType
  <2>1. /\ jobs \in [Jobs -> Backed] /\ server \in Servers \cup {None} /\ Len(queue) <= MaxQueue
        /\ \A c \in Clients : replies[c] \in Told
    BY <1>0 DEF Typed, Told
  <2>2. \A x \in Told : x = None \/ x.kind \in {"waiting", "reset", "dropped", "rejected", "answer"}
    BY DEF Told, Waiting, Ack, Dropped, Rejected, Answers
  <2> QED
    BY <2>1, <2>2 DEF ServerType, Backed
<1>2. plan \in Plans /\ faults \subseteq Faults /\ cancelled \subseteq Jobs
  BY <1>0 DEF Typed
<1>3. matrix \in [pc : Steps, model : 1 .. Len(plan.models), episode : 1 .. plan.episodes,
                  job : Jobs \cup {None}, runner : 0 .. MaxEpisodes,
                  failing : BOOLEAN, runs : 1 .. plan.runs]
  <2>1. /\ plan.episodes \in Nat /\ plan.runs \in Nat /\ Len(plan.models) \in Nat
        /\ MaxEpisodes \in Nat
    BY <1>2, PlanIs, MatrixAssumption
  <2>2. /\ matrix.model \in Nat \ {0} /\ matrix.episode \in Nat \ {0} /\ matrix.runs \in Nat \ {0}
        /\ matrix.runner \in Nat
    BY <1>0, PlanHolds
  <2>3. /\ matrix.model \in 1 .. Len(plan.models) /\ matrix.episode \in 1 .. plan.episodes
        /\ matrix.runs \in 1 .. plan.runs /\ matrix.runner \in 0 .. MaxEpisodes
    BY <1>0, <2>1, <2>2 DEF Counted, Episodes
  <2>4. matrix \in Driven
    BY <1>0 DEF Typed
  <2> QED
    BY <2>3, <2>4 DEF Driven
<1>4. client \in [Clients -> [pc : {"off", "start", "reset", "run", "over", "died"},
                              job : Jobs \cup {None},
                              text : {"", "left", "right"}, sent : 0 .. plan.frames,
                              version : Kinds \cup {None}]]
  <2>1. plan.frames \in Nat /\ client \in [Clients -> Sender]
    BY <1>0, <1>2, PlanIs DEF Typed
  <2>2. \A c \in Clients : client[c].sent \in 0 .. plan.frames
    <3> SUFFICES ASSUME NEW c \in Clients
                 PROVE  client[c].sent \in 0 .. plan.frames
      OBVIOUS
    <3>1. client[c] \in Sender
      BY <2>1
    <3>2. client[c].sent \in Nat
      BY <3>1 DEF Sender
    <3>3. client[c].sent <= plan.frames
      BY <1>0 DEF Counted
    <3> QED
      BY <3>2, <3>3, <2>1
  <2> QED
    BY <2>1, <2>2 DEF Sender
<1> QED
  BY <1>1, <1>2, <1>3, <1>4 DEF MatrixType, Steps

\* An episode publishes answers of the job its matrix has waited for, unless a job
\* has ended by itself. (wait_server's job number, run_live_matrix; the version
\* check of Episode._observation)
THEOREM ServerIsOwn == Spec => []OwnServer
<1>1. IInv => OwnServer
  BY DEF IInv, ServerOwn, OwnServer, Publishes, Accepted
<1> QED
  BY <1>1, AlwaysIInv, PTL

\* What an episode publishes is computed from its own frames and poses, unless a
\* docker stop has failed or the bridge takes part. (do_POST /reset builds the
\* backend again; live_episode resets before it sends; docker stop)
THEOREM MemoryIsOwn == Spec => []OwnMemory
<1>1. IInv => OwnMemory
  BY DEF IInv, RunnerOwn, OwnMemory, Publishes, Accepted
<1> QED
  BY <1>1, AlwaysIInv, PTL

\* Of any policy the frames that are shown are of one instruction and in order,
\* the current one last; and a matrix that is over leaves neither a job nor a
\* process. (_sample_history, sample_and_pad_images, _context_images, main's finally)
THEOREM MatrixHolds == Spec => []MatrixInv
<1>1. IInv => NothingLeft
  BY DEF IInv, NothingLeft, JobsLeft, ContainerOwn
<1>2. IInv => MatrixInv
  BY <1>1, TypeHolds DEF IInv, MatrixInv
<1> QED
  BY <1>2, AlwaysIInv, PTL
=============================================================================
