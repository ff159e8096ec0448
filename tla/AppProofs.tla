---------------------------- MODULE AppProofs ----------------------------
(***************************************************************************)
(* Proofs about the applications on a phone: EdgeClients, for any goals,   *)
(* any length of the ring and any number of generations, requests and      *)
(* starts of the camera, and then SessionRecorder, for any number of       *)
(* sessions, frames and voice notes.  The two share no state.              *)
(***************************************************************************)
EXTENDS EdgeClients, SessionRecorder, SequenceTheorems, FiniteSetTheorems, TLAPS

(***************************************************************************)
(* The inductive invariant.                                                *)
(***************************************************************************)

Features == Goals \cup {Zero}
Frames == Seq(Goals)
Cache == [key : Goals \cup {None}, features : Features \cup {None}]
Job == [goal : Goals, generation : Nat, history : Frames, at : {"running", "encoding"},
        features : Features]
Hand == [chunk : Chunks, name : Goals, at : Nat]
Sender == [kind : {"log", "link"}, pending : Chunks \cup {None}, name : Goals \cup {None},
           phase : {"idle", "pacing", "sending", "ended"}, sending : Hand \cup {None},
           closed : BOOLEAN]
Link == [channel : BOOLEAN, stream : {"none", "waiting", "open"}]
Asked == [kind : {"connect", "disconnect", "leave"}, of : Nat, at : Places]
Camera == [starts : Nat, begun : Nat, held : BOOLEAN, leaked : Nat, overlap : BOOLEAN,
           crossed : BOOLEAN, failed : BOOLEAN, loop : BOOLEAN, frame : BOOLEAN,
           front : BOOLEAN]

Page == [goal : Goals \cup {None}, running : BOOLEAN, mounted : BOOLEAN, generation : Nat]

PageTyped ==
    /\ app \in {"phone", "browser"}
    /\ ui \in Page
    /\ models \in [ready : BOOLEAN, text : BOOLEAN]
    /\ camera \in Camera

\* A page that has gone away begins nothing any more.
Bounded == ui.generation <= IF ui.mounted THEN MaxGeneration ELSE MaxGeneration + 1

\* The phone does nothing with its models before they are there.
WaitsForModels ==
    app = "phone" /\ (camera.starts > 0 \/ camera.held \/ camera.loop
                       \/ tick # None \/ engine.cache.features # None)
        => models.ready

\* Two cameras come only of two starts at once.
CameraCounted ==
    /\ ~camera.overlap => camera.starts <= 1 /\ camera.leaked = 0
                          /\ (camera.starts > 0 => ~camera.held)
    /\ ~camera.front /\ (camera.held \/ camera.starts > 0) => camera.crossed

\* The ring and the cache are of the goal and of the text they are named for.
EngineOwn ==
    /\ engine.ring \in Frames /\ Len(engine.ring) <= HistoryLen
    /\ engine.cache \in Cache
    /\ engine = [ring |-> engine.ring, cache |-> engine.cache]
    /\ \A k \in 1 .. Len(engine.ring) : engine.ring[k] = ui.goal
    /\ engine.cache.features # None =>
          /\ engine.cache.features \in {engine.cache.key, Zero}
          /\ app = "phone" /\ models.text => engine.cache.features = engine.cache.key

TickOwn ==
    /\ tick # None => tick \in Job
    /\ InferenceOfOneGoal

SendersTyped ==
    /\ senders \in Seq(Sender) /\ links \in Seq(Link) /\ requests \in Seq(Asked)
    /\ Len(senders) > 0 /\ Len(links) = Len(senders)
    /\ \A n \in 1 .. Len(requests) : requests[n].of \in 1 .. Len(senders)

\* Only the sender in use holds a chunk, and that chunk is of the generation of now.
SlotIsNow ==
    \A i \in 1 .. Len(senders) :
        LET s == senders[i] IN
        s.pending # None => /\ i = Current /\ ~s.closed
                            /\ s.pending.generation = Now
                            /\ s.name = s.pending.goal

HandedIsOwn ==
    \A i \in 1 .. Len(senders) :
        LET s == senders[i].sending IN
        s # None => s.chunk.generation = s.at /\ s.name = s.chunk.goal

OthersClosed == \A i \in 1 .. Len(senders) : i # Current => senders[i].closed

\* A connection that is up behind a closed sender has a request that takes it down.
DownIsComing ==
    \A i \in 1 .. Len(senders) :
        senders[i].closed /\ links[i].channel =>
            \E n \in 1 .. Len(requests) :
                requests[n].of = i /\ requests[n].at \notin {"opening", "done"}

\* A request past its beginning has closed its sender, at the end of that also the connection.
AskedClosed ==
    \A n \in 1 .. Len(requests) :
        /\ requests[n].at \notin {"opening", "done"} => senders[requests[n].of].closed
        /\ requests[n].at = "closed" => ~links[requests[n].of].channel
        /\ requests[n].at = "opening" /\ ~(n = Len(requests) /\ ui.mounted)
              => senders[requests[n].of].closed

\* What the newest request has closed, or made, is the sender in use.
NewestRules ==
    LET n == Len(requests)
        r == requests[n]
        s == senders[Current]
    IN n > 0 /\ ui.mounted =>
         /\ r.kind # "leave"
         /\ r.at \notin {"opening", "done"} => s.closed
         /\ r.at \in {"opening", "done"} =>
              /\ r.of = Current /\ ~s.closed
              /\ s.kind = IF r.kind = "connect" THEN "link" ELSE "log"

PageInv == PageTyped /\ Bounded /\ WaitsForModels /\ CameraCounted /\ EngineOwn /\ TickOwn
SenderInv ==
    /\ SendersTyped /\ SlotIsNow /\ HandedIsOwn /\ OthersClosed
    /\ DownIsComing /\ AskedClosed /\ NewestRules
IInv == PageInv /\ SenderInv

(***************************************************************************)
(* The ring of the engine.                                                 *)
(***************************************************************************)

\* Pushing a frame of the goal keeps the ring short and of that goal.
LEMMA PushOwn ==
    ASSUME NEW ring \in Frames, Len(ring) <= HistoryLen, NEW goal \in Goals,
           \A k \in 1 .. Len(ring) : ring[k] = goal
    PROVE  /\ Push(ring, goal) \in Frames
           /\ Len(Push(ring, goal)) \in 1 .. HistoryLen
           /\ \A k \in 1 .. Len(Push(ring, goal)) : Push(ring, goal)[k] = goal
<1> DEFINE longer == Append(ring, goal)
<1>1. /\ longer \in Frames /\ longer # <<>> /\ Len(longer) = Len(ring) + 1
      /\ \A k \in 1 .. Len(ring) : longer[k] = ring[k]
      /\ longer[Len(ring) + 1] = goal
  BY AppendProperties DEF Frames
<1>2. \A k \in 1 .. Len(longer) : longer[k] = goal
  BY <1>1, LenProperties DEF Frames
<1>3. Push(ring, goal) = IF Len(longer) > HistoryLen THEN Tail(longer) ELSE longer
  BY DEF Push
<1> HIDE DEF longer
<1>4. /\ Tail(longer) \in Frames /\ Len(Tail(longer)) = Len(longer) - 1
      /\ \A k \in 1 .. Len(Tail(longer)) : Tail(longer)[k] = longer[k + 1]
  BY <1>1, HeadTailProperties DEF Frames
<1>5. Len(ring) \in Nat /\ HistoryLen \in Nat \ {0}
  BY LenProperties, PhoneEngineAssumption DEF Frames
<1>6. CASE Len(longer) > HistoryLen
  <2>1. Push(ring, goal) = Tail(longer) /\ Len(Tail(longer)) = Len(ring)
    BY <1>1, <1>3, <1>4, <1>6, <1>5
  <2>2. ASSUME NEW k \in 1 .. Len(Tail(longer))
        PROVE  Tail(longer)[k] = goal
    BY <1>1, <1>2, <1>4, <1>5, <2>1
  <2> QED
    BY <1>1, <1>4, <1>5, <1>6, <2>1, <2>2
<1>7. CASE ~(Len(longer) > HistoryLen)
  BY <1>1, <1>2, <1>3, <1>5, <1>7
<1> QED
  BY <1>6, <1>7

\* What the model is shown was in the ring.
LEMMA StackOwn ==
    ASSUME NEW ring \in Frames, Len(ring) \in 1 .. HistoryLen, NEW goal \in Goals,
           \A k \in 1 .. Len(ring) : ring[k] = goal
    PROVE  /\ Stack(ring) \in Frames
           /\ \A k \in DOMAIN Stack(ring) : Stack(ring)[k] = goal
<1> DEFINE m == HistoryLen - Len(ring)
           front == [i \in 1 .. m |-> ring[1]]
<1>1. m \in Nat /\ ring[1] = goal
  BY PhoneEngineAssumption
<1>2. front \in [1 .. m -> Goals] /\ \A i \in 1 .. m : front[i] = goal
  BY <1>1
<1>3. front \in Seq(Goals) /\ Len(front) = m
  BY <1>1, <1>2, SeqDef, LenProperties
<1>4. Stack(ring) = front \o ring
  BY DEF Stack
<1> HIDE DEF front, m
<1>5. /\ front \o ring \in Seq(Goals) /\ Len(front \o ring) = m + Len(ring)
      /\ \A i \in 1 .. m + Len(ring) :
            (front \o ring)[i] = IF i <= m THEN front[i] ELSE ring[i - m]
  BY <1>3, ConcatProperties DEF Frames
<1>6. Len(ring) \in Nat
  BY LenProperties DEF Frames
<1>7. \A i \in 1 .. m + Len(ring) : (front \o ring)[i] = goal
  BY <1>1, <1>2, <1>5, <1>6
<1> QED
  BY <1>4, <1>5, <1>7, LenProperties DEF Frames

(***************************************************************************)
(* The sender by itself.                                                   *)
(***************************************************************************)

\* A chunk in the slot is of the generation of now, and goes under its own name.
SlotOk(s, now) ==
    s.pending # None => ~s.closed /\ s.pending.generation = now /\ s.name = s.pending.goal
HandOk(s) ==
    s.sending # None => /\ s.sending.chunk.generation = s.sending.at
                        /\ s.sending.name = s.sending.chunk.goal

\* What a sender becomes in a step of its loop or by a submit.
Follows(s, t, now) ==
    /\ t \in Sender /\ SlotOk(t, now) /\ HandOk(t)
    /\ t.closed = s.closed /\ t.kind = s.kind
    /\ s.closed => t.pending = None
    /\ HandsOver(s, t) => ~s.closed

LEMMA HandOverFollows ==
    ASSUME NEW s \in Sender, NEW now \in Nat, SlotOk(s, now), s.pending # None
    PROVE  /\ HandOver(s, now) \in Sender
           /\ HandOver(s, now).pending = None
           /\ HandOk(HandOver(s, now))
           /\ HandOver(s, now).closed = s.closed /\ HandOver(s, now).kind = s.kind
           /\ ~s.closed
<1> DEFINE h == [chunk |-> s.pending, name |-> s.name, at |-> now]
<1>1. s.pending \in Chunks /\ s.name = s.pending.goal /\ ~s.closed /\ s.pending.generation = now
  BY DEF Sender, SlotOk
<1>2. h \in Hand
  BY <1>1 DEF Hand, Chunks
<1>3. /\ h.chunk.generation = h.at /\ h.name = h.chunk.goal
  BY <1>1
<1>4. HandOver(s, now) = [s EXCEPT !.pending = None, !.phase = "sending", !.sending = h]
  BY DEF HandOver
<1> HIDE DEF h
<1> QED
  BY <1>1, <1>2, <1>3, <1>4 DEF Sender, HandOk

LEMMA AfterDelayFollows ==
    ASSUME NEW s \in Sender, NEW now \in Nat, SlotOk(s, now), HandOk(s)
    PROVE  Follows(s, AfterDelay(s, now), now)
<1>1. CASE s.closed \/ s.pending = None
  BY <1>1 DEF AfterDelay, Follows, Sender, SlotOk, HandOk, HandsOver
<1>2. CASE ~(s.closed \/ s.pending = None)
  BY <1>2, HandOverFollows DEF AfterDelay, Follows, SlotOk
<1> QED
  BY <1>1, <1>2

LEMMA DrainLoopFollows ==
    ASSUME NEW s \in Sender, NEW now \in Nat, SlotOk(s, now), HandOk(s), NEW wait \in BOOLEAN
    PROVE  Follows(s, DrainLoop(s, wait, now), now)
<1>1. CASE s.closed \/ s.pending = None
  BY <1>1 DEF DrainLoop, Follows, Sender, SlotOk, HandOk, HandsOver
<1>2. CASE ~(s.closed \/ s.pending = None) /\ wait
  BY <1>2 DEF DrainLoop, Follows, Sender, SlotOk, HandOk, HandsOver
<1>3. CASE ~(s.closed \/ s.pending = None) /\ ~wait
  BY <1>3, AfterDelayFollows DEF DrainLoop
<1> QED
  BY <1>1, <1>2, <1>3

LEMMA DrainCompletesFollows ==
    ASSUME NEW s \in Sender, NEW now \in Nat, SlotOk(s, now), HandOk(s), NEW wait \in BOOLEAN
    PROVE  Follows(s, DrainCompletes(s, wait, now), now)
<1>1. CASE s.closed \/ s.pending = None
  BY <1>1 DEF DrainCompletes, Follows, Sender, SlotOk, HandOk, HandsOver
<1>2. CASE ~(s.closed \/ s.pending = None)
  BY <1>2, DrainLoopFollows DEF DrainCompletes
<1> QED
  BY <1>1, <1>2

LEMMA SubmitFollows ==
    ASSUME NEW s \in Sender, NEW now \in Nat, SlotOk(s, now), HandOk(s), NEW wait \in BOOLEAN,
           NEW chunk \in Chunks, chunk.generation = now
    PROVE  Follows(s, Submit(s, chunk, wait, now), now)
<1> DEFINE held == [s EXCEPT !.pending = chunk, !.name = chunk.goal]
<1>1. CASE s.closed
  BY <1>1 DEF Submit, Follows, SlotOk, HandsOver
<1>2. CASE ~s.closed
  <2>1. held \in Sender /\ SlotOk(held, now) /\ HandOk(held)
        /\ held.closed = s.closed /\ held.kind = s.kind
    BY <1>2 DEF Sender, Chunks, SlotOk, HandOk
  <2>2. Submit(s, chunk, wait, now)
          = IF s.phase = "idle" THEN DrainLoop(held, wait, now) ELSE held
    BY <1>2 DEF Submit
  <2> HIDE DEF held
  <2>3. Follows(held, DrainLoop(held, wait, now), now)
    BY <2>1, DrainLoopFollows
  <2>4. CASE s.phase = "idle"
    BY <1>2, <2>1, <2>2, <2>3, <2>4 DEF Follows
  <2>5. CASE s.phase # "idle"
    BY <1>2, <2>1, <2>2, <2>5 DEF Follows
  <2> QED
    BY <2>4, <2>5
<1> QED
  BY <1>1, <1>2

(***************************************************************************)
(* The senders and the connections behind them.                            *)
(***************************************************************************)

LEMMA Elements ==
    ASSUME SendersTyped
    PROVE  /\ Len(senders) \in Nat /\ Len(requests) \in Nat
           /\ DOMAIN senders = 1 .. Len(senders) /\ DOMAIN links = 1 .. Len(senders)
           /\ DOMAIN requests = 1 .. Len(requests)
           /\ \A i \in 1 .. Len(senders) : senders[i] \in Sender /\ links[i] \in Link
           /\ \A n \in 1 .. Len(requests) : requests[n] \in Asked
           /\ Current \in 1 .. Len(senders)
<1>1. Len(senders) \in Nat /\ Len(requests) \in Nat
  BY LenProperties DEF SendersTyped
<1> QED
  BY <1>1, LenProperties, ElementOfSeq DEF SendersTyped, Current

LEMMA SendsTyped ==
    ASSUME NEW kind, NEW link \in Link
    PROVE  /\ Sends(kind, link) \in Link /\ PhoneConnects(link) \in Link
           /\ BrowserConnects(link) \in Link /\ BrowserCloses(link) \in Link
           /\ Connects(link) \in Link /\ NoLink \in Link
BY DEF Sends, PhoneConnects, BrowserConnects, BrowserCloses, Connects, NoLink, Link

\* A step of one sender.
LEMMA SenderFollows ==
    ASSUME SenderInv, NEW i \in 1 .. Len(senders), NEW t,
           Follows(senders[i], t, Now), t.pending # None => i = Current,
           SenderBecomes(i, t), UNCHANGED <<ui, requests>>
    PROVE  SenderInv'
<1> DEFINE link == IF HandsOver(senders[i], t) THEN Sends(t.kind, links[i]) ELSE links[i]
<1>1. SendersTyped /\ t \in Sender /\ t.closed = senders[i].closed /\ t.kind = senders[i].kind
  BY DEF SenderInv, Follows
<1>2. link \in Link
  BY <1>1, Elements, SendsTyped
<1>3. senders[i].closed => link = links[i]
  BY DEF Follows
<1>4. senders' = [senders EXCEPT ![i] = t] /\ links' = [links EXCEPT ![i] = link]
  BY DEF SenderBecomes
<1> HIDE DEF link
<1>5. /\ senders' \in Seq(Sender) /\ Len(senders') = Len(senders)
      /\ \A j \in 1 .. Len(senders) : senders'[j] = IF j = i THEN t ELSE senders[j]
  BY <1>1, <1>4, ExceptSeq DEF SendersTyped
<1>6. /\ links' \in Seq(Link) /\ Len(links') = Len(links)
      /\ \A j \in 1 .. Len(senders) : links'[j] = IF j = i THEN link ELSE links[j]
  BY <1>1, <1>2, <1>4, ExceptSeq DEF SendersTyped
<1>7. \A j \in 1 .. Len(senders) :
        /\ senders'[j].closed = senders[j].closed /\ senders'[j].kind = senders[j].kind
        /\ senders[j].closed => links'[j] = links[j]
  BY <1>1, <1>3, <1>5, <1>6
<1>8. SendersTyped'
  BY <1>1, <1>5, <1>6 DEF SendersTyped
<1>9. SlotIsNow' /\ HandedIsOwn' /\ OthersClosed'
  <2>1. Current' = Current /\ Now' = Now
    BY <1>5 DEF Current, Now
  <2>2. SlotOk(t, Now) /\ HandOk(t)
    BY DEF Follows
  <2>3. SlotIsNow'
    BY <1>1, <1>5, <2>1, <2>2 DEF SenderInv, SlotIsNow, SlotOk
  <2>4. HandedIsOwn'
    BY <1>5, <2>2 DEF SenderInv, HandedIsOwn, HandOk
  <2>5. OthersClosed'
    BY <1>5, <1>7, <2>1 DEF SenderInv, OthersClosed
  <2> QED
    BY <2>3, <2>4, <2>5
<1>10. DownIsComing'
  BY <1>5, <1>7 DEF SenderInv, DownIsComing
<1>11. AskedClosed'
  BY <1>1, <1>5, <1>7 DEF SenderInv, AskedClosed, SendersTyped
<1>12. NewestRules'
  BY <1>1, <1>5, <1>7, Elements DEF SenderInv, NewestRules, Current
<1> QED
  BY <1>8, <1>9, <1>10, <1>11, <1>12 DEF SenderInv

\* The slot of the sender in use is emptied, whatever becomes of the generation.
LEMMA SlotCleared ==
    ASSUME SenderInv, senders' = CurrentCleared, UNCHANGED <<links, requests>>,
           ui'.mounted = ui.mounted
    PROVE  SenderInv'
<1> DEFINE t == ClearPending(senders[Current])
<1>1. SendersTyped /\ Current \in 1 .. Len(senders) /\ senders[Current] \in Sender
  BY Elements DEF SenderInv
<1>2. /\ t \in Sender /\ t.pending = None /\ t.closed = senders[Current].closed
      /\ t.kind = senders[Current].kind /\ t.sending = senders[Current].sending
  BY <1>1 DEF ClearPending, Sender
<1>3. senders' = [senders EXCEPT ![Current] = t]
  BY DEF CurrentCleared
<1> HIDE DEF t
<1>4. /\ senders' \in Seq(Sender) /\ Len(senders') = Len(senders)
      /\ \A j \in 1 .. Len(senders) : senders'[j] = IF j = Current THEN t ELSE senders[j]
  BY <1>1, <1>2, <1>3, ExceptSeq DEF SendersTyped
<1>5. \A j \in 1 .. Len(senders) :
        /\ senders'[j].closed = senders[j].closed /\ senders'[j].kind = senders[j].kind
        /\ senders'[j].sending = senders[j].sending /\ senders'[j].pending = None
  BY <1>1, <1>2, <1>4 DEF SenderInv, SlotIsNow
<1>6. SendersTyped'
  BY <1>1, <1>4 DEF SendersTyped
<1>7. SlotIsNow' /\ HandedIsOwn' /\ OthersClosed' /\ DownIsComing'
  BY <1>4, <1>5
     DEF SenderInv, SlotIsNow, HandedIsOwn, OthersClosed, DownIsComing, Current
<1>8. AskedClosed'
  BY <1>1, <1>4, <1>5 DEF SenderInv, AskedClosed, SendersTyped
<1>9. NewestRules'
  BY <1>1, <1>4, <1>5 DEF SenderInv, NewestRules, Current
<1> QED
  BY <1>6, <1>7, <1>8, <1>9 DEF SenderInv

\* A connect, a disconnect or the farewell begins: the sender in use closes.
LEMMA AskingCloses ==
    ASSUME SenderInv, NEW kind \in {"connect", "disconnect", "leave"},
           senders' = [senders EXCEPT ![Current] = BeginClose(@)],
           requests' = Append(requests, [kind |-> kind, of |-> Current, at |-> "draining"]),
           UNCHANGED links, ui.mounted, ui'.mounted <=> kind # "leave"
    PROVE  SenderInv'
<1> DEFINE t == BeginClose(senders[Current])
           r == [kind |-> kind, of |-> Current, at |-> "draining"]
           n == Len(requests)
<1>1. SendersTyped /\ Current \in 1 .. Len(senders) /\ senders[Current] \in Sender /\ n \in Nat
  BY Elements DEF SenderInv
<1>2. /\ t \in Sender /\ t.pending = None /\ t.closed
      /\ t.kind = senders[Current].kind /\ t.sending = senders[Current].sending
  BY <1>1 DEF BeginClose, ClearPending, Sender
<1>3. r \in Asked
  BY <1>1 DEF Asked, Places, Current
<1>4. /\ requests' \in Seq(Asked) /\ Len(requests') = n + 1
      /\ \A m \in 1 .. n : requests'[m] = requests[m]
      /\ requests'[n + 1] = r
  BY <1>1, <1>3, AppendProperties DEF SendersTyped
<1>5. r.of = Current /\ r.at = "draining" /\ r.kind = kind
  OBVIOUS
<1>6. senders' = [senders EXCEPT ![Current] = t]
  OBVIOUS
<1> HIDE DEF t, r
<1>7. /\ senders' \in Seq(Sender) /\ Len(senders') = Len(senders)
      /\ \A j \in 1 .. Len(senders) : senders'[j] = IF j = Current THEN t ELSE senders[j]
  BY <1>1, <1>2, <1>6, ExceptSeq DEF SendersTyped
<1>8. \A j \in 1 .. Len(senders) :
        senders'[j].closed /\ senders'[j].sending = senders[j].sending
                           /\ senders'[j].pending = None
  BY <1>1, <1>2, <1>7 DEF SenderInv, SlotIsNow, OthersClosed
<1>9. SendersTyped'
  <2>1. ASSUME NEW m \in 1 .. n + 1
        PROVE  requests'[m].of \in 1 .. Len(senders')
    BY <1>1, <1>4, <1>5, <1>7 DEF SendersTyped
  <2> QED
    BY <1>1, <1>4, <1>7, <2>1 DEF SendersTyped
<1>10. SlotIsNow' /\ HandedIsOwn' /\ OthersClosed'
  BY <1>7, <1>8 DEF SenderInv, SlotIsNow, HandedIsOwn, OthersClosed
<1>11. DownIsComing'
  <2> SUFFICES ASSUME NEW i \in 1 .. Len(senders), links[i].channel
               PROVE  \E m \in 1 .. n + 1 :
                         requests'[m].of = i /\ requests'[m].at \notin {"opening", "done"}
    BY <1>4, <1>7 DEF DownIsComing
  <2>1. CASE i = Current
    BY <1>1, <1>4, <1>5, <2>1
  <2>2. CASE i # Current
    <3>1. senders[i].closed
      BY <2>2 DEF SenderInv, OthersClosed
    <3>2. PICK m \in 1 .. n : requests[m].of = i /\ requests[m].at \notin {"opening", "done"}
      BY <3>1 DEF SenderInv, DownIsComing
    <3> QED
      BY <1>1, <1>4, <3>2
  <2> QED
    BY <2>1, <2>2
<1>12. AskedClosed'
  <2> SUFFICES ASSUME NEW m \in 1 .. n + 1
               PROVE  /\ senders'[requests'[m].of].closed
                      /\ requests'[m].at = "closed" => ~links[requests'[m].of].channel
    BY <1>4 DEF AskedClosed
  <2>1. requests'[m].of \in 1 .. Len(senders)
    BY <1>4, <1>7, <1>9 DEF SendersTyped
  <2>2. CASE m \in 1 .. n
    BY <1>4, <1>8, <2>1, <2>2 DEF SenderInv, AskedClosed
  <2>3. CASE m = n + 1
    BY <1>4, <1>5, <1>8, <2>1, <2>3
  <2> QED
    BY <1>1, <2>2, <2>3
<1>13. NewestRules'
  BY <1>1, <1>4, <1>5, <1>7, <1>8 DEF NewestRules, Current
<1> QED
  BY <1>9, <1>10, <1>11, <1>12, <1>13 DEF SenderInv

\* The network takes nothing up that was down.
LEMMA NetworkKeeps ==
    ASSUME SenderInv, UNCHANGED <<ui, senders, requests>>, NEW i \in 1 .. Len(senders),
           NEW link \in Link, link.channel => links[i].channel,
           links' = [links EXCEPT ![i] = link]
    PROVE  SenderInv'
<1>1. SendersTyped
  BY DEF SenderInv
<1>2. /\ links' \in Seq(Link) /\ Len(links') = Len(senders)
      /\ \A j \in 1 .. Len(senders) : links'[j] = IF j = i THEN link ELSE links[j]
  BY <1>1, ExceptSeq DEF SendersTyped
<1>3. \A j \in 1 .. Len(senders) : links'[j].channel => links[j].channel
  BY <1>2
<1>4. SendersTyped' /\ SlotIsNow' /\ HandedIsOwn' /\ OthersClosed' /\ NewestRules'
  BY <1>1, <1>2
     DEF SenderInv, SendersTyped, SlotIsNow, HandedIsOwn, OthersClosed, NewestRules, Current, Now
<1>5. DownIsComing'
  BY <1>3 DEF SenderInv, DownIsComing
<1>6. AskedClosed'
  BY <1>1, <1>3 DEF SenderInv, AskedClosed, SendersTyped
<1> QED
  BY <1>4, <1>5, <1>6 DEF SenderInv

\* A request goes to another place.
LEMMA AtFields ==
    ASSUME SendersTyped, NEW n \in 1 .. Len(requests), NEW place \in Places, At(n, place)
    PROVE  /\ requests' \in Seq(Asked) /\ Len(requests') = Len(requests)
           /\ \A m \in 1 .. Len(requests) :
                 /\ m # n => requests'[m] = requests[m]
                 /\ requests'[m].of = requests[m].of /\ requests'[m].kind = requests[m].kind
           /\ requests'[n].at = place
<1> DEFINE r == [requests[n] EXCEPT !.at = place]
<1>1. requests[n] \in Asked
  BY Elements
<1>2. r \in Asked /\ r.at = place /\ r.of = requests[n].of /\ r.kind = requests[n].kind
  BY <1>1 DEF Asked
<1>3. requests' = [requests EXCEPT ![n] = r]
  BY DEF At
<1> HIDE DEF r
<1>4. /\ requests' \in Seq(Asked) /\ Len(requests') = Len(requests)
      /\ \A m \in 1 .. Len(requests) : requests'[m] = IF m = n THEN r ELSE requests[m]
  BY <1>2, <1>3, ExceptSeq DEF SendersTyped
<1> QED
  BY <1>2, <1>4

\* A request that closes its connection goes on, and comes to its end only when it has been
\* closed and nothing is made in its place.
LEMMA ClosingGoesOn ==
    ASSUME SenderInv, UNCHANGED <<ui, senders>>,
           NEW n \in 1 .. Len(requests), NEW place \in Places \ {"opening"}, At(n, place),
           requests[n].at \notin {"opening", "done"},
           links' \in Seq(Link), Len(links') = Len(links),
           \A i \in 1 .. Len(senders) : links'[i].channel => links[i].channel,
           place = "closed" => ~links'[requests[n].of].channel,
           place = "done" => requests[n].at = "closed" /\ ~(Newest(n) /\ ui.mounted)
    PROVE  SenderInv'
<1>1. SendersTyped /\ requests[n].of \in 1 .. Len(senders) /\ senders[requests[n].of].closed
  BY DEF SenderInv, SendersTyped, AskedClosed
<1>2. /\ requests' \in Seq(Asked) /\ Len(requests') = Len(requests)
      /\ \A m \in 1 .. Len(requests) :
            /\ m # n => requests'[m] = requests[m]
            /\ requests'[m].of = requests[m].of /\ requests'[m].kind = requests[m].kind
      /\ requests'[n].at = place
  BY <1>1, AtFields
<1>3. SendersTyped' /\ SlotIsNow' /\ HandedIsOwn' /\ OthersClosed'
  BY <1>1, <1>2
     DEF SenderInv, SendersTyped, SlotIsNow, HandedIsOwn, OthersClosed, Current, Now
<1>4. DownIsComing'
  <2> SUFFICES ASSUME NEW i \in 1 .. Len(senders), senders[i].closed, links'[i].channel
               PROVE  \E m \in 1 .. Len(requests) :
                         requests'[m].of = i /\ requests'[m].at \notin {"opening", "done"}
    BY <1>2 DEF DownIsComing
  <2>1. PICK m \in 1 .. Len(requests) :
           requests[m].of = i /\ requests[m].at \notin {"opening", "done"}
    BY DEF SenderInv, DownIsComing
  <2>2. m = n => place # "done"
    BY <2>1 DEF SenderInv, AskedClosed
  <2> QED
    BY <1>2, <2>1, <2>2
<1>5. AskedClosed'
  <2> SUFFICES ASSUME NEW m \in 1 .. Len(requests)
               PROVE  /\ requests'[m].at \notin {"opening", "done"}
                            => senders[requests[m].of].closed
                      /\ requests'[m].at = "closed" => ~links'[requests[m].of].channel
                      /\ requests'[m].at = "opening" /\ ~(m = Len(requests) /\ ui.mounted)
                            => senders[requests[m].of].closed
    BY <1>2 DEF AskedClosed
  <2>1. CASE m = n
    BY <1>1, <1>2, <2>1
  <2>2. CASE m # n
    BY <1>1, <1>2, <2>2 DEF SenderInv, AskedClosed, SendersTyped
  <2> QED
    BY <2>1, <2>2
<1>6. NewestRules'
  <2> SUFFICES ASSUME Len(requests) > 0, ui.mounted
               PROVE  LET r == requests'[Len(requests)] IN
                        /\ r.kind # "leave"
                        /\ r.at \notin {"opening", "done"} => senders[Current].closed
                        /\ r.at \in {"opening", "done"} =>
                             /\ r.of = Current /\ ~senders[Current].closed
                             /\ senders[Current].kind = IF r.kind = "connect" THEN "link" ELSE "log"
    BY <1>2 DEF NewestRules, Current
  <2>1. Len(requests) \in 1 .. Len(requests)
    BY <1>1, Elements
  <2>2. CASE n = Len(requests)
    BY <1>2, <2>1, <2>2 DEF SenderInv, NewestRules, Newest
  <2>3. CASE n # Len(requests)
    BY <1>2, <2>1, <2>3 DEF SenderInv, NewestRules
  <2> QED
    BY <2>2, <2>3
<1> QED
  BY <1>3, <1>4, <1>5, <1>6 DEF SenderInv

\* A request that has made its sender is over, or turns out to have been overtaken.
LEMMA ConnectedKeeps ==
    ASSUME SenderInv, NEW n \in 1 .. Len(requests), Connected(n)
    PROVE  SenderInv'
<1> DEFINE place == IF app = "phone" /\ ~(Newest(n) /\ ui.mounted) THEN "stale" ELSE "done"
<1>1. SendersTyped /\ requests[n].of \in 1 .. Len(senders)
  BY DEF SenderInv, SendersTyped
<1>2. /\ requests[n].at = "opening" /\ At(n, place) /\ UNCHANGED <<ui, senders, links>>
      /\ place \in Places
  BY DEF Connected, Places
<1>3. place \in {"stale", "done"} /\ (place = "stale" => ~(n = Len(requests) /\ ui.mounted))
  BY DEF Newest
<1> HIDE DEF place
<1>4. /\ requests' \in Seq(Asked) /\ Len(requests') = Len(requests)
      /\ \A m \in 1 .. Len(requests) :
            /\ m # n => requests'[m] = requests[m]
            /\ requests'[m].of = requests[m].of /\ requests'[m].kind = requests[m].kind
      /\ requests'[n].at = place
  BY <1>1, <1>2, AtFields
<1>5. SendersTyped' /\ SlotIsNow' /\ HandedIsOwn' /\ OthersClosed'
  BY <1>1, <1>2, <1>4
     DEF SenderInv, SendersTyped, SlotIsNow, HandedIsOwn, OthersClosed, Current, Now
<1>6. DownIsComing'
  BY <1>2, <1>4 DEF SenderInv, DownIsComing
<1>7. AskedClosed'
  <2> SUFFICES ASSUME NEW m \in 1 .. Len(requests)
               PROVE  /\ requests'[m].at \notin {"opening", "done"}
                            => senders[requests[m].of].closed
                      /\ requests'[m].at = "closed" => ~links[requests[m].of].channel
                      /\ requests'[m].at = "opening" /\ ~(m = Len(requests) /\ ui.mounted)
                            => senders[requests[m].of].closed
    BY <1>2, <1>4 DEF AskedClosed
  <2>1. CASE m = n
    BY <1>2, <1>3, <1>4, <2>1 DEF SenderInv, AskedClosed
  <2>2. CASE m # n
    BY <1>4, <2>2 DEF SenderInv, AskedClosed
  <2> QED
    BY <2>1, <2>2
<1>8. NewestRules'
  <2> SUFFICES ASSUME Len(requests) > 0, ui.mounted
               PROVE  LET r == requests'[Len(requests)] IN
                        /\ r.kind # "leave"
                        /\ r.at \notin {"opening", "done"} => senders[Current].closed
                        /\ r.at \in {"opening", "done"} =>
                             /\ r.of = Current /\ ~senders[Current].closed
                             /\ senders[Current].kind = IF r.kind = "connect" THEN "link" ELSE "log"
    BY <1>2, <1>4 DEF NewestRules, Current
  <2>1. Len(requests) \in 1 .. Len(requests)
    BY <1>1, Elements
  <2>2. CASE n = Len(requests)
    BY <1>2, <1>3, <1>4, <2>1, <2>2 DEF SenderInv, NewestRules
  <2>3. CASE n # Len(requests)
    BY <1>4, <2>1, <2>3 DEF SenderInv, NewestRules
  <2> QED
    BY <2>2, <2>3
<1> QED
  BY <1>5, <1>6, <1>7, <1>8 DEF SenderInv

\* After the close the newest request makes the next sender.
LEMMA ReplaceMakes ==
    ASSUME SenderInv, NEW n \in 1 .. Len(requests), Replace(n), Newest(n), ui.mounted
    PROVE  SenderInv'
<1> DEFINE kind == IF requests[n].kind = "connect" THEN "link" ELSE "log"
           next == Current + 1
           s == NewSender(kind)
           link == IF kind = "link" THEN Connects(NoLink) ELSE NoLink
           place == IF kind = "link" THEN "opening" ELSE "done"
           r == [requests[n] EXCEPT !.of = next, !.at = place]
<1>1. /\ SendersTyped /\ Current \in 1 .. Len(senders) /\ Len(senders) \in Nat
      /\ requests[n] \in Asked
  BY Elements DEF SenderInv
<1>2. /\ s \in Sender /\ s.pending = None /\ s.sending = None /\ ~s.closed /\ s.kind = kind
  BY DEF NewSender, Sender
<1>3. link \in Link
  <2>1. NoLink \in Link
    BY DEF NoLink, Link
  <2> QED
    BY <2>1, SendsTyped
<1>4. place \in {"opening", "done"} /\ kind = IF requests[n].kind = "connect" THEN "link" ELSE "log"
  OBVIOUS
<1>5. next = Len(senders) + 1 /\ next \in Nat
  BY <1>1 DEF Current
<1>6. r \in Asked /\ r.of = next /\ r.at = place /\ r.kind = requests[n].kind
  BY <1>1, <1>4, <1>5 DEF Asked, Places
<1>7. /\ requests[n].at = "closed"
      /\ senders' = Append(senders, s) /\ links' = Append(links, link)
      /\ requests' = [requests EXCEPT ![n] = r]
      /\ UNCHANGED ui
  BY DEF Replace
<1> HIDE DEF kind, next, s, link, place, r
<1>8. /\ senders' \in Seq(Sender) /\ Len(senders') = next /\ senders'[next] = s
      /\ \A j \in 1 .. Len(senders) : senders'[j] = senders[j]
  BY <1>1, <1>2, <1>5, <1>7, AppendProperties DEF SendersTyped
<1>9. /\ links' \in Seq(Link) /\ Len(links') = next /\ links'[next] = link
      /\ \A j \in 1 .. Len(senders) : links'[j] = links[j]
  BY <1>1, <1>3, <1>5, <1>7, AppendProperties DEF SendersTyped
<1>10. /\ requests' \in Seq(Asked) /\ Len(requests') = Len(requests)
       /\ \A m \in 1 .. Len(requests) : requests'[m] = IF m = n THEN r ELSE requests[m]
  BY <1>1, <1>6, <1>7, ExceptSeq DEF SendersTyped
<1>11. n = Len(requests) /\ Len(requests) > 0
  BY DEF Newest
<1>12. \A j \in 1 .. Len(senders) : senders[j].closed /\ senders[j].pending = None
  BY <1>7, <1>11 DEF SenderInv, NewestRules, OthersClosed, SlotIsNow
<1>13. \A j \in 1 .. next : j \in 1 .. Len(senders) \/ j = next
  BY <1>1, <1>5
<1>14. SendersTyped'
  <2>1. ASSUME NEW m \in 1 .. Len(requests)
        PROVE  requests'[m].of \in 1 .. next
    BY <1>1, <1>5, <1>6, <1>10 DEF SendersTyped
  <2> QED
    BY <1>5, <1>8, <1>9, <1>10, <2>1 DEF SendersTyped
<1>15. SlotIsNow' /\ HandedIsOwn' /\ OthersClosed'
  <2>1. SlotIsNow'
    BY <1>2, <1>8, <1>12, <1>13 DEF SlotIsNow
  <2>2. HandedIsOwn'
    BY <1>2, <1>8, <1>13 DEF SenderInv, HandedIsOwn
  <2>3. OthersClosed'
    BY <1>8, <1>12, <1>13 DEF OthersClosed, Current
  <2> QED
    BY <2>1, <2>2, <2>3
<1>16. DownIsComing'
  <2> SUFFICES ASSUME NEW i \in 1 .. next, senders'[i].closed, links'[i].channel
               PROVE  \E m \in 1 .. Len(requests) :
                         requests'[m].of = i /\ requests'[m].at \notin {"opening", "done"}
    BY <1>8, <1>10 DEF DownIsComing
  <2>1. i \in 1 .. Len(senders) /\ senders[i].closed /\ links[i].channel
    BY <1>2, <1>8, <1>9, <1>13
  <2>2. PICK m \in 1 .. Len(requests) :
           requests[m].of = i /\ requests[m].at \notin {"opening", "done"}
    BY <2>1 DEF SenderInv, DownIsComing
  <2>3. m # n
    BY <1>7, <2>1, <2>2 DEF SenderInv, AskedClosed
  <2> QED
    BY <1>10, <2>2, <2>3
<1>17. AskedClosed'
  <2> SUFFICES ASSUME NEW m \in 1 .. Len(requests)
               PROVE  /\ requests'[m].at \notin {"opening", "done"}
                            => senders'[requests'[m].of].closed
                      /\ requests'[m].at = "closed" => ~links'[requests'[m].of].channel
                      /\ requests'[m].at = "opening" /\ ~(m = Len(requests) /\ ui.mounted)
                            => senders'[requests'[m].of].closed
    BY <1>7, <1>10 DEF AskedClosed
  <2>1. CASE m = n
    BY <1>4, <1>6, <1>10, <1>11, <2>1
  <2>2. CASE m # n
    <3>1. requests'[m] = requests[m] /\ requests[m].of \in 1 .. Len(senders)
      BY <1>1, <1>10, <2>2 DEF SendersTyped
    <3> QED
      BY <1>8, <1>9, <3>1 DEF SenderInv, AskedClosed
  <2> QED
    BY <2>1, <2>2
<1>18. NewestRules'
  <2>1. requests'[Len(requests')] = r /\ senders'[Len(senders')] = s
    BY <1>8, <1>10, <1>11
  <2>2. requests[n].kind # "leave"
    BY <1>11 DEF SenderInv, NewestRules
  <2> QED
    BY <1>2, <1>4, <1>6, <1>8, <2>1, <2>2 DEF NewestRules, Current
<1> QED
  BY <1>14, <1>15, <1>16, <1>17, <1>18 DEF SenderInv

(***************************************************************************)
(* Every step keeps what is said of the senders.                           *)
(***************************************************************************)

LEMMA BeginLinkCloseKeeps ==
    ASSUME SenderInv, NEW n \in 1 .. Len(requests), BeginLinkClose(n)
    PROVE  SenderInv'
<1> DEFINE i == requests[n].of
           down == [links[i] EXCEPT !.stream = "none"]
<1>1. /\ SendersTyped /\ i \in 1 .. Len(senders) /\ links[i] \in Link
      /\ requests[n].at \notin {"opening", "done"}
      /\ UNCHANGED <<ui, senders>>
  BY Elements DEF SenderInv, SendersTyped, BeginLinkClose
<1>2. CASE app = "browser"
  <2>1. BrowserCloses(links[i]) \in Link /\ ~BrowserCloses(links[i]).channel
    BY <1>1 DEF BrowserCloses, Link
  <2>2. links' = [links EXCEPT ![i] = BrowserCloses(links[i])] /\ At(n, "closed")
    BY <1>2 DEF BeginLinkClose
  <2>3. /\ links' \in Seq(Link) /\ Len(links') = Len(links)
        /\ \A j \in 1 .. Len(links) :
              links'[j] = IF j = i THEN BrowserCloses(links[i]) ELSE links[j]
    BY <1>1, <2>1, <2>2, ExceptSeq DEF SendersTyped
  <2>4. /\ \A j \in 1 .. Len(senders) : links'[j].channel => links[j].channel
        /\ ~links'[requests[n].of].channel
    BY <1>1, <2>1, <2>3 DEF SendersTyped
  <2>5. "closed" \in Places \ {"opening"}
    BY DEF Places
  <2> QED
    BY <1>1, <2>2, <2>3, <2>4, <2>5, ClosingGoesOn
<1>3. CASE app # "browser"
  <2>1. down \in Link /\ down.channel = links[i].channel
    BY <1>1 DEF Link
  <2>2. links' = [links EXCEPT ![i] = down]
    BY <1>3 DEF BeginLinkClose
  <2>3. PICK place \in {"down", "unheard", "ending"} : At(n, place)
    <3>1. links[i].stream \in {"none", "waiting", "open"}
      BY <1>1 DEF Link
    <3>2. At(n, CASE links[i].stream = "none" -> "down"
                  [] links[i].stream = "waiting" -> "unheard"
                  [] links[i].stream = "open" -> "ending")
      BY <1>3 DEF BeginLinkClose
    <3> QED
      BY <3>1, <3>2
  <2> HIDE DEF down
  <2>4. /\ links' \in Seq(Link) /\ Len(links') = Len(links)
        /\ \A j \in 1 .. Len(links) : links'[j] = IF j = i THEN down ELSE links[j]
    BY <1>1, <2>1, <2>2, ExceptSeq DEF SendersTyped
  <2>5. \A j \in 1 .. Len(senders) : links'[j].channel => links[j].channel
    BY <1>1, <2>1, <2>4 DEF SendersTyped
  <2>6. place \in Places \ {"opening"} /\ place \notin {"closed", "done"}
    BY DEF Places
  <2> QED
    BY <1>1, <2>3, <2>4, <2>5, <2>6, ClosingGoesOn
<1> QED
  BY <1>2, <1>3

LEMMA ChannelDownKeeps ==
    ASSUME SenderInv, NEW n \in 1 .. Len(requests), ChannelDown(n)
    PROVE  SenderInv'
<1> DEFINE i == requests[n].of
<1>1. /\ SendersTyped /\ i \in 1 .. Len(senders)
      /\ requests[n].at \notin {"opening", "done"}
      /\ UNCHANGED <<ui, senders>> /\ At(n, "closed")
      /\ links' = [links EXCEPT ![i] = NoLink]
  BY DEF SenderInv, SendersTyped, ChannelDown
<1>2. NoLink \in Link /\ ~NoLink.channel
  BY DEF NoLink, Link
<1>3. /\ links' \in Seq(Link) /\ Len(links') = Len(links)
      /\ \A j \in 1 .. Len(links) : links'[j] = IF j = i THEN NoLink ELSE links[j]
  BY <1>1, <1>2, ExceptSeq DEF SendersTyped
<1>4. /\ \A j \in 1 .. Len(senders) : links'[j].channel => links[j].channel
      /\ ~links'[requests[n].of].channel
  BY <1>1, <1>2, <1>3 DEF SendersTyped
<1>5. "closed" \in Places \ {"opening"}
  BY DEF Places
<1> QED
  BY <1>1, <1>3, <1>4, <1>5, ClosingGoesOn

LEMMA RequestKeeps ==
    ASSUME SenderInv, NEW n \in 1 .. Len(requests), RequestStep(n) \/ StreamHeard(n)
    PROVE  SenderInv'
<1>1. SendersTyped
  BY DEF SenderInv
<1>2. CASE StreamEnded(n) \/ StreamHeard(n)
  <2>1. PICK place \in {"down", "ending"} : At(n, place)
    BY <1>2 DEF StreamEnded, StreamHeard
  <2>2. place \in Places \ {"opening"} /\ place \notin {"closed", "done"}
    BY DEF Places
  <2>3. requests[n].at \notin {"opening", "done"} /\ UNCHANGED <<ui, senders, links>>
    BY <1>2 DEF StreamEnded, StreamHeard
  <2> QED
    BY <1>1, <2>1, <2>2, <2>3, ClosingGoesOn DEF SendersTyped
<1>3. CASE Replace(n) /\ ~(Newest(n) /\ ui.mounted)
  <2>1. "done" \in Places \ {"opening"}
    BY DEF Places
  <2>2. /\ requests[n].at = "closed" /\ UNCHANGED <<ui, senders, links>> /\ At(n, "done")
    BY <1>3 DEF Replace
  <2> QED
    BY <1>1, <1>3, <2>1, <2>2, ClosingGoesOn DEF SendersTyped
<1> QED
  BY <1>2, <1>3, BeginLinkCloseKeeps, ChannelDownKeeps, ReplaceMakes, ConnectedKeeps
     DEF RequestStep

LEMMA LoopKeeps ==
    ASSUME SenderInv, ui.generation \in Nat, NEW i \in 1 .. Len(senders), SenderStep(i)
    PROVE  SenderInv'
<1> DEFINE s == senders[i]
<1>1. /\ s \in Sender /\ Now \in Nat /\ SlotOk(s, Now) /\ HandOk(s)
      /\ i # Current => s.closed
      /\ UNCHANGED <<ui, requests>>
  BY Elements
     DEF SenderInv, SlotIsNow, HandedIsOwn, OthersClosed, SlotOk, HandOk, SenderStep, Now,
         Paced, Sent, DrainOver
<1>2. ASSUME NEW t, Follows(s, t, Now), SenderBecomes(i, t)
      PROVE  SenderInv'
  BY <1>1, <1>2, SenderFollows DEF Follows
<1>3. CASE Paced(i)
  BY <1>1, <1>2, <1>3, AfterDelayFollows DEF Paced
<1>4. CASE Sent(i)
  <2> DEFINE emptied == [s EXCEPT !.sending = None]
  <2>1. PICK wait \in BOOLEAN : SenderBecomes(i, DrainLoop(emptied, wait, Now))
    BY <1>4 DEF Sent
  <2>2. /\ emptied \in Sender /\ emptied.pending = s.pending /\ emptied.closed = s.closed
        /\ emptied.kind = s.kind /\ emptied.phase = s.phase /\ emptied.name = s.name
        /\ emptied.sending = None
    BY <1>1 DEF Sender
  <2> HIDE DEF emptied
  <2>3. SlotOk(emptied, Now) /\ HandOk(emptied)
    BY <1>1, <2>2 DEF SlotOk, HandOk
  <2>4. Follows(emptied, DrainLoop(emptied, wait, Now), Now)
    BY <1>1, <2>2, <2>3, DrainLoopFollows
  <2>5. Follows(s, DrainLoop(emptied, wait, Now), Now)
    BY <2>2, <2>4 DEF Follows, HandsOver
  <2> QED
    BY <1>2, <2>1, <2>5
<1>5. CASE DrainOver(i)
  <2>1. PICK wait \in BOOLEAN : SenderBecomes(i, DrainCompletes(s, wait, Now))
    BY <1>5 DEF DrainOver
  <2> QED
    BY <1>1, <1>2, <2>1, DrainCompletesFollows
<1> QED
  BY <1>3, <1>4, <1>5 DEF SenderStep

LEMMA NetworkStepKeeps ==
    ASSUME SenderInv, NetworkStep
    PROVE  SenderInv'
<1>1. PICK i \in DOMAIN links : Established(i) \/ Lost(i) \/ Reopen(i)
  BY DEF NetworkStep
<1>2. i \in 1 .. Len(senders) /\ links[i] \in Link
  BY Elements DEF SenderInv
<1>3. UNCHANGED <<ui, senders, requests>>
  BY <1>1 DEF Established, Lost, Reopen
<1>4. ASSUME NEW link \in Link, link.channel = links[i].channel,
             links' = [links EXCEPT ![i] = link]
      PROVE  SenderInv'
  BY <1>2, <1>3, <1>4, NetworkKeeps
<1>5. CASE Established(i)
  <2> DEFINE link == [links[i] EXCEPT !.stream = "open"]
  <2>1. link \in Link /\ link.channel = links[i].channel
    BY <1>2 DEF Link
  <2>2. links' = [links EXCEPT ![i] = link]
    BY <1>5 DEF Established
  <2> QED
    BY <1>4, <2>1, <2>2
<1>6. CASE Lost(i)
  <2> DEFINE link == [links[i] EXCEPT !.stream = "none"]
  <2>1. link \in Link /\ link.channel = links[i].channel
    BY <1>2 DEF Link
  <2>2. links' = [links EXCEPT ![i] = link]
    BY <1>6 DEF Lost
  <2> QED
    BY <1>4, <2>1, <2>2
<1>7. CASE Reopen(i)
  <2> DEFINE link == BrowserConnects(links[i])
  <2>1. link \in Link /\ link.channel = links[i].channel
    BY <1>2, <1>7 DEF Link, BrowserConnects, Reopen
  <2>2. links' = [links EXCEPT ![i] = link]
    BY <1>7 DEF Reopen
  <2> QED
    BY <1>4, <2>1, <2>2
<1> QED
  BY <1>1, <1>5, <1>6, <1>7

\* The chunk of an inference that still holds goes into the slot.
LEMMA InferredKeeps ==
    ASSUME SenderInv, PageInv, Inferred
    PROVE  SenderInv'
<1>1. CASE ~StillWanted
  <2>1. UNCHANGED <<ui, senders, links, requests>>
    BY <1>1 DEF Inferred
  <2> QED
    BY <2>1 DEF SenderInv, SendersTyped, SlotIsNow, HandedIsOwn, OthersClosed, DownIsComing,
                AskedClosed, NewestRules, Current, Now
<1>2. CASE StillWanted
  <2> DEFINE chunk == [goal |-> tick.goal, generation |-> tick.generation]
             s == senders[Current]
  <2>1. /\ SendersTyped /\ Current \in 1 .. Len(senders) /\ s \in Sender
        /\ SlotOk(s, Now) /\ HandOk(s)
    BY Elements DEF SenderInv, SlotIsNow, HandedIsOwn, SlotOk, HandOk
  <2>2. tick \in Job /\ tick.generation = Now
    BY <1>2 DEF Inferred, PageInv, TickOwn, StillWanted
  <2>3. Now \in 0 .. MaxGeneration + 1
    BY ClientsAssumption DEF PageInv, PageTyped, Page, Bounded, Now
  <2>4. chunk \in Chunks /\ chunk.generation = Now
    BY <2>2, <2>3 DEF Chunks, Job
  <2>5. PICK wait \in BOOLEAN : SenderBecomes(Current, Submit(s, chunk, wait, Now))
    BY <1>2 DEF Inferred
  <2> HIDE DEF chunk
  <2>6. Follows(s, Submit(s, chunk, wait, Now), Now)
    BY <2>1, <2>3, <2>4, SubmitFollows
  <2>7. UNCHANGED <<ui, requests>>
    BY DEF Inferred
  <2> QED
    BY <2>1, <2>5, <2>6, <2>7, SenderFollows
<1> QED
  BY <1>1, <1>2

(***************************************************************************)
(* Every step keeps what is said of the page: its inference and its camera. *)
(***************************************************************************)

\* The parts that speak of the inference, where goal, engine and models stay.
LEMMA InferenceStays ==
    ASSUME EngineOwn, TickOwn, app' = app, ui'.goal = ui.goal, models' = models,
           UNCHANGED <<engine, tick>>
    PROVE  EngineOwn' /\ TickOwn'
BY DEF EngineOwn, TickOwn, InferenceOfOneGoal

LEMMA LoadingKeeps ==
    ASSUME PageInv, PhoneLoads \/ PageLoads
    PROVE  PageInv'
<1>1. PICK found \in BOOLEAN : models' = [ready |-> TRUE, text |-> found]
  BY DEF PhoneLoads, PageLoads, Loaded
<1>2. UNCHANGED <<app, ui, engine, tick>> /\ ~models.ready
  BY DEF PhoneLoads, PageLoads, Loaded
<1>3. PageTyped' /\ Bounded' /\ WaitsForModels'
  <2>1. camera \in Camera
    BY DEF PageInv, PageTyped, Page
  <2>2. [camera EXCEPT !.starts = 1, !.crossed = ~camera.front] \in Camera
    <3>1. (~camera.front) \in BOOLEAN /\ 1 \in Nat
      OBVIOUS
    <3> QED
      BY <2>1, <3>1 DEF Camera
  <2>3. camera' \in Camera
    BY <2>1, <2>2 DEF PhoneLoads, PageLoads
  <2> QED
    BY <1>1, <1>2, <2>3 DEF PageInv, PageTyped, Page, Bounded, WaitsForModels
<1>4. CameraCounted'
  <2>1. CASE PhoneLoads
    <3>1. camera.starts = 0 /\ ~camera.held
      BY <1>2, <2>1 DEF PageInv, PageTyped, Page, Camera, WaitsForModels, PhoneLoads
    <3> QED
      BY <2>1, <3>1 DEF PageInv, PageTyped, Page, Camera, CameraCounted, PhoneLoads
  <2>2. CASE PageLoads
    BY <2>2 DEF PageInv, CameraCounted, PageLoads
  <2> QED
    BY <2>1, <2>2
<1>5. EngineOwn' /\ TickOwn'
  <2>1. app = "phone" => tick = None /\ engine.cache.features = None
    BY <1>2 DEF PageInv, WaitsForModels
  <2> QED
    BY <1>1, <1>2, <2>1 DEF PageInv, EngineOwn, TickOwn, InferenceOfOneGoal
<1> QED
  BY <1>3, <1>4, <1>5 DEF PageInv

LEMMA BeginningKeeps ==
    ASSUME PageInv, PhoneTick \/ BrowserTick
    PROVE  PageInv'
<1> DEFINE seen == Push(engine.ring, ui.goal)
           begun == [engine EXCEPT !.ring = seen]
           job == [goal |-> ui.goal, generation |-> Now, history |-> Stack(seen),
                   at |-> "running", features |-> Zero]
<1>1. /\ MayTick /\ BeginInference /\ UNCHANGED <<app, ui, models, camera>>
      /\ app = "phone" => camera.loop
  BY DEF PhoneTick, BrowserTick
<1>2. ui.goal \in Goals /\ Now \in Nat
  BY <1>1 DEF PageInv, PageTyped, Page, MayTick, Now
<1>3. /\ engine.ring \in Frames /\ Len(engine.ring) <= HistoryLen
      /\ \A k \in 1 .. Len(engine.ring) : engine.ring[k] = ui.goal
      /\ engine = [ring |-> engine.ring, cache |-> engine.cache] /\ engine.cache \in Cache
  BY DEF PageInv, EngineOwn
<1>4. /\ seen \in Frames /\ Len(seen) \in 1 .. HistoryLen
      /\ \A k \in 1 .. Len(seen) : seen[k] = ui.goal
  BY <1>2, <1>3, PushOwn
<1>5. Stack(seen) \in Frames /\ \A k \in DOMAIN Stack(seen) : Stack(seen)[k] = ui.goal
  BY <1>2, <1>4, StackOwn
<1>6. begun = [ring |-> seen, cache |-> engine.cache]
  BY <1>3
<1>7. /\ job \in Job /\ job.at = "running" /\ job.features = Zero /\ job.goal = ui.goal
      /\ job.history = Stack(seen)
  BY <1>2, <1>5 DEF Job, Features
<1>8. \/ /\ Cached(engine, ui.goal)
         /\ tick' = [job EXCEPT !.features = engine.cache.features] /\ engine' = begun
      \/ /\ models.text
         /\ tick' = [job EXCEPT !.at = "encoding"] /\ engine' = begun
      \/ /\ ~models.text /\ tick' = job /\ engine' = Remember(begun, ui.goal, Zero)
  BY <1>1 DEF BeginInference
<1> HIDE DEF seen, begun, job
<1>9. EngineOwn' /\ TickOwn'
  <2>1. CASE /\ Cached(engine, ui.goal)
             /\ tick' = [job EXCEPT !.features = engine.cache.features] /\ engine' = begun
    <3>1. engine.cache.features \in Features
      BY <1>2, <1>3, <2>1, ClientDataAssumption DEF Cached, PageInv, EngineOwn, Features, Cache
    <3>2. /\ tick' \in Job /\ tick'.goal = ui.goal /\ tick'.history = Stack(seen)
          /\ tick'.features = engine.cache.features
      BY <1>7, <2>1, <3>1 DEF Job
    <3>3. EngineOwn'
      BY <1>1, <1>3, <1>4, <1>6, <2>1 DEF PageInv, EngineOwn
    <3>4. InferenceOfOneGoal'
      BY <1>1, <1>5, <2>1, <3>2 DEF PageInv, EngineOwn, InferenceOfOneGoal, Cached
    <3> QED
      BY <3>2, <3>3, <3>4 DEF TickOwn
  <2>2. CASE models.text /\ tick' = [job EXCEPT !.at = "encoding"] /\ engine' = begun
    <3>1. /\ tick' \in Job /\ tick'.goal = ui.goal /\ tick'.history = Stack(seen)
          /\ tick'.at = "encoding"
      BY <1>7, <2>2 DEF Job
    <3>2. EngineOwn'
      BY <1>1, <1>3, <1>4, <1>6, <2>2 DEF PageInv, EngineOwn
    <3>3. InferenceOfOneGoal'
      BY <1>5, <3>1 DEF InferenceOfOneGoal
    <3> QED
      BY <3>1, <3>2, <3>3 DEF TickOwn
  <2>3. CASE ~models.text /\ tick' = job /\ engine' = Remember(begun, ui.goal, Zero)
    <3> DEFINE cache == [key |-> ui.goal, features |-> Zero]
    <3>1. cache \in Cache /\ cache.features = Zero
      BY <1>2 DEF Cache, Features
    <3>2. engine' = [ring |-> seen, cache |-> cache]
      BY <1>6, <2>3 DEF Remember
    <3> HIDE DEF cache
    <3>3. EngineOwn'
      BY <1>1, <1>4, <2>3, <3>1, <3>2 DEF EngineOwn
    <3>4. InferenceOfOneGoal'
      BY <1>1, <1>5, <1>7, <2>3 DEF InferenceOfOneGoal
    <3> QED
      BY <1>7, <2>3, <3>3, <3>4 DEF TickOwn
  <2> QED
    BY <1>8, <2>1, <2>2, <2>3
<1>10. PageTyped' /\ Bounded' /\ WaitsForModels' /\ CameraCounted'
  BY <1>1 DEF PageInv, PageTyped, Page, Bounded, WaitsForModels, CameraCounted
<1> QED
  BY <1>9, <1>10 DEF PageInv

LEMMA EncodingKeeps ==
    ASSUME PageInv, TextEncoded
    PROVE  PageInv'
<1> DEFINE cache == [key |-> tick.goal, features |-> tick.goal]
<1>1. /\ tick \in Job /\ tick # None /\ tick.at = "encoding"
      /\ tick' = [tick EXCEPT !.at = "running", !.features = tick.goal]
      /\ engine' = Remember(engine, tick.goal, tick.goal)
      /\ UNCHANGED <<app, ui, models, camera>>
  BY DEF TextEncoded, PageInv, TickOwn
<1>2. tick' \in Job /\ tick'.goal = tick.goal /\ tick'.history = tick.history
      /\ tick'.features = tick.goal
  BY <1>1 DEF Job, Features
<1>3. engine' = [ring |-> engine.ring, cache |-> cache]
  BY <1>1 DEF Remember, PageInv, EngineOwn
<1>4. cache \in Cache /\ cache.features = cache.key
  BY <1>1 DEF Cache, Features, Job
<1> HIDE DEF cache
<1>5. EngineOwn'
  BY <1>1, <1>3, <1>4 DEF PageInv, EngineOwn
<1>6. TickOwn'
  BY <1>1, <1>2 DEF PageInv, TickOwn, InferenceOfOneGoal
<1>7. PageTyped' /\ Bounded' /\ WaitsForModels' /\ CameraCounted'
  BY <1>1 DEF PageInv, PageTyped, Page, Bounded, WaitsForModels, CameraCounted
<1> QED
  BY <1>5, <1>6, <1>7 DEF PageInv

\* An inference that is over leaves the page as it is.
LEMMA EndingKeeps ==
    ASSUME PageInv, tick' = None, UNCHANGED <<app, ui, engine, models, camera>>
    PROVE  PageInv'
BY DEF PageInv, PageTyped, Page, Bounded, WaitsForModels, CameraCounted, EngineOwn, TickOwn,
       InferenceOfOneGoal

LEMMA GoalKeeps ==
    ASSUME PageInv, NEW goal \in Goals, SetGoal(goal)
    PROVE  PageInv'
<1>1. /\ ui' = [Renewed EXCEPT !.goal = goal] /\ engine' = Reset(engine)
      /\ UNCHANGED <<app, models, tick, camera>> /\ ui.mounted /\ Now < MaxGeneration
  BY DEF SetGoal
<1>2. PageTyped' /\ Bounded'
  <2>1. Renewed \in Page /\ Renewed.mounted /\ Renewed.generation = ui.generation + 1
    BY <1>1 DEF PageInv, PageTyped, Page, Renewed
  <2>2. ui' \in Page /\ ui'.mounted /\ ui'.generation = ui.generation + 1
    BY <1>1, <2>1 DEF Page
  <2> QED
    BY <1>1, <2>2, ClientsAssumption DEF PageInv, PageTyped, Page, Bounded, Now
<1>3. engine' = [ring |-> <<>>, cache |-> NoCache]
  BY <1>1 DEF PageInv, EngineOwn, Reset
<1>4. NoCache \in Cache /\ NoCache.features = None
  BY DEF NoCache, Cache
<1>5. <<>> \in Frames /\ Len(<<>>) = 0
  BY EmptySeq DEF Frames
<1>6. EngineOwn'
  BY <1>3, <1>4, <1>5, PhoneEngineAssumption DEF EngineOwn
<1>7. TickOwn'
  BY <1>1 DEF PageInv, TickOwn, InferenceOfOneGoal
<1>8. WaitsForModels' /\ CameraCounted'
  BY <1>1, <1>3, <1>4 DEF PageInv, WaitsForModels, CameraCounted
<1> QED
  BY <1>2, <1>6, <1>7, <1>8 DEF PageInv

\* A connect, a disconnect or a switch: at most the generation moves.
LEMMA SwitchKeeps ==
    ASSUME PageInv, UNCHANGED <<app, engine, models, tick, camera>>,
           ui'.goal = ui.goal, ui'.mounted = ui.mounted, PageTyped', Bounded'
    PROVE  PageInv'
BY InferenceStays DEF PageInv, WaitsForModels, CameraCounted

LEMMA OperatorKeeps ==
    ASSUME PageInv, Toggle \/ Connect \/ Disconnect
    PROVE  PageInv'
<1>1. UNCHANGED <<app, engine, models, tick, camera>> /\ ui.mounted
      /\ \/ ui' = [ui EXCEPT !.running = ~@]
         \/ ui' = [Renewed EXCEPT !.running = ~@] /\ Now < MaxGeneration
         \/ ui' = Renewed /\ Now < MaxGeneration
  BY DEF Toggle, Connect, Disconnect, Request
<1>2. /\ ui' \in Page /\ ui'.goal = ui.goal /\ ui'.mounted = ui.mounted
      /\ \/ ui'.generation = ui.generation
         \/ ui'.generation = ui.generation + 1 /\ Now < MaxGeneration
  <2>1. ui \in Page
    BY DEF PageInv, PageTyped, Page
  <2>2. CASE ui' = [ui EXCEPT !.running = ~@]
    <3>1. (~ui.running) \in BOOLEAN
      OBVIOUS
    <3> QED
      BY <2>1, <2>2, <3>1 DEF Page
  <2>3. CASE ui' = [Renewed EXCEPT !.running = ~@] /\ Now < MaxGeneration
    <3>1. Renewed \in Page /\ Renewed.goal = ui.goal /\ Renewed.mounted = ui.mounted
          /\ Renewed.generation = ui.generation + 1
      BY <2>1 DEF Page, Renewed
    <3>2. (~Renewed.running) \in BOOLEAN
      OBVIOUS
    <3> QED
      BY <2>3, <3>1, <3>2 DEF Page
  <2>4. CASE ui' = Renewed /\ Now < MaxGeneration
    BY <2>1, <2>4 DEF Page, Renewed
  <2> QED
    BY <1>1, <2>2, <2>3, <2>4
<1>3. PageTyped' /\ Bounded'
  BY <1>1, <1>2, ClientsAssumption DEF PageInv, PageTyped, Page, Bounded, Now
<1> QED
  BY <1>1, <1>2, <1>3, SwitchKeeps

LEMMA LeaveKeeps ==
    ASSUME PageInv, Leave
    PROVE  PageInv'
<1>1. /\ UNCHANGED <<app, engine, models, tick>> /\ ui.mounted
      /\ ui' = [Renewed EXCEPT !.mounted = FALSE]
      /\ camera' = [camera EXCEPT !.held = FALSE, !.loop = FALSE]
  BY DEF Leave
<1>2. PageTyped' /\ Bounded' /\ ui'.goal = ui.goal
  <2>1. /\ ui' \in Page /\ ~ui'.mounted /\ ui'.generation = ui.generation + 1
        /\ ui'.goal = ui.goal
    <3>1. Renewed \in Page /\ Renewed.generation = ui.generation + 1 /\ Renewed.goal = ui.goal
      BY DEF PageInv, PageTyped, Page, Renewed
    <3> QED
      BY <1>1, <3>1 DEF Page
  <2>2. camera' \in Camera
    BY <1>1 DEF PageInv, PageTyped, Page, Camera
  <2> QED
    BY <1>1, <2>1, <2>2, ClientsAssumption DEF PageInv, PageTyped, Page, Bounded
<1>3. WaitsForModels' /\ CameraCounted'
  BY <1>1 DEF PageInv, PageTyped, Page, Camera, WaitsForModels, CameraCounted
<1> QED
  BY <1>1, <1>2, <1>3, InferenceStays DEF PageInv

LEMMA CameraKeeps ==
    ASSUME PageInv, CameraStep
    PROVE  PageInv'
<1>1. /\ UNCHANGED <<app, engine, models, tick>>
      /\ ui'.goal = ui.goal /\ ui'.mounted = ui.mounted
  BY DEF CameraStep, FrameArrives, Pause, Resume, CameraStarts, CameraFails, PageInv, PageTyped,
         Page, Renewed
<1>2. PageTyped' /\ Bounded'
  <2>1. ui \in Page /\ camera \in Camera
    BY DEF PageInv, PageTyped, Page
  <2>2. /\ ui' \in Page
        /\ \/ ui'.generation = ui.generation
           \/ ui'.generation = ui.generation + 1 /\ ui.mounted /\ Now < MaxGeneration
    BY <2>1 DEF CameraStep, FrameArrives, Pause, Resume, CameraStarts, CameraFails, Renewed,
                 Page
  <2>3. camera' \in Camera
    <3>1. CASE FrameArrives
      BY <2>1, <3>1 DEF FrameArrives, Camera
    <3>2. CASE Pause
      <4>1. (camera.starts > 0) \in BOOLEAN
        OBVIOUS
      <4> QED
        BY <2>1, <3>2, <4>1 DEF Pause, Camera
    <3>3. CASE Resume
      <4> DEFINE both == camera.overlap \/ camera.starts > 0
      <4>1. both \in BOOLEAN
        OBVIOUS
      <4>2. CASE Restarts
        <5> DEFINE started == camera.starts + 1
                   begun == camera.begun + 1
        <5>1. started \in Nat /\ begun \in Nat
          BY <2>1 DEF Camera
        <5>2. camera' = [camera EXCEPT !.front = TRUE, !.starts = started, !.begun = begun,
                                       !.overlap = both]
          BY <3>3, <4>2 DEF Resume
        <5> HIDE DEF both, started, begun
        <5> QED
          BY <2>1, <4>1, <5>1, <5>2 DEF Camera
      <4>3. CASE ~Restarts
        <5>1. camera' = [camera EXCEPT !.front = TRUE]
          BY <3>3, <4>3 DEF Resume
        <5> QED
          BY <2>1, <5>1 DEF Camera
      <4> QED
        BY <4>2, <4>3
    <3>4. CASE CameraStarts
      <4>1. camera.starts - 1 \in Nat
        BY <2>1, <3>4 DEF CameraStarts, Camera
      <4>2. CASE ~ui.mounted
        BY <2>1, <3>4, <4>1, <4>2 DEF CameraStarts, Camera
      <4>3. CASE ui.mounted
        <5> DEFINE leaked == IF camera.held THEN camera.leaked + 1 ELSE camera.leaked
        <5>1. leaked \in Nat
          BY <2>1 DEF Camera
        <5>2. camera' = [camera EXCEPT !.starts = @ - 1, !.held = TRUE, !.loop = TRUE,
                                       !.failed = FALSE, !.leaked = leaked]
          BY <3>4, <4>3 DEF CameraStarts
        <5> HIDE DEF leaked
        <5> QED
          BY <2>1, <4>1, <5>1, <5>2 DEF Camera
      <4> QED
        BY <4>2, <4>3
    <3>5. CASE CameraFails
      <4>1. camera.starts - 1 \in Nat /\ (ui.mounted \/ camera.failed) \in BOOLEAN
        BY <2>1, <3>5 DEF CameraFails, Camera
      <4> QED
        BY <2>1, <3>5, <4>1 DEF CameraFails, Camera
    <3> QED
      BY <3>1, <3>2, <3>3, <3>4, <3>5 DEF CameraStep
  <2> QED
    BY <1>1, <2>2, <2>3, ClientsAssumption DEF PageInv, PageTyped, Page, Bounded, Now
<1>3. WaitsForModels'
  <2>1. CASE FrameArrives
    BY <1>1, <2>1 DEF FrameArrives, PageInv, PageTyped, Page, WaitsForModels, Camera
  <2>2. CASE Pause
    BY <1>1, <2>2 DEF Pause, PageInv, PageTyped, Page, WaitsForModels, Camera
  <2>3. CASE Resume
    BY <1>1, <2>3 DEF Resume, Restarts, PageInv, PageTyped, Page, WaitsForModels, Camera
  <2>4. CASE CameraStarts
    BY <1>1, <2>4 DEF CameraStarts, PageInv, PageTyped, Page, WaitsForModels, Camera
  <2>5. CASE CameraFails
    BY <1>1, <2>5 DEF CameraFails, PageInv, PageTyped, Page, WaitsForModels, Camera
  <2> QED
    BY <2>1, <2>2, <2>3, <2>4, <2>5 DEF CameraStep
<1>4. CameraCounted'
  <2>1. CASE FrameArrives
    BY <2>1 DEF FrameArrives, PageInv, PageTyped, Page, CameraCounted, Camera
  <2>2. CASE Pause
    BY <2>2 DEF Pause, PageInv, PageTyped, Page, CameraCounted, Camera
  <2>3. CASE Resume
    BY <2>3 DEF Resume, Restarts, PageInv, PageTyped, Page, CameraCounted, Camera
  <2>4. CASE CameraStarts
    BY <2>4 DEF CameraStarts, PageInv, PageTyped, Page, CameraCounted, Camera
  <2>5. CASE CameraFails
    BY <2>5 DEF CameraFails, PageInv, PageTyped, Page, CameraCounted, Camera
  <2> QED
    BY <2>1, <2>2, <2>3, <2>4, <2>5 DEF CameraStep
<1> QED
  BY <1>1, <1>2, <1>3, <1>4, InferenceStays DEF PageInv

LEMMA PageUnchanged ==
    ASSUME PageInv, UNCHANGED <<app, ui, engine, models, tick, camera>>
    PROVE  PageInv'
BY DEF PageInv, PageTyped, Page, Bounded, WaitsForModels, CameraCounted, EngineOwn, TickOwn,
       InferenceOfOneGoal

LEMMA SendersUnchanged ==
    ASSUME SenderInv, UNCHANGED <<senders, links, requests>>,
           ui'.generation = ui.generation, ui'.mounted = ui.mounted
    PROVE  SenderInv'
BY DEF SenderInv, SendersTyped, SlotIsNow, HandedIsOwn, OthersClosed, DownIsComing,
       AskedClosed, NewestRules, Current, Now

(***************************************************************************)
(* The theorems.                                                           *)
(***************************************************************************)

LEMMA InvInit == Init => IInv
<1> SUFFICES ASSUME Init
             PROVE  IInv
  OBVIOUS
<1>1. PageTyped /\ Bounded /\ WaitsForModels /\ CameraCounted
  BY ClientsAssumption
     DEF Init, EmptyEngine, NoCache, PageTyped, Page, Bounded, WaitsForModels, CameraCounted, Camera
<1>2. EngineOwn /\ TickOwn
  <2>1. <<>> \in Frames /\ Len(<<>>) = 0
    BY EmptySeq DEF Frames
  <2>2. engine = [ring |-> <<>>, cache |-> NoCache] /\ NoCache \in Cache
        /\ NoCache.features = None
    BY DEF Init, EmptyEngine, NoCache, Cache
  <2> QED
    BY <2>1, <2>2, PhoneEngineAssumption DEF Init, EngineOwn, TickOwn, InferenceOfOneGoal
<1>3. SenderInv
  <2>1. NewSender("log") \in Sender /\ NewSender("log").pending = None
        /\ NewSender("log").sending = None /\ ~NewSender("log").closed
    BY DEF NewSender, Sender
  <2>2. NoLink \in Link /\ ~NoLink.channel
    BY DEF NoLink, Link
  <2>3. /\ senders = <<NewSender("log")>> /\ links = <<NoLink>> /\ requests = <<>>
    BY DEF Init
  <2>4. senders \in Seq(Sender) /\ Len(senders) = 1 /\ senders[1] = NewSender("log")
    BY <2>1, <2>3
  <2>5. links \in Seq(Link) /\ Len(links) = 1 /\ links[1] = NoLink
    BY <2>2, <2>3
  <2>6. requests \in Seq(Asked) /\ Len(requests) = 0
    BY <2>3, EmptySeq
  <2> QED
    BY <2>1, <2>2, <2>4, <2>5, <2>6
       DEF SenderInv, SendersTyped, SlotIsNow, HandedIsOwn, OthersClosed, DownIsComing,
           AskedClosed, NewestRules, Current
<1> QED
  BY <1>1, <1>2, <1>3 DEF IInv, PageInv

LEMMA InvStep == IInv /\ [Next]_vars => IInv'
<1> SUFFICES ASSUME PageInv, SenderInv, [Next]_vars
             PROVE  PageInv' /\ SenderInv'
  BY DEF IInv
<1>1. CASE PhoneLoads \/ PageLoads
  BY <1>1, LoadingKeeps, SendersUnchanged DEF PhoneLoads, PageLoads
<1>2. CASE PhoneTick \/ BrowserTick
  BY <1>2, BeginningKeeps, SendersUnchanged DEF PhoneTick, BrowserTick
<1>3. CASE TextEncoded
  BY <1>3, EncodingKeeps, SendersUnchanged DEF TextEncoded
<1>4. CASE Inferred
  BY <1>4, EndingKeeps, InferredKeeps DEF Inferred
<1>5. CASE InferenceFails
  BY <1>5, EndingKeeps, SendersUnchanged DEF InferenceFails
<1>6. ASSUME NEW goal \in Goals, SetGoal(goal)
      PROVE  PageInv' /\ SenderInv'
  <2>1. ui'.mounted = ui.mounted
    BY <1>6 DEF SetGoal, Renewed, PageInv, PageTyped, Page
  <2> QED
    BY <1>6, <2>1, GoalKeeps, SlotCleared DEF SetGoal
<1>7. CASE Toggle
  <2>1. ui'.mounted = ui.mounted /\ (~ui.running => ui'.generation = ui.generation)
    BY <1>7 DEF Toggle, Renewed, PageInv, PageTyped, Page
  <2> QED
    BY <1>7, <2>1, OperatorKeeps, SlotCleared, SendersUnchanged DEF Toggle
<1>8. ASSUME NEW kind \in {"connect", "disconnect"}, Request(kind)
      PROVE  PageInv' /\ SenderInv'
  <2>1. ui.mounted /\ ui'.mounted
    BY <1>8 DEF Request, Renewed, PageInv, PageTyped, Page
  <2>2. SenderInv'
    BY <1>8, <2>1, AskingCloses DEF Request
  <2> QED
    BY <1>8, <2>2, OperatorKeeps DEF Connect, Disconnect
<1>9. CASE Leave
  <2>1. ui.mounted /\ ~ui'.mounted
    BY <1>9 DEF Leave, Renewed, PageInv, PageTyped, Page
  <2>2. SenderInv'
    BY <1>9, <2>1, AskingCloses DEF Leave
  <2> QED
    BY <1>9, <2>2, LeaveKeeps
<1>10. CASE NetworkStep
  BY <1>10, NetworkStepKeeps, PageUnchanged DEF NetworkStep, Established, Lost, Reopen
<1>11. CASE CameraStep
  <2>1. CASE Pause
    <3>1. ui'.mounted = ui.mounted
      BY <2>1 DEF Pause, Renewed, PageInv, PageTyped, Page
    <3> QED
      BY <1>11, <2>1, <3>1, CameraKeeps, SlotCleared DEF Pause
  <2>2. CASE ~Pause
    BY <1>11, <2>2, CameraKeeps, SendersUnchanged
       DEF CameraStep, FrameArrives, Resume, CameraStarts, CameraFails
  <2> QED
    BY <2>1, <2>2
<1>12. ASSUME NEW i \in DOMAIN senders, SenderStep(i)
       PROVE  PageInv' /\ SenderInv'
  <2>1. i \in 1 .. Len(senders) /\ ui.generation \in Nat
    BY Elements DEF SenderInv, PageInv, PageTyped, Page
  <2>2. UNCHANGED <<app, ui, engine, models, tick, camera>>
    BY <1>12 DEF SenderStep, Paced, Sent, DrainOver
  <2> QED
    BY <1>12, <2>1, <2>2, LoopKeeps, PageUnchanged
<1>13. ASSUME NEW n \in DOMAIN requests, RequestStep(n) \/ StreamHeard(n)
       PROVE  PageInv' /\ SenderInv'
  <2>1. n \in 1 .. Len(requests)
    BY Elements DEF SenderInv
  <2>2. UNCHANGED <<app, ui, engine, models, tick, camera>>
    BY <1>13 DEF RequestStep, BeginLinkClose, StreamEnded, StreamHeard, ChannelDown, Replace,
                 Connected
  <2> QED
    BY <1>13, <2>1, <2>2, RequestKeeps, PageUnchanged
<1>14. CASE UNCHANGED vars
  BY <1>14, PageUnchanged, SendersUnchanged DEF vars
<1> QED
  BY <1>1, <1>2, <1>3, <1>4, <1>5, <1>6, <1>7, <1>8, <1>9, <1>10, <1>11, <1>12, <1>13, <1>14
     DEF Next, InferenceStep, OperatorStep, Connect, Disconnect

LEMMA ClientsInvariant == Spec => []IInv
BY InvInit, InvStep, PTL DEF Spec

\* What is handed to a connection was inferred in the generation of that moment and goes under
\* the name of its own goal.  (_restart, clearPending, the checks after runInference)
THEOREM HandedIsFresh == Spec => []NothingStaleIsHanded
<1>1. IInv => NothingStaleIsHanded
  <2> SUFFICES ASSUME SenderInv
               PROVE  NothingStaleIsHanded
    BY DEF IInv
  <2> QED
    BY Elements DEF SenderInv, HandedIsOwn, NothingStaleIsHanded
<1> QED
  BY <1>1, ClientsInvariant, PTL

\* One open connection, the one of the newest request; inferences of one goal; cameras that
\* somebody holds.  (connect, disconnect, infer, _startCamera)
THEOREM ClientsAreConsistent == Spec => []ClientsInv
<1>1. IInv => ClientsInv
  <2> SUFFICES ASSUME PageInv, SenderInv
               PROVE  ClientsInv
    BY DEF IInv
  <2>1. SendersTyped
    BY DEF SenderInv
  <2>2. ClientsType
    <3>1. ui.goal \in Goals \cup {None} /\ ui.generation \in 0 .. MaxGeneration + 1
      BY ClientsAssumption DEF PageInv, PageTyped, Page, Bounded
    <3>2. tick = None \/ tick.features \in Features
      BY DEF PageInv, TickOwn, Job
    <3>3. Len(engine.ring) <= HistoryLen
      BY DEF PageInv, EngineOwn
    <3>4. ASSUME NEW i \in 1 .. Len(senders)
          PROVE  /\ senders[i].pending \in Chunks \cup {None}
                 /\ senders[i].phase \in {"idle", "pacing", "sending", "ended"}
      BY <2>1, Elements DEF Sender
    <3>5. ASSUME NEW n \in 1 .. Len(requests)
          PROVE  requests[n].at \in Places
      BY <2>1, Elements DEF Asked
    <3> QED
      BY <2>1, <3>1, <3>2, <3>3, <3>4, <3>5, Elements DEF ClientsType, SendersTyped, Features
  <2>3. OneOpenConnection
    BY <2>1, Elements DEF SenderInv, OthersClosed, DownIsComing, OneOpenConnection, Closing
  <2>4. NewestRequestStands
    BY DEF SenderInv, NewestRules, NewestRequestStands
  <2>5. InferenceOfOneGoal /\ CamerasAreHeld
    BY DEF PageInv, TickOwn, PageTyped, Page, Camera, CameraCounted, CamerasAreHeld
  <2> QED
    BY <2>2, <2>3, <2>4, <2>5 DEF ClientsInv
<1> QED
  BY <1>1, ClientsInvariant, PTL

(***************************************************************************)
(* The logger: its inductive invariant.                                    *)
(***************************************************************************)

Kept == [numbered : Nat, rows : Nat, mixed : BOOLEAN, epoch : Nat, closed : BOOLEAN,
         meta : Nat \cup {Null}, open : BOOLEAN, noted : Nat, lost : Nat]
StopPlaces == {"camera", "sensors", "audio", "meta", "sinks"}

\* Whoever is named as the one to write has been made by a start.
RecorderTyped ==
    /\ sessions \in Seq(Kept)
    /\ epoch \in Nat /\ starts \in Nat
    /\ Len(sessions) + starts <= epoch /\ epoch <= MaxSessions
    /\ writer \in Numbers \cup {Null}
    /\ video \in [writer : Numbers \cup {Null}, sub : Numbers \cup {Null},
                  alive : SUBSET Numbers]
    /\ sensors \in [field : Numbers \cup {Null}, alive : SUBSET Numbers]
    /\ audio = [field |-> audio.field, clips |-> audio.clips]
    /\ audio.field \in Numbers \cup {Null}
    /\ stops \subseteq [of : Numbers, at : StopPlaces]
    /\ \A talk \in talks : talk.of # Null
    /\ tangled \in BOOLEAN

Unsaved(n) == {frame \in frames : frame.of = n}

\* Every frame still to be saved has a number of its own, of those given out.
FramesOwn ==
    /\ frames \subseteq [of : Numbers, number : Nat, stamp : Nat]
    /\ \A frame \in frames : frame.number < sessions[frame.of].numbered
    /\ \A n \in Numbers : IsFiniteSet(Unsaved(n))

SessionCounted(n) ==
    /\ sessions[n].numbered <= MaxFrames
    /\ sessions[n].rows + Cardinality(Unsaved(n)) <= sessions[n].numbered

\* From the moment the camera has stopped nothing of the session is numbered any more.
CountIsFinal ==
    /\ \A stop \in stops : stop.at # "camera" => video.writer # stop.of
    /\ \A n \in Numbers :
          sessions[n].closed => video.writer # n /\ sessions[n].meta = sessions[n].numbered

(* As long as no start is pressed beside another start or a stop, one of     *)
(* four things is going on.                                                  *)

Opening == starts > 0 => starts = 1 /\ writer = Null /\ stops = {}

Resting ==
    writer = Null /\ stops = {} =>
        /\ video.writer = Null /\ video.alive = {}
        /\ sensors.alive = {} /\ audio.field = Null

OfNow(n) == sessions[n].open /\ sessions[n].epoch = epoch

Recording ==
    writer # Null =>
        /\ stops = {} /\ OfNow(writer) /\ ~sessions[writer].closed
        /\ video = [writer |-> writer, sub |-> writer, alive |-> {writer}]
        /\ sensors = [field |-> writer, alive |-> {writer}]
        /\ audio.field = writer

\* What a stop has left standing of its session n when it is at a place.
Left(n, at) ==
    /\ OfNow(n) /\ (sessions[n].closed <=> at = "sinks")
    /\ video.alive = {} /\ video.writer = IF at = "camera" THEN n ELSE Null
    /\ sensors.alive = IF at \in {"camera", "sensors"} THEN {n} ELSE {}
    /\ sensors.field = IF at \in {"camera", "sensors", "audio"} THEN n ELSE Null
    /\ audio.field = IF at \in {"camera", "sensors", "audio"} THEN n ELSE Null

StopsInOrder ==
    \A stop \in stops : writer = Null /\ stops = {stop} /\ Left(stop.of, stop.at)

ClipsOwn ==
    /\ \A clip \in audio.clips : clip.of = audio.field
    /\ audio.field = Null => audio.clips = {}

StampsOwn ==
    /\ \A frame \in frames : frame.stamp = sessions[frame.of].epoch
    /\ \A n \in Numbers : ~sessions[n].mixed

OneAtATime == Opening /\ Resting /\ Recording /\ StopsInOrder /\ ClipsOwn /\ StampsOwn

RecorderIInv ==
    /\ RecorderTyped
    /\ FramesOwn
    /\ \A n \in Numbers : SessionCounted(n)
    /\ CountIsFinal
    /\ tangled \/ OneAtATime

(***************************************************************************)
(* Lemmas.                                                                 *)
(***************************************************************************)

LEMMA RecorderState ==
    ASSUME RecorderTyped
    PROVE  /\ Numbers = 1 .. Len(sessions) /\ Len(sessions) \in Nat
           /\ Null \notin Numbers /\ Len(sessions) + 1 \notin Numbers
           /\ Numbers \subseteq 1 .. MaxSessions /\ MaxSessions \in Nat /\ MaxFrames \in Nat
           /\ \A n \in Numbers : sessions[n] \in Kept
<1>1. /\ sessions \in Seq(Kept) /\ epoch \in Nat /\ starts \in Nat
      /\ Len(sessions) + starts <= epoch /\ epoch <= MaxSessions
  BY DEF RecorderTyped
<1>2. Len(sessions) \in Nat /\ Numbers = 1 .. Len(sessions)
  BY <1>1, LenProperties DEF Numbers
<1>3. \A n \in 1 .. Len(sessions) : sessions[n] \in Kept
  BY <1>1, ElementOfSeq
<1>4. MaxSessions \in Nat /\ MaxFrames \in Nat /\ Null \notin Nat
  BY RecorderAssumption
<1> QED
  BY <1>1, <1>2, <1>3, <1>4

\* The session n gets another record; the others keep theirs.
LEMMA SessionBecomes ==
    ASSUME RecorderTyped, NEW n \in Numbers, NEW t \in Kept,
           sessions' = [sessions EXCEPT ![n] = t]
    PROVE  /\ sessions' \in Seq(Kept) /\ Len(sessions') = Len(sessions) /\ Numbers' = Numbers
           /\ sessions'[n] = t
           /\ \A k \in Numbers : k # n => sessions'[k] = sessions[k]
<1>1. sessions \in Seq(Kept) /\ n \in 1 .. Len(sessions) /\ Numbers = 1 .. Len(sessions)
  BY RecorderState DEF RecorderTyped
<1>2. sessions' \in Seq(Kept) /\ Len(sessions') = Len(sessions)
  BY <1>1, ExceptSeq
<1>3. Numbers' = Numbers
  BY <1>1, <1>2, LenProperties DEF Numbers
<1> QED
  BY <1>1, <1>2, <1>3

\* Nothing of what follows depends on what is not changed.
LEMMA UntouchedSessions ==
    ASSUME RecorderIInv, UNCHANGED <<sessions, frames>>
    PROVE  /\ FramesOwn' /\ \A n \in Numbers' : SessionCounted(n)'
           /\ Numbers' = Numbers
<1>1. Numbers' = Numbers
  BY DEF Numbers
<1>2. \A n : Unsaved(n)' = Unsaved(n)
  BY DEF Unsaved
<1>3. FramesOwn'
  BY <1>1, <1>2 DEF FramesOwn, RecorderIInv
<1>4. \A n \in Numbers' : SessionCounted(n)'
  BY <1>1, <1>2 DEF SessionCounted, RecorderIInv
<1> QED
  BY <1>1, <1>3, <1>4

(***************************************************************************)
(* Starting and stopping.                                                  *)
(***************************************************************************)

LEMMA StartSafe ==
    ASSUME RecorderIInv, Start
    PROVE  RecorderIInv'
<1>0. RecorderTyped /\ CountIsFinal /\ (tangled \/ OneAtATime)
  BY DEF RecorderIInv
<1>1. /\ writer = Null /\ epoch < MaxSessions /\ starts' = starts + 1 /\ epoch' = epoch + 1
      /\ tangled' = (tangled \/ starts > 0 \/ stops # {})
      /\ UNCHANGED <<writer, sessions, video, sensors, audio, stops, frames, talks>>
  BY DEF Start, IsRecording
<1>2. FramesOwn' /\ (\A n \in Numbers' : SessionCounted(n)') /\ Numbers' = Numbers
  BY <1>1, UntouchedSessions
<1>3. RecorderTyped'
  <2>1. epoch' \in Nat /\ starts' \in Nat /\ Len(sessions') + starts' <= epoch'
        /\ epoch' <= MaxSessions
    BY <1>0, <1>1, RecorderState, RecorderAssumption DEF RecorderTyped
  <2>2. tangled' \in BOOLEAN
    BY <1>1
  <2> QED
    BY <1>0, <1>1, <1>2, <2>1, <2>2 DEF RecorderTyped
<1>4. CountIsFinal'
  BY <1>0, <1>1, <1>2 DEF CountIsFinal
<1>5. ASSUME ~tangled'
      PROVE  OneAtATime'
  <2>1. ~tangled /\ ~(starts > 0) /\ stops = {}
    BY <1>1, <1>5
  <2>2. starts' = 1
    BY <1>0, <1>1, <2>1 DEF RecorderTyped
  <2>3. OneAtATime
    BY <1>0, <2>1
  <2>4. Opening' /\ Resting'
    BY <1>1, <2>1, <2>2, <2>3 DEF Opening, Resting, OneAtATime
  <2>5. Recording' /\ StopsInOrder'
    BY <1>1, <2>1 DEF Recording, StopsInOrder
  <2>6. ClipsOwn'
    BY <1>1, <2>3 DEF ClipsOwn, OneAtATime
  <2>7. StampsOwn'
    BY <1>1, <1>2, <2>3 DEF StampsOwn, OneAtATime
  <2> QED
    BY <2>4, <2>5, <2>6, <2>7 DEF OneAtATime
<1> QED
  BY <1>2, <1>3, <1>4, <1>5 DEF RecorderIInv

LEMMA StartFailsSafe ==
    ASSUME RecorderIInv, StartFails
    PROVE  RecorderIInv'
<1>0. RecorderTyped /\ CountIsFinal /\ (tangled \/ OneAtATime)
  BY DEF RecorderIInv
<1>1. /\ starts > 0 /\ starts' = starts - 1
      /\ UNCHANGED <<writer, sessions, epoch, video, sensors, audio, stops, frames, talks, tangled>>
  BY DEF StartFails
<1>2. FramesOwn' /\ (\A n \in Numbers' : SessionCounted(n)') /\ Numbers' = Numbers
  BY <1>1, UntouchedSessions
<1>3. RecorderTyped'
  <2>1. starts' \in Nat /\ Len(sessions') + starts' <= epoch'
    BY <1>0, <1>1, RecorderState DEF RecorderTyped
  <2> QED
    BY <1>0, <1>1, <1>2, <2>1 DEF RecorderTyped
<1>4. CountIsFinal'
  BY <1>0, <1>1, <1>2 DEF CountIsFinal
<1>5. ASSUME ~tangled'
      PROVE  OneAtATime'
  <2>1. OneAtATime /\ starts \in Nat
    BY <1>0, <1>1, <1>5 DEF RecorderTyped
  <2>2. Opening' /\ Resting'
    BY <1>1, <2>1 DEF Opening, Resting, OneAtATime
  <2>3. Recording' /\ StopsInOrder'
    BY <1>1, <2>1 DEF Recording, StopsInOrder, OneAtATime, OfNow, Left
  <2>4. ClipsOwn' /\ StampsOwn'
    BY <1>1, <1>2, <2>1 DEF ClipsOwn, StampsOwn, OneAtATime
  <2> QED
    BY <2>2, <2>3, <2>4 DEF OneAtATime
<1> QED
  BY <1>2, <1>3, <1>4, <1>5 DEF RecorderIInv

LEMMA StartedSafe ==
    ASSUME RecorderIInv, Started
    PROVE  RecorderIInv'
<1>0. RecorderTyped /\ FramesOwn /\ CountIsFinal /\ (tangled \/ OneAtATime)
  BY DEF RecorderIInv
<1>n. PICK n \in Nat : n = Len(sessions) + 1
  BY <1>0, RecorderState
<1>1. /\ starts > 0 /\ starts' = starts - 1
      /\ sessions' = Append(sessions, NewSession) /\ writer' = n
      /\ video' = [writer |-> n, sub |-> n, alive |-> video.alive \cup {n}]
      /\ sensors' = [field |-> n, alive |-> sensors.alive \cup {n}]
      /\ audio' = [audio EXCEPT !.field = n]
      /\ UNCHANGED <<epoch, stops, frames, talks, tangled>>
  BY <1>n DEF Started
<1>2. /\ sessions \in Seq(Kept) /\ NewSession \in Kept /\ n \notin Numbers
      /\ epoch \in Nat /\ n # Null
  <2>1. sessions \in Seq(Kept) /\ epoch \in Nat
    BY <1>0 DEF RecorderTyped
  <2>2. NewSession \in Kept
    BY <2>1 DEF NewSession, Kept
  <2> QED
    BY <1>0, <1>n, <2>1, <2>2, RecorderState, RecorderAssumption
<1>3. /\ sessions' \in Seq(Kept) /\ Len(sessions') = n /\ sessions'[n] = NewSession
      /\ \A k \in 1 .. Len(sessions) : sessions'[k] = sessions[k]
  BY <1>1, <1>2, <1>n, AppendProperties
<1>4. /\ Numbers = 1 .. Len(sessions) /\ Len(sessions) \in Nat
      /\ Numbers' = Numbers \cup {n} /\ \A k \in Numbers : sessions'[k] = sessions[k]
  <2>1. Numbers = 1 .. Len(sessions) /\ Len(sessions) \in Nat
    BY <1>0, RecorderState
  <2>2. Numbers' = 1 .. n
    BY <1>3, LenProperties DEF Numbers
  <2> QED
    BY <1>3, <1>n, <2>1, <2>2
<1>5. /\ sessions'[n].numbered = 0 /\ sessions'[n].rows = 0 /\ ~sessions'[n].mixed
      /\ sessions'[n].epoch = epoch /\ sessions'[n].open /\ ~sessions'[n].closed
  BY <1>3 DEF NewSession
<1>6. RecorderTyped'
  <2>1. starts' \in Nat /\ Len(sessions') + starts' <= epoch' /\ epoch' \in Nat
        /\ epoch' <= MaxSessions
    BY <1>0, <1>1, <1>3, <1>4, <1>n DEF RecorderTyped
  <2>2. /\ video' \in [writer : Numbers' \cup {Null}, sub : Numbers' \cup {Null},
                       alive : SUBSET Numbers']
        /\ sensors' \in [field : Numbers' \cup {Null}, alive : SUBSET Numbers']
    BY <1>0, <1>1, <1>4 DEF RecorderTyped
  <2>3. audio' = [field |-> audio'.field, clips |-> audio'.clips] /\ audio'.field = n
    BY <1>0, <1>1 DEF RecorderTyped
  <2>4. stops' \subseteq [of : Numbers', at : StopPlaces]
    BY <1>0, <1>1, <1>4 DEF RecorderTyped
  <2> QED
    BY <1>0, <1>1, <1>3, <1>4, <2>1, <2>2, <2>3, <2>4 DEF RecorderTyped
<1>7. \A k : Unsaved(k)' = Unsaved(k)
  BY <1>1 DEF Unsaved
<1>8. Unsaved(n) = {}
  BY <1>0, <1>2 DEF Unsaved, FramesOwn
<1>9. FramesOwn'
  <2>1. frames' \subseteq [of : Numbers', number : Nat, stamp : Nat]
    BY <1>0, <1>1, <1>4 DEF FramesOwn
  <2>2. \A frame \in frames' : frame.number < sessions'[frame.of].numbered
    <3> SUFFICES ASSUME NEW frame \in frames
                 PROVE  frame.number < sessions'[frame.of].numbered
      BY <1>1
    <3>1. frame.of \in Numbers /\ frame.number < sessions[frame.of].numbered
      BY <1>0 DEF FramesOwn
    <3> QED
      BY <3>1, <1>4
  <2>3. \A k \in Numbers' : IsFiniteSet(Unsaved(k)')
    BY <1>0, <1>4, <1>7, <1>8, FS_EmptySet DEF FramesOwn
  <2> QED
    BY <2>1, <2>2, <2>3 DEF FramesOwn
<1>10. \A k \in Numbers' : SessionCounted(k)'
  <2>1. \A k \in Numbers : SessionCounted(k)'
    BY <1>4, <1>7 DEF SessionCounted, RecorderIInv
  <2>2. SessionCounted(n)'
    <3>1. Cardinality(Unsaved(n)') = 0
      BY <1>7, <1>8, FS_EmptySet
    <3>2. MaxFrames \in Nat
      BY RecorderAssumption
    <3> QED
      BY <1>5, <3>1, <3>2 DEF SessionCounted
  <2> QED
    BY <1>4, <2>1, <2>2
<1>11. CountIsFinal'
  <2>1. \A stop \in stops' : video'.writer # stop.of
    BY <1>0, <1>1, <1>2 DEF RecorderTyped
  <2>2. \A k \in Numbers' : sessions'[k].closed =>
            video'.writer # k /\ sessions'[k].meta = sessions'[k].numbered
    BY <1>0, <1>1, <1>2, <1>4, <1>5 DEF CountIsFinal
  <2> QED
    BY <2>1, <2>2 DEF CountIsFinal
<1>12. ASSUME ~tangled'
       PROVE  OneAtATime'
  <2>1. OneAtATime
    BY <1>0, <1>1, <1>12
  <2>2. /\ starts = 1 /\ writer = Null /\ stops = {} /\ video.alive = {} /\ sensors.alive = {}
        /\ audio.field = Null /\ audio.clips = {}
    BY <1>1, <2>1 DEF OneAtATime, Opening, Resting, ClipsOwn
  <2>3. Opening' /\ Resting'
    BY <1>1, <1>2, <2>2 DEF Opening, Resting
  <2>4. audio'.field = n /\ audio'.clips = {}
    BY <1>0, <1>1, <2>2 DEF RecorderTyped
  <2>5. OfNow(n)'
    BY <1>1, <1>5 DEF OfNow
  <2>6. Recording'
    BY <1>1, <1>5, <2>2, <2>4, <2>5 DEF Recording, OfNow
  <2>7. StopsInOrder' /\ ClipsOwn'
    BY <1>1, <2>2, <2>4 DEF StopsInOrder, ClipsOwn
  <2>8. StampsOwn'
    <3>1. \A frame \in frames' : frame.stamp = sessions'[frame.of].epoch
      BY <1>0, <1>1, <1>4, <2>1 DEF FramesOwn, StampsOwn, OneAtATime
    <3>2. \A k \in Numbers' : ~sessions'[k].mixed
      BY <1>4, <1>5, <2>1 DEF StampsOwn, OneAtATime
    <3> QED
      BY <3>1, <3>2 DEF StampsOwn
  <2> QED
    BY <2>3, <2>6, <2>7, <2>8 DEF OneAtATime
<1> QED
  BY <1>1, <1>6, <1>9, <1>10, <1>11, <1>12 DEF RecorderIInv

LEMMA StopSafe ==
    ASSUME RecorderIInv, Stop
    PROVE  RecorderIInv'
<1>0. RecorderTyped /\ CountIsFinal /\ (tangled \/ OneAtATime)
  BY DEF RecorderIInv
<1>n. PICK new : new = [of |-> writer, at |-> "camera"]
  OBVIOUS
<1>1. /\ writer # Null /\ writer' = Null /\ stops' = stops \cup {new}
      /\ video' = [video EXCEPT !.alive = video.alive \ {video.sub}]
      /\ UNCHANGED <<sessions, epoch, sensors, audio, starts, frames, talks, tangled>>
  BY <1>n DEF Stop, IsRecording
<1>2. FramesOwn' /\ (\A n \in Numbers' : SessionCounted(n)') /\ Numbers' = Numbers
  BY <1>1, UntouchedSessions
<1>3. writer \in Numbers /\ new \in [of : Numbers, at : StopPlaces]
  BY <1>0, <1>1, <1>n DEF RecorderTyped, StopPlaces
<1>4. /\ video'.writer = video.writer /\ video'.alive = video.alive \ {video.sub}
      /\ video' \in [writer : Numbers \cup {Null}, sub : Numbers \cup {Null},
                     alive : SUBSET Numbers]
  BY <1>0, <1>1 DEF RecorderTyped
<1>5. RecorderTyped'
  BY <1>0, <1>1, <1>2, <1>3, <1>4 DEF RecorderTyped
<1>6. CountIsFinal'
  BY <1>0, <1>1, <1>2, <1>4, <1>n DEF CountIsFinal
<1>7. ASSUME ~tangled'
      PROVE  OneAtATime'
  <2>1. OneAtATime
    BY <1>0, <1>1, <1>7
  <2>2. /\ stops = {} /\ OfNow(writer) /\ ~sessions[writer].closed
        /\ video = [writer |-> writer, sub |-> writer, alive |-> {writer}]
        /\ sensors = [field |-> writer, alive |-> {writer}]
        /\ audio.field = writer
    BY <1>1, <2>1 DEF Recording, OneAtATime
  <2>3. Opening' /\ Resting' /\ Recording'
    BY <1>0, <1>1, <2>1, <2>2 DEF Opening, Resting, Recording, OneAtATime
  <2>4. PICK w : w = writer
    OBVIOUS
  <2>5. StopsInOrder'
    <3>1. Left(w, "camera")'
      BY <1>1, <1>4, <2>2, <2>4 DEF Left, OfNow
    <3>2. stops' = {new} /\ new.of = w /\ new.at = "camera"
      BY <1>1, <1>n, <2>2, <2>4
    <3>3. \A stop \in stops' : stop.of = w /\ stop.at = "camera" /\ stops' = {stop}
      BY <3>2
    <3>4. \A stop \in stops' : Left(stop.of, stop.at)'
      BY <3>1, <3>3
    <3> QED
      BY <1>1, <3>3, <3>4 DEF StopsInOrder
  <2>6. ClipsOwn' /\ StampsOwn'
    BY <1>1, <1>2, <2>1 DEF ClipsOwn, StampsOwn, OneAtATime
  <2> QED
    BY <2>3, <2>5, <2>6 DEF OneAtATime
<1> QED
  BY <1>1, <1>2, <1>5, <1>6, <1>7 DEF RecorderIInv

\* A stop goes on to its next place.
LEMMA StopGoes ==
    ASSUME RecorderTyped, NEW stop \in stops, NEW place \in StopPlaces, Goes(stop, place)
    PROVE  \E next \in [of : Numbers, at : StopPlaces] :
               /\ next.of = stop.of /\ next.at = place
               /\ stops' = (stops \ {stop}) \cup {next}
<1>1. stop \in [of : Numbers, at : StopPlaces]
  BY DEF RecorderTyped
<1> QED
  BY <1>1 DEF Goes

\* Where nothing else goes on, the stop is alone also afterwards.
LEMMA StopStaysAlone ==
    ASSUME OneAtATime, NEW stop \in stops, NEW next,
           stops' = (stops \ {stop}) \cup {next}, UNCHANGED <<writer, starts>>,
           Left(next.of, next.at)', ClipsOwn', StampsOwn'
    PROVE  OneAtATime'
<1>1. writer = Null /\ stops = {stop} /\ stops' = {next}
  BY DEF OneAtATime, StopsInOrder
<1>2. Opening' /\ Resting' /\ Recording'
  BY <1>1 DEF OneAtATime, Opening, Resting, Recording
<1>3. StopsInOrder'
  BY <1>1 DEF StopsInOrder
<1> QED
  BY <1>2, <1>3 DEF OneAtATime

LEMMA CameraStoppedSafe ==
    ASSUME RecorderIInv, NEW stop \in stops, CameraStopped(stop)
    PROVE  RecorderIInv'
<1>0. RecorderTyped /\ CountIsFinal /\ (tangled \/ OneAtATime)
  BY DEF RecorderIInv
<1>1. /\ stop.at = "camera" /\ Goes(stop, "sensors")
      /\ video' = [video EXCEPT !.sub = Null, !.writer = Null]
      /\ UNCHANGED <<writer, sessions, epoch, sensors, audio, starts, frames, talks, tangled>>
  BY DEF CameraStopped
<1>2. FramesOwn' /\ (\A n \in Numbers' : SessionCounted(n)') /\ Numbers' = Numbers
  BY <1>1, UntouchedSessions
<1>3. PICK next \in [of : Numbers, at : StopPlaces] :
          /\ next.of = stop.of /\ next.at = "sensors"
          /\ stops' = (stops \ {stop}) \cup {next}
  BY <1>0, <1>1, StopGoes DEF StopPlaces
<1>4. /\ video'.writer = Null /\ video'.alive = video.alive
      /\ video' \in [writer : Numbers \cup {Null}, sub : Numbers \cup {Null},
                     alive : SUBSET Numbers]
  BY <1>0, <1>1 DEF RecorderTyped
<1>5. RecorderTyped'
  BY <1>0, <1>1, <1>2, <1>3, <1>4 DEF RecorderTyped
<1>6. CountIsFinal'
  BY <1>0, <1>1, <1>2, <1>4, <1>5, RecorderState DEF CountIsFinal, RecorderTyped
<1>7. ASSUME ~tangled'
      PROVE  OneAtATime'
  <2>1. OneAtATime
    BY <1>0, <1>1, <1>7
  <2>2. Left(stop.of, "camera")
    BY <1>1, <2>1 DEF OneAtATime, StopsInOrder
  <2>3. Left(next.of, next.at)'
    BY <1>1, <1>3, <1>4, <2>2 DEF Left, OfNow
  <2>4. ClipsOwn' /\ StampsOwn'
    BY <1>1, <1>2, <2>1 DEF ClipsOwn, StampsOwn, OneAtATime
  <2> QED
    BY <1>1, <1>3, <2>1, <2>3, <2>4, StopStaysAlone
<1> QED
  BY <1>1, <1>2, <1>5, <1>6, <1>7 DEF RecorderIInv

LEMMA SensorsStoppedSafe ==
    ASSUME RecorderIInv, NEW stop \in stops, SensorsStopped(stop)
    PROVE  RecorderIInv'
<1>0. RecorderTyped /\ CountIsFinal /\ (tangled \/ OneAtATime)
  BY DEF RecorderIInv
<1>1. /\ stop.at = "sensors" /\ Goes(stop, "audio")
      /\ sensors' = [sensors EXCEPT !.alive = sensors.alive \ {sensors.field}]
      /\ UNCHANGED <<writer, sessions, epoch, video, audio, starts, frames, talks, tangled>>
  BY DEF SensorsStopped
<1>2. FramesOwn' /\ (\A n \in Numbers' : SessionCounted(n)') /\ Numbers' = Numbers
  BY <1>1, UntouchedSessions
<1>3. PICK next \in [of : Numbers, at : StopPlaces] :
          /\ next.of = stop.of /\ next.at = "audio"
          /\ stops' = (stops \ {stop}) \cup {next}
  BY <1>0, <1>1, StopGoes DEF StopPlaces
<1>4. /\ sensors'.field = sensors.field /\ sensors'.alive = sensors.alive \ {sensors.field}
      /\ sensors' \in [field : Numbers \cup {Null}, alive : SUBSET Numbers]
  BY <1>0, <1>1 DEF RecorderTyped
<1>5. RecorderTyped'
  BY <1>0, <1>1, <1>2, <1>3, <1>4 DEF RecorderTyped
<1>6. CountIsFinal'
  BY <1>0, <1>1, <1>2, <1>3 DEF CountIsFinal
<1>7. ASSUME ~tangled'
      PROVE  OneAtATime'
  <2>1. OneAtATime
    BY <1>0, <1>1, <1>7
  <2>2. Left(stop.of, "sensors")
    BY <1>1, <2>1 DEF OneAtATime, StopsInOrder
  <2>3. Left(next.of, next.at)'
    BY <1>1, <1>3, <1>4, <2>2 DEF Left, OfNow
  <2>4. ClipsOwn' /\ StampsOwn'
    BY <1>1, <1>2, <2>1 DEF ClipsOwn, StampsOwn, OneAtATime
  <2> QED
    BY <1>1, <1>3, <2>1, <2>3, <2>4, StopStaysAlone
<1> QED
  BY <1>1, <1>2, <1>5, <1>6, <1>7 DEF RecorderIInv

LEMMA AudioStoppedSafe ==
    ASSUME RecorderIInv, NEW stop \in stops, AudioStopped(stop)
    PROVE  RecorderIInv'
<1>0. RecorderTyped /\ CountIsFinal /\ (tangled \/ OneAtATime)
  BY DEF RecorderIInv
<1>1. /\ stop.at = "audio" /\ Goes(stop, "meta")
      /\ sensors' = [sensors EXCEPT !.field = Null]
      /\ audio' = [field |-> Null, clips |-> {c \in audio.clips : c.of # audio.field}]
      /\ UNCHANGED <<writer, sessions, epoch, video, starts, frames, talks, tangled>>
  BY DEF AudioStopped
<1>2. FramesOwn' /\ (\A n \in Numbers' : SessionCounted(n)') /\ Numbers' = Numbers
  BY <1>1, UntouchedSessions
<1>3. PICK next \in [of : Numbers, at : StopPlaces] :
          /\ next.of = stop.of /\ next.at = "meta"
          /\ stops' = (stops \ {stop}) \cup {next}
  BY <1>0, <1>1, StopGoes DEF StopPlaces
<1>4. /\ sensors'.field = Null /\ sensors'.alive = sensors.alive
      /\ sensors' \in [field : Numbers \cup {Null}, alive : SUBSET Numbers]
      /\ audio' = [field |-> audio'.field, clips |-> audio'.clips] /\ audio'.field = Null
  BY <1>0, <1>1 DEF RecorderTyped
<1>5. RecorderTyped'
  BY <1>0, <1>1, <1>2, <1>3, <1>4 DEF RecorderTyped
<1>6. CountIsFinal'
  BY <1>0, <1>1, <1>2, <1>3 DEF CountIsFinal
<1>7. ASSUME ~tangled'
      PROVE  OneAtATime'
  <2>1. OneAtATime
    BY <1>0, <1>1, <1>7
  <2>2. Left(stop.of, "audio")
    BY <1>1, <2>1 DEF OneAtATime, StopsInOrder
  <2>3. Left(next.of, next.at)'
    BY <1>1, <1>3, <1>4, <2>2 DEF Left, OfNow
  <2>4. ClipsOwn'
    BY <1>1, <2>1 DEF ClipsOwn, OneAtATime
  <2>5. StampsOwn'
    BY <1>1, <1>2, <2>1 DEF StampsOwn, OneAtATime
  <2> QED
    BY <1>1, <1>3, <2>1, <2>3, <2>4, <2>5, StopStaysAlone
<1> QED
  BY <1>1, <1>2, <1>5, <1>6, <1>7 DEF RecorderIInv

\* A session gets another record that has the same numbers and as many rows.
LEMMA CountsStay ==
    ASSUME RecorderIInv, NEW n \in Numbers, NEW t \in Kept, frames' = frames,
           sessions' = [sessions EXCEPT ![n] = t],
           t.numbered = sessions[n].numbered, t.rows = sessions[n].rows
    PROVE  FramesOwn' /\ (\A k \in Numbers' : SessionCounted(k)')
<1>0. RecorderTyped /\ FramesOwn /\ \A k \in Numbers : SessionCounted(k)
  BY DEF RecorderIInv
<1>1. /\ Numbers' = Numbers /\ sessions'[n] = t
      /\ \A k \in Numbers : k # n => sessions'[k] = sessions[k]
  BY <1>0, SessionBecomes
<1>2. \A k \in Numbers : sessions'[k].numbered = sessions[k].numbered
                         /\ sessions'[k].rows = sessions[k].rows
  BY <1>1
<1>3. \A k : Unsaved(k)' = Unsaved(k)
  BY DEF Unsaved
<1>4. FramesOwn'
  <2>1. \A frame \in frames' : frame.number < sessions'[frame.of].numbered
    <3> SUFFICES ASSUME NEW frame \in frames
                 PROVE  frame.number < sessions'[frame.of].numbered
      OBVIOUS
    <3>1. frame.of \in Numbers /\ frame.number < sessions[frame.of].numbered
      BY <1>0 DEF FramesOwn
    <3> QED
      BY <3>1, <1>2
  <2> QED
    BY <1>0, <1>1, <1>3, <2>1 DEF FramesOwn
<1>5. \A k \in Numbers' : SessionCounted(k)'
  BY <1>0, <1>1, <1>2, <1>3 DEF SessionCounted
<1> QED
  BY <1>4, <1>5

LEMMA MetaWrittenSafe ==
    ASSUME RecorderIInv, NEW stop \in stops, MetaWritten(stop)
    PROVE  RecorderIInv'
<1>0. RecorderTyped /\ CountIsFinal /\ (tangled \/ OneAtATime)
  BY DEF RecorderIInv
<1>1. PICK n \in Numbers : n = stop.of
  BY <1>0 DEF RecorderTyped
<1>2. /\ stop.at = "meta"
      /\ UNCHANGED <<writer, epoch, video, sensors, audio, starts, frames, talks, tangled>>
  BY DEF MetaWritten
<1>3. sessions[n] \in Kept /\ epoch \in Nat /\ video.writer # n
  BY <1>0, <1>1, <1>2, RecorderState DEF RecorderTyped, CountIsFinal
<1>4. CASE sessions[n].closed
  <2>1. stops' = stops \ {stop} /\ UNCHANGED sessions
    BY <1>1, <1>4 DEF MetaWritten
  <2>2. FramesOwn' /\ (\A k \in Numbers' : SessionCounted(k)') /\ Numbers' = Numbers
    BY <1>2, <2>1, UntouchedSessions
  <2>3. RecorderTyped'
    BY <1>0, <1>2, <2>1, <2>2 DEF RecorderTyped
  <2>4. CountIsFinal'
    BY <1>0, <1>2, <2>1, <2>2 DEF CountIsFinal
  <2>5. tangled
    BY <1>0, <1>1, <1>2, <1>4 DEF OneAtATime, StopsInOrder, Left
  <2> QED
    BY <1>2, <2>2, <2>3, <2>4, <2>5 DEF RecorderIInv
<1>5. CASE ~sessions[n].closed
  <2>1. PICK t : t = [sessions[n] EXCEPT !.closed = TRUE, !.meta = sessions[n].numbered,
                                         !.mixed = sessions[n].mixed \/ epoch # sessions[n].epoch]
    OBVIOUS
  <2>2. Goes(stop, "sinks") /\ sessions' = [sessions EXCEPT ![n] = t]
    BY <1>0, <1>1, <1>5, <2>1, RecorderState DEF MetaWritten, Stamped, Numbers
  <2>3. /\ t \in Kept /\ t.numbered = sessions[n].numbered /\ t.rows = sessions[n].rows
        /\ t.closed /\ t.meta = sessions[n].numbered /\ t.open = sessions[n].open
        /\ t.epoch = sessions[n].epoch
    BY <1>3, <2>1 DEF Kept
  <2>4. t.mixed <=> sessions[n].mixed \/ epoch # sessions[n].epoch
    BY <1>3, <2>1 DEF Kept
  <2>5. /\ sessions' \in Seq(Kept) /\ Len(sessions') = Len(sessions) /\ Numbers' = Numbers
        /\ sessions'[n] = t
        /\ \A k \in Numbers : k # n => sessions'[k] = sessions[k]
    BY <1>0, <2>2, <2>3, SessionBecomes
  <2>6. FramesOwn' /\ (\A k \in Numbers' : SessionCounted(k)')
    BY <1>2, <2>2, <2>3, CountsStay
  <2>7. PICK next \in [of : Numbers, at : StopPlaces] :
            /\ next.of = n /\ next.at = "sinks"
            /\ stops' = (stops \ {stop}) \cup {next}
    BY <1>0, <1>1, <2>2, StopGoes DEF StopPlaces
  <2>8. RecorderTyped'
    BY <1>0, <1>2, <2>5, <2>7 DEF RecorderTyped
  <2>9. CountIsFinal'
    <3>1. \A s \in stops' : s.at # "camera" => video'.writer # s.of
      BY <1>0, <1>2, <1>3, <2>7 DEF CountIsFinal
    <3>2. \A k \in Numbers' : sessions'[k].closed =>
              video'.writer # k /\ sessions'[k].meta = sessions'[k].numbered
      BY <1>0, <1>2, <1>3, <2>3, <2>5 DEF CountIsFinal
    <3> QED
      BY <3>1, <3>2 DEF CountIsFinal
  <2>10. ASSUME ~tangled'
         PROVE  OneAtATime'
    <3>1. OneAtATime
      BY <1>0, <1>2, <2>10
    <3>2. Left(n, "meta")
      BY <1>1, <1>2, <3>1 DEF OneAtATime, StopsInOrder
    <3>3. Left(next.of, next.at)'
      BY <1>2, <2>3, <2>5, <2>7, <3>2 DEF Left, OfNow
    <3>4. ClipsOwn'
      BY <1>2, <3>1 DEF ClipsOwn, OneAtATime
    <3>5. StampsOwn'
      <4>1. \A frame \in frames' : frame.stamp = sessions'[frame.of].epoch
        BY <1>2, <2>3, <2>5, <3>1 DEF StampsOwn, OneAtATime, FramesOwn, RecorderIInv
      <4>2. \A k \in Numbers' : ~sessions'[k].mixed
        BY <2>4, <2>5, <3>1, <3>2 DEF StampsOwn, OneAtATime, Left, OfNow
      <4> QED
        BY <4>1, <4>2 DEF StampsOwn
    <3> QED
      BY <1>2, <2>7, <3>1, <3>3, <3>4, <3>5, StopStaysAlone
  <2> QED
    BY <1>2, <2>6, <2>8, <2>9, <2>10 DEF RecorderIInv
<1> QED
  BY <1>4, <1>5

LEMMA SinksClosedSafe ==
    ASSUME RecorderIInv, NEW stop \in stops, SinksClosed(stop)
    PROVE  RecorderIInv'
<1>0. RecorderTyped /\ CountIsFinal /\ (tangled \/ OneAtATime)
  BY DEF RecorderIInv
<1>1. PICK n \in Numbers : n = stop.of
  BY <1>0 DEF RecorderTyped
<1>2. /\ stop.at = "sinks" /\ stops' = stops \ {stop}
      /\ UNCHANGED <<writer, epoch, video, sensors, audio, starts, frames, talks, tangled>>
  BY DEF SinksClosed
<1>3. sessions[n] \in Kept
  BY <1>0, RecorderState
<1>4. PICK t : t = [sessions[n] EXCEPT !.open = FALSE]
  OBVIOUS
<1>5. sessions' = [sessions EXCEPT ![n] = t]
  BY <1>1, <1>4 DEF SinksClosed
<1>6. /\ t \in Kept /\ t.numbered = sessions[n].numbered /\ t.rows = sessions[n].rows
      /\ (t.closed <=> sessions[n].closed) /\ t.meta = sessions[n].meta
      /\ (t.mixed <=> sessions[n].mixed) /\ t.epoch = sessions[n].epoch
  BY <1>3, <1>4 DEF Kept
<1>7. /\ sessions' \in Seq(Kept) /\ Len(sessions') = Len(sessions) /\ Numbers' = Numbers
      /\ sessions'[n] = t
      /\ \A k \in Numbers : k # n => sessions'[k] = sessions[k]
  BY <1>0, <1>5, <1>6, SessionBecomes
<1>8. FramesOwn' /\ (\A k \in Numbers' : SessionCounted(k)')
  BY <1>2, <1>5, <1>6, CountsStay
<1>9. RecorderTyped'
  BY <1>0, <1>2, <1>7 DEF RecorderTyped
<1>10. CountIsFinal'
  BY <1>0, <1>2, <1>6, <1>7 DEF CountIsFinal
<1>11. ASSUME ~tangled'
       PROVE  OneAtATime'
  <2>1. OneAtATime
    BY <1>0, <1>2, <1>11
  <2>2. writer = Null /\ stops' = {} /\ Left(n, "sinks")
    BY <1>1, <1>2, <2>1 DEF OneAtATime, StopsInOrder
  <2>3. /\ video.alive = {} /\ video.writer = Null /\ sensors.alive = {} /\ audio.field = Null
    BY <2>2 DEF Left
  <2>4. Opening' /\ Resting' /\ Recording' /\ StopsInOrder'
    BY <1>2, <2>1, <2>2, <2>3 DEF Opening, Resting, Recording, StopsInOrder, OneAtATime
  <2>5. ClipsOwn'
    BY <1>2, <2>1 DEF ClipsOwn, OneAtATime
  <2>6. StampsOwn'
    <3>1. \A frame \in frames' : frame.stamp = sessions'[frame.of].epoch
      BY <1>2, <1>6, <1>7, <2>1 DEF StampsOwn, OneAtATime, FramesOwn, RecorderIInv
    <3>2. \A k \in Numbers' : ~sessions'[k].mixed
      BY <1>6, <1>7, <2>1 DEF StampsOwn, OneAtATime
    <3> QED
      BY <3>1, <3>2 DEF StampsOwn
  <2> QED
    BY <2>4, <2>5, <2>6 DEF OneAtATime
<1> QED
  BY <1>2, <1>8, <1>9, <1>10, <1>11 DEF RecorderIInv

LEMMA StopStepSafe ==
    ASSUME RecorderIInv, StopStep
    PROVE  RecorderIInv'
BY CameraStoppedSafe, SensorsStoppedSafe, AudioStoppedSafe, MetaWrittenSafe, SinksClosedSafe
   DEF StopStep

(***************************************************************************)
(* Frames, samples and voice notes.                                        *)
(***************************************************************************)

\* A session that keeps whether it is open and closed, and its epoch, and whose description and
\* count stay in step, disturbs nobody but itself.
LEMMA SessionGoesOn ==
    ASSUME RecorderIInv, NEW n \in Numbers, NEW t \in Kept,
           sessions' = [sessions EXCEPT ![n] = t],
           t.open = sessions[n].open, t.closed = sessions[n].closed,
           t.epoch = sessions[n].epoch,
           t.closed => video.writer # n /\ t.meta = t.numbered,
           UNCHANGED <<writer, epoch, video, sensors, starts, stops, tangled>>,
           audio' = [field |-> audio'.field, clips |-> audio'.clips],
           audio'.field = audio.field,
           \A talk \in talks' : talk.of # Null,
           ~tangled => /\ ~t.mixed /\ ClipsOwn'
                       /\ \A frame \in frames' : frame.stamp = sessions[frame.of].epoch,
           frames' \subseteq [of : Numbers, number : Nat, stamp : Nat]
    PROVE  RecorderTyped' /\ CountIsFinal' /\ (tangled' \/ OneAtATime')
<1>0. RecorderTyped /\ CountIsFinal /\ (tangled \/ OneAtATime)
  BY DEF RecorderIInv
<1>1. /\ sessions' \in Seq(Kept) /\ Len(sessions') = Len(sessions) /\ Numbers' = Numbers
      /\ sessions'[n] = t
      /\ \A k \in Numbers : k # n => sessions'[k] = sessions[k]
  BY <1>0, SessionBecomes
<1>2. RecorderTyped'
  BY <1>0, <1>1 DEF RecorderTyped
<1>3. CountIsFinal'
  BY <1>0, <1>1 DEF CountIsFinal
<1>4. ASSUME ~tangled
      PROVE  OneAtATime'
  <2>1. OneAtATime
    BY <1>0, <1>4
  <2>2. \A k \in Numbers : /\ OfNow(k)' = OfNow(k)
                           /\ sessions'[k].closed = sessions[k].closed
    BY <1>1 DEF OfNow
  <2>3. Opening' /\ Resting'
    BY <2>1 DEF OneAtATime, Opening, Resting
  <2>4. Recording'
    <3>1. writer # Null => writer \in Numbers
      BY <1>0 DEF RecorderTyped
    <3> QED
      BY <2>1, <2>2, <3>1 DEF OneAtATime, Recording, OfNow
  <2>5. StopsInOrder'
    <3>1. \A stop \in stops : stop.of \in Numbers
      BY <1>0 DEF RecorderTyped
    <3> QED
      BY <2>1, <2>2, <3>1 DEF OneAtATime, StopsInOrder, Left, OfNow
  <2>6. StampsOwn'
    BY <1>1, <1>4, <2>1 DEF OneAtATime, StampsOwn
  <2> QED
    BY <1>4, <2>3, <2>4, <2>5, <2>6 DEF OneAtATime
<1> QED
  BY <1>2, <1>3, <1>4


\* Only the camera of the session being recorded delivers, as long as nothing is tangled.
LEMMA DeliversForNow ==
    ASSUME RecorderIInv, ~tangled, video.alive # {}
    PROVE  writer \in Numbers /\ video.writer = writer /\ sessions[writer].epoch = epoch
<1>1. OneAtATime /\ writer \in Numbers \cup {Null}
  BY DEF RecorderIInv, RecorderTyped
<1>2. stops = {}
  BY <1>1 DEF OneAtATime, StopsInOrder, Left
<1>3. writer # Null
  BY <1>1, <1>2 DEF OneAtATime, Resting
<1> QED
  BY <1>1, <1>3 DEF OneAtATime, Recording, OfNow

LEMMA FrameSafe ==
    ASSUME RecorderIInv, Frame
    PROVE  RecorderIInv'
<1>0. /\ RecorderTyped /\ FramesOwn /\ (\A n \in Numbers : SessionCounted(n)) /\ CountIsFinal
      /\ (tangled \/ OneAtATime)
  BY DEF RecorderIInv
<1>1. PICK n \in Numbers : n = video.writer
  BY <1>0 DEF Frame, RecorderTyped
<1>2. PICK f : f = [of |-> n, number |-> sessions[n].numbered, stamp |-> epoch]
  OBVIOUS
<1>3. PICK t : t = [sessions[n] EXCEPT !.numbered = sessions[n].numbered + 1]
  OBVIOUS
<1>4. /\ video.alive # {} /\ sessions[n].numbered < MaxFrames
      /\ frames' = frames \cup {f}
      /\ UNCHANGED <<writer, epoch, video, sensors, audio, starts, stops, talks, tangled>>
  BY <1>1, <1>2 DEF Frame
<1>5. sessions' = [sessions EXCEPT ![n] = t]
  BY <1>1, <1>3 DEF Frame
<1>6. sessions[n] \in Kept /\ epoch \in Nat /\ MaxFrames \in Nat
  BY <1>0, RecorderState DEF RecorderTyped
<1>7. /\ t \in Kept /\ t.numbered = sessions[n].numbered + 1 /\ t.rows = sessions[n].rows
      /\ t.open = sessions[n].open /\ t.closed = sessions[n].closed
      /\ t.mixed = sessions[n].mixed /\ t.epoch = sessions[n].epoch /\ t.meta = sessions[n].meta
  BY <1>3, <1>6 DEF Kept
<1>8. /\ Numbers' = Numbers /\ sessions'[n] = t
      /\ \A k \in Numbers : k # n => sessions'[k] = sessions[k]
  BY <1>0, <1>5, <1>7, SessionBecomes
<1>9. ~t.closed
  BY <1>0, <1>1, <1>7 DEF CountIsFinal
<1>10. /\ f \in [of : Numbers, number : Nat, stamp : Nat]
       /\ f.of = n /\ f.number = sessions[n].numbered /\ f.stamp = epoch
  BY <1>2, <1>6 DEF Kept
<1>11. f \notin frames
  BY <1>0, <1>6, <1>10 DEF FramesOwn, Kept
<1>12. /\ Unsaved(n)' = Unsaved(n) \cup {f}
       /\ \A k \in Numbers : k # n => Unsaved(k)' = Unsaved(k)
  BY <1>4, <1>10 DEF Unsaved
<1>13. /\ IsFiniteSet(Unsaved(n)) /\ IsFiniteSet(Unsaved(n)')
       /\ Cardinality(Unsaved(n)') = Cardinality(Unsaved(n)) + 1
       /\ Cardinality(Unsaved(n)) \in Nat
  <2>1. IsFiniteSet(Unsaved(n)) /\ f \notin Unsaved(n)
    BY <1>0, <1>11 DEF FramesOwn, Unsaved
  <2> QED
    BY <1>12, <2>1, FS_AddElement, FS_CardinalityType
<1>14. frames' \subseteq [of : Numbers, number : Nat, stamp : Nat]
  BY <1>0, <1>4, <1>10 DEF FramesOwn
<1>15. FramesOwn'
  <2>1. \A frame \in frames' : frame.number < sessions'[frame.of].numbered
    <3> SUFFICES ASSUME NEW frame \in frames'
                 PROVE  frame.number < sessions'[frame.of].numbered
      OBVIOUS
    <3>1. CASE frame = f
      BY <1>6, <1>7, <1>8, <1>10, <3>1 DEF Kept
    <3>2. CASE frame \in frames
      <4>1. frame.of \in Numbers /\ frame.number \in Nat
            /\ frame.number < sessions[frame.of].numbered
        BY <1>0, <3>2 DEF FramesOwn
      <4> QED
        BY <1>6, <1>7, <1>8, <4>1 DEF Kept
    <3> QED
      BY <1>4, <3>1, <3>2
  <2>2. \A k \in Numbers : IsFiniteSet(Unsaved(k)')
    BY <1>0, <1>12, <1>13 DEF FramesOwn
  <2> QED
    BY <1>8, <1>14, <2>1, <2>2 DEF FramesOwn
<1>16. \A k \in Numbers' : SessionCounted(k)'
  <2> SUFFICES ASSUME NEW k \in Numbers
               PROVE  SessionCounted(k)'
    BY <1>8
  <2>1. SessionCounted(k)
    BY <1>0
  <2>2. CASE k = n
    <3>1. /\ sessions'[k].numbered = sessions[k].numbered + 1
          /\ sessions'[k].rows = sessions[k].rows
          /\ sessions[k].numbered \in Nat /\ sessions[k].rows \in Nat
      BY <1>6, <1>7, <1>8, <2>2 DEF Kept
    <3>2. Cardinality(Unsaved(k)') = Cardinality(Unsaved(k)) + 1
          /\ Cardinality(Unsaved(k)) \in Nat
      BY <1>13, <2>2
    <3>3. /\ sessions'[k].numbered <= MaxFrames
          /\ sessions'[k].rows + Cardinality(Unsaved(k)') <= sessions'[k].numbered
      BY <1>4, <1>6, <2>1, <2>2, <3>1, <3>2 DEF SessionCounted
    <3> QED
      BY <3>3 DEF SessionCounted
  <2>3. CASE k # n
    <3>1. sessions'[k] = sessions[k] /\ Unsaved(k)' = Unsaved(k)
      BY <1>8, <1>12, <2>3
    <3> QED
      BY <2>1, <3>1 DEF SessionCounted
  <2> QED
    BY <2>2, <2>3
<1>17. ASSUME ~tangled
       PROVE  /\ ~t.mixed /\ ClipsOwn'
              /\ \A frame \in frames' : frame.stamp = sessions[frame.of].epoch
  <2>1. ClipsOwn /\ StampsOwn
    BY <1>0, <1>17 DEF OneAtATime
  <2>2. ~t.mixed /\ ClipsOwn'
    BY <1>4, <1>7, <2>1 DEF StampsOwn, ClipsOwn
  <2>3. sessions[n].epoch = epoch
    BY <1>1, <1>4, <1>17, DeliversForNow
  <2>4. \A frame \in frames' : frame.stamp = sessions[frame.of].epoch
    BY <1>4, <1>10, <2>1, <2>3 DEF StampsOwn
  <2> QED
    BY <2>2, <2>4
<1>18. /\ audio' = [field |-> audio'.field, clips |-> audio'.clips] /\ audio'.field = audio.field
       /\ \A talk \in talks' : talk.of # Null
  BY <1>0, <1>4 DEF RecorderTyped
<1>19. RecorderTyped' /\ CountIsFinal' /\ (tangled' \/ OneAtATime')
  BY <1>4, <1>5, <1>7, <1>9, <1>14, <1>17, <1>18, SessionGoesOn
<1> QED
  BY <1>15, <1>16, <1>19 DEF RecorderIInv

\* One frame fewer is to be saved, and its session may have another row.
LEMMA OneFrameLess ==
    ASSUME RecorderIInv, NEW frame \in frames, frames' = frames \ {frame}, Numbers' = Numbers,
           \A k \in Numbers : sessions'[k].numbered = sessions[k].numbered,
           \A k \in Numbers : k # frame.of => sessions'[k].rows = sessions[k].rows,
           sessions'[frame.of].rows \in {sessions[frame.of].rows, sessions[frame.of].rows + 1}
    PROVE  FramesOwn' /\ (\A k \in Numbers' : SessionCounted(k)')
<1>0. RecorderTyped /\ FramesOwn /\ \A k \in Numbers : SessionCounted(k)
  BY DEF RecorderIInv
<1>1. PICK n \in Numbers : n = frame.of
  BY <1>0 DEF FramesOwn
<1>2. /\ Unsaved(n)' = Unsaved(n) \ {frame} /\ frame \in Unsaved(n)
      /\ \A k \in Numbers : k # n => Unsaved(k)' = Unsaved(k)
  BY <1>1 DEF Unsaved
<1>3. /\ IsFiniteSet(Unsaved(n)) /\ IsFiniteSet(Unsaved(n)')
      /\ Cardinality(Unsaved(n)) \in Nat /\ Cardinality(Unsaved(n)') \in Nat
      /\ Cardinality(Unsaved(n)') = Cardinality(Unsaved(n)) - 1
  <2>1. IsFiniteSet(Unsaved(n))
    BY <1>0 DEF FramesOwn
  <2>2. Cardinality(Unsaved(n)) \in Nat
    BY <2>1, FS_CardinalityType
  <2>3. /\ IsFiniteSet(Unsaved(n) \ {frame})
        /\ Cardinality(Unsaved(n) \ {frame}) = Cardinality(Unsaved(n)) - 1
    BY <1>2, <2>1, FS_RemoveElement
  <2> QED
    BY <1>2, <2>1, <2>2, <2>3, FS_CardinalityType
<1>4. FramesOwn'
  <2>1. \A k \in Numbers : IsFiniteSet(Unsaved(k)')
    BY <1>0, <1>2, <1>3 DEF FramesOwn
  <2>2. \A other \in frames' : other.number < sessions'[other.of].numbered
    <3> SUFFICES ASSUME NEW other \in frames'
                 PROVE  other.number < sessions'[other.of].numbered
      OBVIOUS
    <3>1. other.of \in Numbers /\ other.number < sessions[other.of].numbered
      BY <1>0 DEF FramesOwn
    <3> QED
      BY <3>1
  <2>3. frames' \subseteq [of : Numbers', number : Nat, stamp : Nat]
    BY <1>0 DEF FramesOwn
  <2> QED
    BY <2>1, <2>2, <2>3 DEF FramesOwn
<1>5. \A k \in Numbers' : SessionCounted(k)'
  <2> SUFFICES ASSUME NEW k \in Numbers
               PROVE  SessionCounted(k)'
    OBVIOUS
  <2>1. SessionCounted(k) /\ sessions[k] \in Kept
    BY <1>0, RecorderState
  <2>2. sessions[k].rows \in Nat /\ sessions[k].numbered \in Nat
    BY <2>1 DEF Kept
  <2>3. CASE k = n
    <3>1. Cardinality(Unsaved(k)) \in Nat /\ Cardinality(Unsaved(k)') = Cardinality(Unsaved(k)) - 1
      BY <1>3, <2>3
    <3>2. sessions'[k].rows \in {sessions[k].rows, sessions[k].rows + 1}
          /\ sessions'[k].numbered = sessions[k].numbered
      BY <1>1, <2>3
    <3>3. /\ sessions'[k].numbered <= MaxFrames
          /\ sessions'[k].rows + Cardinality(Unsaved(k)') <= sessions'[k].numbered
      BY <2>1, <2>2, <3>1, <3>2 DEF SessionCounted
    <3> QED
      BY <3>3 DEF SessionCounted
  <2>4. CASE k # n
    <3>1. sessions'[k].rows = sessions[k].rows /\ sessions'[k].numbered = sessions[k].numbered
          /\ Unsaved(k)' = Unsaved(k)
      BY <1>1, <1>2, <2>4
    <3> QED
      BY <2>1, <3>1 DEF SessionCounted
  <2> QED
    BY <2>3, <2>4
<1> QED
  BY <1>4, <1>5

LEMMA SavedSafe ==
    ASSUME RecorderIInv, NEW frame \in frames, Saved(frame)
    PROVE  RecorderIInv'
<1>0. /\ RecorderTyped /\ FramesOwn /\ CountIsFinal /\ (tangled \/ OneAtATime)
  BY DEF RecorderIInv
<1>1. PICK n \in Numbers : n = frame.of
  BY <1>0 DEF FramesOwn
<1>2. /\ frames' = frames \ {frame}
      /\ UNCHANGED <<writer, epoch, video, sensors, audio, starts, stops, talks, tangled>>
  BY DEF Saved
<1>3. sessions[n] \in Kept
  BY <1>0, RecorderState
<1>4. PICK m \in BOOLEAN, r \in Nat :
          /\ r \in {sessions[n].rows, sessions[n].rows + 1}
          /\ sessions' = [sessions EXCEPT ![n] = [sessions[n] EXCEPT !.rows = r, !.mixed = m]]
          /\ frame.stamp = sessions[n].epoch => m = sessions[n].mixed
  <2>1. CASE sessions[n].open
    <3>1. PICK m : m = (sessions[n].mixed \/ frame.stamp # sessions[n].epoch)
      OBVIOUS
    <3>2. m \in BOOLEAN /\ (frame.stamp = sessions[n].epoch => m = sessions[n].mixed)
      BY <1>3, <3>1 DEF Kept
    <3>3. sessions' = [sessions EXCEPT ![n] =
              [sessions[n] EXCEPT !.rows = sessions[n].rows + 1, !.mixed = m]]
      BY <1>1, <2>1, <3>1, <1>3, <1>0, RecorderState DEF Saved, Stamped, Numbers, Kept
    <3>4. sessions[n].rows + 1 \in Nat
      BY <1>3 DEF Kept
    <3> QED
      BY <3>2, <3>3, <3>4
  <2>2. CASE ~sessions[n].open
    <3>1. sessions' = sessions
      BY <1>1, <2>2 DEF Saved
    <3>2. sessions = [sessions EXCEPT ![n] = sessions[n]]
      BY <1>0, RecorderState DEF RecorderTyped
    <3>3. sessions[n] = [sessions[n] EXCEPT !.rows = sessions[n].rows,
                                            !.mixed = sessions[n].mixed]
      BY <1>3 DEF Kept
    <3>4. sessions[n].mixed \in BOOLEAN /\ sessions[n].rows \in Nat
      BY <1>3 DEF Kept
    <3> QED
      BY <3>1, <3>2, <3>3, <3>4
  <2> QED
    BY <2>1, <2>2
<1>5. PICK t : t = [sessions[n] EXCEPT !.rows = r, !.mixed = m]
  OBVIOUS
<1>6. /\ t \in Kept /\ t.numbered = sessions[n].numbered /\ t.rows = r
      /\ t.open = sessions[n].open /\ t.closed = sessions[n].closed
      /\ t.mixed = m /\ t.epoch = sessions[n].epoch /\ t.meta = sessions[n].meta
  BY <1>3, <1>4, <1>5 DEF Kept
<1>7. sessions' = [sessions EXCEPT ![n] = t]
  BY <1>4, <1>5
<1>8. /\ Numbers' = Numbers /\ sessions'[n] = t
      /\ \A k \in Numbers : k # n => sessions'[k] = sessions[k]
  BY <1>0, <1>6, <1>7, SessionBecomes
<1>9. FramesOwn' /\ (\A k \in Numbers' : SessionCounted(k)')
  <2>1. /\ \A k \in Numbers : sessions'[k].numbered = sessions[k].numbered
        /\ \A k \in Numbers : k # frame.of => sessions'[k].rows = sessions[k].rows
        /\ sessions'[frame.of].rows \in {sessions[frame.of].rows, sessions[frame.of].rows + 1}
    BY <1>1, <1>4, <1>6, <1>8
  <2> QED
    BY <1>2, <1>8, <2>1, OneFrameLess
<1>10. frames' \subseteq [of : Numbers, number : Nat, stamp : Nat]
  BY <1>0, <1>2 DEF FramesOwn
<1>11. t.closed => video.writer # n /\ t.meta = t.numbered
  BY <1>0, <1>6 DEF CountIsFinal
<1>12. ASSUME ~tangled
       PROVE  /\ ~t.mixed /\ ClipsOwn'
              /\ \A other \in frames' : other.stamp = sessions[other.of].epoch
  <2>1. ClipsOwn /\ StampsOwn
    BY <1>0, <1>12 DEF OneAtATime
  <2>2. ClipsOwn'
    BY <1>2, <2>1 DEF ClipsOwn
  <2> QED
    BY <1>1, <1>2, <1>4, <1>6, <2>1, <2>2 DEF StampsOwn
<1>13. /\ audio' = [field |-> audio'.field, clips |-> audio'.clips] /\ audio'.field = audio.field
       /\ \A talk \in talks' : talk.of # Null
  BY <1>0, <1>2 DEF RecorderTyped
<1>14. RecorderTyped' /\ CountIsFinal' /\ (tangled' \/ OneAtATime')
  BY <1>2, <1>6, <1>7, <1>10, <1>11, <1>12, <1>13, SessionGoesOn
<1> QED
  BY <1>9, <1>14 DEF RecorderIInv

LEMMA SaveFailsSafe ==
    ASSUME RecorderIInv, NEW frame \in frames, SaveFails(frame)
    PROVE  RecorderIInv'
<1>0. /\ RecorderTyped /\ FramesOwn /\ CountIsFinal /\ (tangled \/ OneAtATime)
  BY DEF RecorderIInv
<1>1. /\ frames' = frames \ {frame}
      /\ UNCHANGED <<writer, sessions, epoch, video, sensors, audio, starts, stops, talks, tangled>>
  BY DEF SaveFails
<1>2. Numbers' = Numbers
  BY <1>1 DEF Numbers
<1>3. FramesOwn' /\ (\A k \in Numbers' : SessionCounted(k)')
  BY <1>1, <1>2, OneFrameLess
<1>4. RecorderTyped' /\ CountIsFinal'
  BY <1>0, <1>1, <1>2 DEF RecorderTyped, CountIsFinal
<1>5. ASSUME ~tangled'
      PROVE  OneAtATime'
  <2>1. OneAtATime
    BY <1>0, <1>1, <1>5
  <2>2. Opening' /\ Resting' /\ Recording' /\ StopsInOrder'
    BY <1>1, <2>1 DEF Opening, Resting, Recording, StopsInOrder, OneAtATime, OfNow, Left
  <2>3. ClipsOwn' /\ StampsOwn'
    BY <1>1, <1>2, <2>1 DEF ClipsOwn, StampsOwn, OneAtATime
  <2> QED
    BY <2>2, <2>3 DEF OneAtATime
<1> QED
  BY <1>3, <1>4, <1>5 DEF RecorderIInv

LEMMA FrameEndsSafe ==
    ASSUME RecorderIInv, FrameEnds
    PROVE  RecorderIInv'
BY SavedSafe, SaveFailsSafe DEF FrameEnds

\* A sensor that is subscribed belongs to the session the clock runs for.
LEMMA SampleSafe ==
    ASSUME RecorderIInv, Sample
    PROVE  RecorderIInv'
<1>0. /\ RecorderTyped /\ FramesOwn /\ CountIsFinal /\ (tangled \/ OneAtATime)
  BY DEF RecorderIInv
<1>1. PICK n \in sensors.alive :
          /\ sessions[n].open /\ sessions' = Stamped(sessions, n, epoch)
          /\ UNCHANGED <<writer, epoch, video, sensors, audio, starts, stops, frames, talks,
                         tangled>>
  BY DEF Sample
<1>2. n \in Numbers /\ sessions[n] \in Kept
  BY <1>0, RecorderState DEF RecorderTyped
<1>3. PICK m : m = (sessions[n].mixed \/ epoch # sessions[n].epoch)
  OBVIOUS
<1>4. PICK t : t = [sessions[n] EXCEPT !.mixed = m]
  OBVIOUS
<1>5. sessions' = [sessions EXCEPT ![n] = t]
  BY <1>1, <1>3, <1>4 DEF Stamped
<1>6. /\ t \in Kept /\ t.numbered = sessions[n].numbered /\ t.rows = sessions[n].rows
      /\ t.open = sessions[n].open /\ t.closed = sessions[n].closed
      /\ t.mixed = m /\ t.epoch = sessions[n].epoch /\ t.meta = sessions[n].meta
  BY <1>2, <1>3, <1>4 DEF Kept
<1>7. FramesOwn' /\ (\A k \in Numbers' : SessionCounted(k)')
  BY <1>1, <1>2, <1>5, <1>6, CountsStay
<1>8. frames' \subseteq [of : Numbers, number : Nat, stamp : Nat]
  BY <1>0, <1>1 DEF FramesOwn
<1>9. t.closed => video.writer # n /\ t.meta = t.numbered
  BY <1>0, <1>2, <1>6 DEF CountIsFinal
<1>10. ASSUME ~tangled
       PROVE  /\ ~t.mixed /\ ClipsOwn'
              /\ \A frame \in frames' : frame.stamp = sessions[frame.of].epoch
  <2>1. OneAtATime
    BY <1>0, <1>10
  <2>2. sessions[n].epoch = epoch
    <3>1. CASE writer # Null
      BY <2>1, <3>1 DEF OneAtATime, Recording, OfNow
    <3>2. CASE writer = Null
      <4>1. PICK stop \in stops : Left(stop.of, stop.at)
        BY <2>1, <3>2 DEF OneAtATime, Resting, StopsInOrder
      <4> QED
        BY <4>1 DEF Left, OfNow
    <3> QED
      BY <3>1, <3>2
  <2>3. ~t.mixed
    BY <1>2, <1>3, <1>6, <2>1, <2>2 DEF OneAtATime, StampsOwn
  <2>4. ClipsOwn' /\ \A frame \in frames' : frame.stamp = sessions[frame.of].epoch
    BY <1>1, <2>1 DEF OneAtATime, StampsOwn, ClipsOwn
  <2> QED
    BY <2>3, <2>4
<1>11. /\ audio' = [field |-> audio'.field, clips |-> audio'.clips] /\ audio'.field = audio.field
       /\ \A talk \in talks' : talk.of # Null
  BY <1>0, <1>1 DEF RecorderTyped
<1>12. RecorderTyped' /\ CountIsFinal' /\ (tangled' \/ OneAtATime')
  BY <1>1, <1>2, <1>5, <1>6, <1>8, <1>9, <1>10, <1>11, SessionGoesOn
<1> QED
  BY <1>7, <1>12 DEF RecorderIInv

\* A voice note writes nothing.
LEMMA TalkKeepsSessions ==
    ASSUME RecorderIInv,
           UNCHANGED <<writer, sessions, epoch, video, sensors, starts, stops, frames, tangled>>,
           audio' = [field |-> audio'.field, clips |-> audio'.clips],
           audio'.field = audio.field,
           \A talk \in talks' : talk.of # Null,
           ~tangled => ClipsOwn'
    PROVE  RecorderIInv'
<1>0. RecorderTyped /\ CountIsFinal /\ (tangled \/ OneAtATime)
  BY DEF RecorderIInv
<1>1. FramesOwn' /\ (\A n \in Numbers' : SessionCounted(n)') /\ Numbers' = Numbers
  BY UntouchedSessions
<1>2. RecorderTyped' /\ CountIsFinal'
  BY <1>0, <1>1 DEF RecorderTyped, CountIsFinal
<1>3. ASSUME ~tangled
      PROVE  OneAtATime'
  <2>1. OneAtATime
    BY <1>0, <1>3
  <2>2. Opening' /\ Resting' /\ Recording' /\ StopsInOrder'
    BY <2>1 DEF Opening, Resting, Recording, StopsInOrder, OneAtATime, OfNow, Left
  <2>3. StampsOwn'
    BY <1>1, <2>1 DEF StampsOwn, OneAtATime
  <2> QED
    BY <1>3, <2>2, <2>3 DEF OneAtATime
<1> QED
  BY <1>1, <1>2, <1>3 DEF RecorderIInv

\* A voice note is counted, or its label lost, in one session.
LEMMA TalkCounts ==
    ASSUME RecorderIInv, NEW n \in Numbers, NEW noted \in Nat, NEW lost \in Nat,
           sessions' = [sessions EXCEPT ![n] =
                            [sessions[n] EXCEPT !.noted = noted, !.lost = lost]],
           UNCHANGED <<writer, epoch, video, sensors, starts, stops, frames, tangled>>,
           audio' = [field |-> audio'.field, clips |-> audio'.clips],
           audio'.field = audio.field,
           \A talk \in talks' : talk.of # Null,
           ~tangled => ClipsOwn'
    PROVE  RecorderIInv'
<1>0. RecorderTyped /\ FramesOwn /\ CountIsFinal /\ (tangled \/ OneAtATime)
  BY DEF RecorderIInv
<1>1. sessions[n] \in Kept
  BY <1>0, RecorderState
<1>2. PICK t : t = [sessions[n] EXCEPT !.noted = noted, !.lost = lost]
  OBVIOUS
<1>3. sessions' = [sessions EXCEPT ![n] = t]
  BY <1>2
<1>4. /\ t \in Kept /\ t.numbered = sessions[n].numbered /\ t.rows = sessions[n].rows
      /\ t.open = sessions[n].open /\ t.closed = sessions[n].closed
      /\ t.mixed = sessions[n].mixed /\ t.epoch = sessions[n].epoch /\ t.meta = sessions[n].meta
  BY <1>1, <1>2 DEF Kept
<1>5. FramesOwn' /\ (\A k \in Numbers' : SessionCounted(k)')
  BY <1>3, <1>4, CountsStay
<1>6. frames' \subseteq [of : Numbers, number : Nat, stamp : Nat]
  BY <1>0 DEF FramesOwn
<1>7. t.closed => video.writer # n /\ t.meta = t.numbered
  BY <1>0, <1>4 DEF CountIsFinal
<1>8. ~tangled => /\ ~t.mixed /\ ClipsOwn'
                  /\ \A frame \in frames' : frame.stamp = sessions[frame.of].epoch
  BY <1>0, <1>4 DEF OneAtATime, StampsOwn
<1>9. RecorderTyped' /\ CountIsFinal' /\ (tangled' \/ OneAtATime')
  BY <1>3, <1>4, <1>6, <1>7, <1>8, SessionGoesOn
<1> QED
  BY <1>5, <1>9 DEF RecorderIInv

LEMMA BeginTalkSafe ==
    ASSUME RecorderIInv, BeginTalk
    PROVE  RecorderIInv'
<1>0. RecorderTyped /\ (tangled \/ OneAtATime)
  BY DEF RecorderIInv
<1>1. /\ audio.field # Null
      /\ UNCHANGED <<writer, sessions, epoch, video, sensors, audio, starts, stops, frames,
                     tangled>>
  BY DEF BeginTalk
<1>2. \A talk \in talks' : talk.of # Null
  BY <1>0, <1>1 DEF BeginTalk, RecorderTyped
<1>3. ~tangled => ClipsOwn'
  BY <1>0, <1>1 DEF OneAtATime, ClipsOwn
<1>4. audio' = [field |-> audio'.field, clips |-> audio'.clips]
  BY <1>0, <1>1 DEF RecorderTyped
<1> QED
  BY <1>1, <1>2, <1>3, <1>4, TalkKeepsSessions

LEMMA EndTalkSafe ==
    ASSUME RecorderIInv, EndTalk
    PROVE  RecorderIInv'
<1>0. RecorderTyped /\ (tangled \/ OneAtATime)
  BY DEF RecorderIInv
<1>1. /\ audio.field # Null
      /\ audio' = [audio EXCEPT !.clips = {c \in audio.clips : c.of # audio.field}]
      /\ UNCHANGED <<writer, sessions, epoch, video, sensors, starts, stops, frames, tangled>>
  BY DEF EndTalk
<1>2. /\ audio'.field = audio.field /\ audio'.clips = {c \in audio.clips : c.of # audio.field}
      /\ audio' = [field |-> audio'.field, clips |-> audio'.clips]
  BY <1>0, <1>1 DEF RecorderTyped
<1>3. \A talk \in talks' : talk.of # Null
  BY <1>0, <1>1 DEF EndTalk, RecorderTyped
<1>4. ~tangled => ClipsOwn'
  BY <1>0, <1>2 DEF OneAtATime, ClipsOwn
<1> QED
  BY <1>1, <1>2, <1>3, <1>4, TalkKeepsSessions

LEMMA TalkRefusedSafe ==
    ASSUME RecorderIInv, NEW talk \in talks, TalkRefused(talk)
    PROVE  RecorderIInv'
<1>0. RecorderTyped /\ (tangled \/ OneAtATime)
  BY DEF RecorderIInv
<1>1. /\ talks' = talks \ {talk}
      /\ UNCHANGED <<writer, sessions, epoch, video, sensors, audio, starts, stops, frames,
                     tangled>>
  BY DEF TalkRefused
<1>2. /\ \A other \in talks' : other.of # Null
      /\ audio' = [field |-> audio'.field, clips |-> audio'.clips] /\ audio'.field = audio.field
  BY <1>0, <1>1 DEF RecorderTyped
<1>3. ~tangled => ClipsOwn'
  BY <1>0, <1>1 DEF OneAtATime, ClipsOwn
<1> QED
  BY <1>1, <1>2, <1>3, TalkKeepsSessions

\* The clip is of the recorder in the field: a recorder disposed of meanwhile records nothing.
LEMMA TalkGrantedSafe ==
    ASSUME RecorderIInv, NEW talk \in talks, TalkGranted(talk)
    PROVE  RecorderIInv'
<1>0. RecorderTyped /\ (tangled \/ OneAtATime)
  BY DEF RecorderIInv
<1>1. /\ talks' = talks \ {talk}
      /\ audio' = IF talk.of # audio.field THEN audio
                  ELSE [audio EXCEPT !.clips =
                            audio.clips \cup {[of |-> talk.of, into |-> talk.into]}]
      /\ sessions' = [sessions EXCEPT ![talk.into].noted = @ + 1]
      /\ UNCHANGED <<writer, epoch, video, sensors, starts, stops, frames, tangled>>
  BY DEF TalkGranted
<1>2. \A other \in talks' : other.of # Null
  BY <1>0, <1>1 DEF RecorderTyped
<1>3. talk.of # Null /\ audio = [field |-> audio.field, clips |-> audio.clips]
  BY <1>0 DEF RecorderTyped
<1>4. /\ audio'.field = audio.field
      /\ audio' = [field |-> audio'.field, clips |-> audio'.clips]
      /\ \A clip \in audio'.clips : clip \in audio.clips \/ clip.of = audio.field
      /\ audio.field = Null => audio'.clips = audio.clips
  <2>1. CASE talk.of # audio.field
    BY <1>1, <1>3, <2>1
  <2>2. CASE talk.of = audio.field
    <3>1. audio' = [field |-> audio.field,
                    clips |-> audio.clips \cup {[of |-> talk.of, into |-> talk.into]}]
      BY <1>1, <1>3, <2>2
    <3> QED
      BY <1>3, <2>2, <3>1
  <2> QED
    BY <2>1, <2>2
<1>5. ~tangled => ClipsOwn'
  BY <1>0, <1>4 DEF OneAtATime, ClipsOwn
<1>6. UNCHANGED <<writer, epoch, video, sensors, starts, stops, frames, tangled>>
  BY DEF TalkGranted
<1>7. CASE talk.into \in Numbers
  <2>1. PICK n \in Numbers : n = talk.into
    BY <1>7
  <2>2. sessions[n] \in Kept
    BY <1>0, RecorderState
  <2>3. PICK noted \in Nat, lost \in Nat :
            noted = sessions[n].noted + 1 /\ lost = sessions[n].lost
    BY <2>2 DEF Kept
  <2>4. [sessions[n] EXCEPT !.noted = noted] =
            [sessions[n] EXCEPT !.noted = noted, !.lost = lost]
    BY <2>2, <2>3 DEF Kept
  <2>5. sessions' = [sessions EXCEPT ![n] = [sessions[n] EXCEPT !.noted = noted]]
    BY <1>1, <2>1, <2>3
  <2>6. sessions' = [sessions EXCEPT ![n] =
                         [sessions[n] EXCEPT !.noted = noted, !.lost = lost]]
    BY <2>4, <2>5
  <2> QED
    BY <1>6, <1>2, <1>4, <1>5, <2>6, TalkCounts
<1>8. CASE talk.into \notin Numbers
  <2>1. sessions' = sessions
    BY <1>0, <1>1, <1>8, RecorderState DEF RecorderTyped, Numbers
  <2> QED
    BY <1>6, <1>2, <1>4, <1>5, <2>1, TalkKeepsSessions
<1> QED
  BY <1>7, <1>8

LEMMA TalkEndedSafe ==
    ASSUME RecorderIInv, NEW talk \in talks, TalkEnded(talk)
    PROVE  RecorderIInv'
<1>0. RecorderTyped /\ (tangled \/ OneAtATime)
  BY DEF RecorderIInv
<1>1. /\ talks' = talks \ {talk}
      /\ UNCHANGED <<writer, epoch, video, sensors, audio, starts, stops, frames, tangled>>
  BY DEF TalkEnded
<1>2. /\ \A other \in talks' : other.of # Null
      /\ audio' = [field |-> audio'.field, clips |-> audio'.clips] /\ audio'.field = audio.field
  BY <1>0, <1>1 DEF RecorderTyped
<1>3. ~tangled => ClipsOwn'
  BY <1>0, <1>1 DEF OneAtATime, ClipsOwn
<1>4. CASE sessions' = sessions
  BY <1>1, <1>2, <1>3, <1>4, TalkKeepsSessions
<1>5. CASE sessions' # sessions
  <2>1. sessions' = [sessions EXCEPT ![talk.into].lost = @ + 1]
    BY <1>5 DEF TalkEnded
  <2>2. talk.into \in Numbers
    BY <1>0, <1>5, <2>1, RecorderState DEF RecorderTyped, Numbers
  <2>3. PICK n \in Numbers : n = talk.into
    BY <2>2
  <2>4. sessions[n] \in Kept
    BY <1>0, RecorderState
  <2>5. PICK noted \in Nat, lost \in Nat :
            noted = sessions[n].noted /\ lost = sessions[n].lost + 1
    BY <2>4 DEF Kept
  <2>6. [sessions[n] EXCEPT !.lost = lost] =
            [sessions[n] EXCEPT !.noted = noted, !.lost = lost]
    BY <2>4, <2>5 DEF Kept
  <2>7. sessions' = [sessions EXCEPT ![n] = [sessions[n] EXCEPT !.lost = lost]]
    BY <2>1, <2>3, <2>5
  <2>8. sessions' = [sessions EXCEPT ![n] =
                         [sessions[n] EXCEPT !.noted = noted, !.lost = lost]]
    BY <2>6, <2>7
  <2> QED
    BY <1>1, <1>2, <1>3, <2>8, TalkCounts
<1> QED
  BY <1>4, <1>5

LEMMA TalkStepSafe ==
    ASSUME RecorderIInv, TalkStep
    PROVE  RecorderIInv'
BY TalkGrantedSafe, TalkRefusedSafe, TalkEndedSafe DEF TalkStep

(***************************************************************************)
(* The theorem about the logger.                                           *)
(***************************************************************************)

LEMMA RecorderBegins ==
    ASSUME RecorderInit
    PROVE  RecorderIInv
<1>1. /\ writer = Null /\ sessions = <<>> /\ epoch = 0
      /\ video = [writer |-> Null, sub |-> Null, alive |-> {}]
      /\ sensors = [field |-> Null, alive |-> {}]
      /\ audio = [field |-> Null, clips |-> {}]
      /\ starts = 0 /\ stops = {} /\ frames = {} /\ talks = {}
      /\ tangled = FALSE
  BY DEF RecorderInit
<1>2. sessions \in Seq(Kept) /\ Len(sessions) = 0 /\ Numbers = {}
  BY <1>1 DEF Numbers
<1>3. RecorderTyped
  <2>1. /\ epoch \in Nat /\ starts \in Nat
        /\ Len(sessions) + starts <= epoch /\ epoch <= MaxSessions
    BY <1>1, <1>2, RecorderAssumption
  <2>2. /\ video \in [writer : {Null}, sub : {Null}, alive : SUBSET Numbers]
        /\ sensors \in [field : {Null}, alive : SUBSET Numbers]
        /\ audio = [field |-> audio.field, clips |-> audio.clips] /\ audio.field = Null
    BY <1>1
  <2>3. /\ video \in [writer : Numbers \cup {Null}, sub : Numbers \cup {Null},
                      alive : SUBSET Numbers]
        /\ sensors \in [field : Numbers \cup {Null}, alive : SUBSET Numbers]
    BY <2>2
  <2>4. /\ writer \in Numbers \cup {Null} /\ audio.field \in Numbers \cup {Null}
        /\ stops \subseteq [of : Numbers, at : StopPlaces] /\ talks = {} /\ tangled \in BOOLEAN
    BY <1>1, <2>2
  <2> QED
    BY <1>2, <2>1, <2>2, <2>3, <2>4 DEF RecorderTyped
<1>4. FramesOwn /\ CountIsFinal /\ \A n \in Numbers : SessionCounted(n)
  BY <1>1, <1>2 DEF FramesOwn, CountIsFinal
<1>5. Opening /\ Resting /\ Recording
  BY <1>1 DEF Opening, Resting, Recording
<1>6. StopsInOrder /\ ClipsOwn /\ StampsOwn
  BY <1>1, <1>2 DEF StopsInOrder, ClipsOwn, StampsOwn
<1> QED
  BY <1>3, <1>4, <1>5, <1>6 DEF RecorderIInv, OneAtATime

LEMMA RecorderStays ==
    ASSUME RecorderIInv, UNCHANGED recorderVars
    PROVE  RecorderIInv'
<1>1. UNCHANGED <<writer, sessions, epoch, video, sensors, audio, starts, stops, frames, talks,
                  tangled>>
  BY DEF recorderVars
<1>2. RecorderTyped /\ (tangled \/ OneAtATime)
  BY DEF RecorderIInv
<1>3. /\ \A talk \in talks' : talk.of # Null
      /\ audio' = [field |-> audio'.field, clips |-> audio'.clips] /\ audio'.field = audio.field
  BY <1>1, <1>2 DEF RecorderTyped
<1>4. ~tangled => ClipsOwn'
  BY <1>1, <1>2 DEF OneAtATime, ClipsOwn
<1> QED
  BY <1>1, <1>3, <1>4, TalkKeepsSessions

LEMMA RecorderSteps ==
    ASSUME RecorderIInv, [RecorderNext]_recorderVars
    PROVE  RecorderIInv'
<1>1. CASE Start
  BY <1>1, StartSafe
<1>2. CASE Started
  BY <1>2, StartedSafe
<1>3. CASE StartFails
  BY <1>3, StartFailsSafe
<1>4. CASE Stop
  BY <1>4, StopSafe
<1>5. CASE StopStep
  BY <1>5, StopStepSafe
<1>6. CASE Frame
  BY <1>6, FrameSafe
<1>7. CASE FrameEnds
  BY <1>7, FrameEndsSafe
<1>8. CASE Sample
  BY <1>8, SampleSafe
<1>9. CASE BeginTalk
  BY <1>9, BeginTalkSafe
<1>10. CASE EndTalk
  BY <1>10, EndTalkSafe
<1>11. CASE TalkStep
  BY <1>11, TalkStepSafe
<1>12. CASE UNCHANGED recorderVars
  BY <1>12, RecorderStays
<1> QED
  BY <1>1, <1>2, <1>3, <1>4, <1>5, <1>6, <1>7, <1>8, <1>9, <1>10, <1>11, <1>12
     DEF RecorderNext

\* Whoever is connected by now is connected to a session whose files are open.
LEMMA ClosedIsSilent ==
    ASSUME RecorderIInv, ~tangled, NEW n \in Numbers, ~sessions[n].open
    PROVE  /\ n \notin video.alive \cup sensors.alive
           /\ video.writer # n /\ ~Recorded(n)
<1>0. RecorderTyped /\ OneAtATime /\ n # Null
  BY RecorderState DEF RecorderIInv
<1>1. \A clip \in audio.clips : clip.of = audio.field
  BY <1>0 DEF OneAtATime, ClipsOwn
<1>2. CASE writer # Null
  <2>1. /\ writer # n /\ video = [writer |-> writer, sub |-> writer, alive |-> {writer}]
        /\ sensors = [field |-> writer, alive |-> {writer}] /\ audio.field = writer
    BY <1>0, <1>2 DEF OneAtATime, Recording, OfNow
  <2> QED
    BY <1>1, <2>1 DEF Recorded
<1>3. CASE writer = Null /\ stops = {}
  <2>1. video.writer = Null /\ video.alive = {} /\ sensors.alive = {} /\ audio.field = Null
    BY <1>0, <1>3 DEF OneAtATime, Resting
  <2> QED
    BY <1>0, <1>1, <2>1 DEF Recorded
<1>4. CASE stops # {}
  <2>1. PICK stop \in stops : Left(stop.of, stop.at)
    BY <1>0, <1>4 DEF OneAtATime, StopsInOrder
  <2>2. stop.of # n
    BY <2>1 DEF Left, OfNow
  <2>3. /\ video.alive = {} /\ video.writer \in {stop.of, Null}
        /\ sensors.alive \subseteq {stop.of} /\ audio.field \in {stop.of, Null}
    BY <2>1 DEF Left
  <2> QED
    BY <1>0, <1>1, <2>2, <2>3 DEF Recorded
<1> QED
  BY <1>2, <1>3, <1>4

LEMMA RecorderFollows ==
    ASSUME RecorderIInv
    PROVE  RecorderInv
<1>0. /\ RecorderTyped /\ FramesOwn /\ (\A n \in Numbers : SessionCounted(n)) /\ CountIsFinal
      /\ (tangled \/ OneAtATime)
  BY DEF RecorderIInv
<1>1. \A n \in Numbers : Cardinality(Unsaved(n)) \in Nat
  BY <1>0, FS_CardinalityType DEF FramesOwn
<1>2. RecorderType
  <2>1. Numbers \subseteq Session
    BY <1>0, RecorderState DEF Session
  <2>2. /\ writer \in Session \cup {Null} /\ video.writer \in Session \cup {Null}
        /\ video.alive \subseteq Session /\ sensors.alive \subseteq Session
        /\ sensors.field \in Session \cup {Null} /\ audio.field \in Session \cup {Null}
    BY <1>0, <2>1 DEF RecorderTyped
  <2>3. \A n \in Numbers : sessions[n].rows + sessions[n].numbered <= 2 * MaxFrames
    <3> SUFFICES ASSUME NEW n \in Numbers
                 PROVE  sessions[n].rows + sessions[n].numbered <= 2 * MaxFrames
      OBVIOUS
    <3>1. sessions[n].rows \in Nat /\ sessions[n].numbered \in Nat /\ MaxFrames \in Nat
      BY <1>0, RecorderState DEF Kept
    <3> QED
      BY <1>0, <1>1, <3>1 DEF SessionCounted
  <2>4. \A stop \in stops : stop.at \in {"camera", "sensors", "audio", "meta", "sinks"}
    BY <1>0 DEF RecorderTyped, StopPlaces
  <2> QED
    BY <2>2, <2>3, <2>4 DEF RecorderType
<1>3. OneClockPerSession
  BY <1>0 DEF OneClockPerSession, OneAtATime, StampsOwn
<1>4. NothingWritesAfterStop
  BY ClosedIsSilent DEF NothingWritesAfterStop
<1>5. RecordingIsConnected
  BY <1>0 DEF RecordingIsConnected, OneAtATime, Recording
<1>6. CountCoversRows
  BY <1>0 DEF CountCoversRows, CountIsFinal, SessionCounted, Unsaved
<1> QED
  BY <1>2, <1>3, <1>4, <1>5, <1>6 DEF RecorderInv

\* What the logger leaves on disk holds together, for any number of sessions, frames and voice
\* notes and whatever Recorder.start(), stop(), the frames still being saved and the microphone
\* interleave to: the frame count that SessionWriter.finish() writes is final and covers every
\* row, and as long as start() is not pressed beside another start() or a stop(), a session holds
\* stamps of its own clock only, a closed one is written by nobody, and the current one is
\* connected to every source.
THEOREM RecorderIsConsistent == RecorderSpec => []RecorderInv
<1>1. RecorderInit => RecorderIInv
  BY RecorderBegins
<1>2. RecorderIInv /\ [RecorderNext]_recorderVars => RecorderIInv'
  BY RecorderSteps
<1>3. RecorderIInv => RecorderInv
  BY RecorderFollows
<1> QED
  BY <1>1, <1>2, <1>3, PTL DEF RecorderSpec
=============================================================================
