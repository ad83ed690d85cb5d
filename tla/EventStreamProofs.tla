-------------------------- MODULE EventStreamProofs --------------------------
(***************************************************************************)
(* Proofs about EventStream, for every number of connections, subscriber   *)
(* slots and emitters, every queue depth and every frame length: clients   *)
(* get frames in order and none twice, and nobody uses the broadcaster     *)
(* once it is destroyed.                                                   *)
(***************************************************************************)
EXTENDS EventStream, FiniteSetTheorems, TLAPS

-----------------------------------------------------------------------------
(* Queues *)

\* A queue that may follow what was sent last, when frames up to top are
\* numbered: the frames it holds are in order and later than that one, but for
\* a first frame of which exactly that much was sent.
Follows(q, sent, top) ==
  /\ q \in [ids : Seq(Nat), pos : 0..(FrameLen - 1)]
  /\ q.ids = <<>> => q.pos = 0
  /\ sent.id \in 0..top
  /\ \A i \in 1..Len(q.ids) : q.ids[i] \in 1..top
  /\ \A i, j \in 1..Len(q.ids) : i < j => q.ids[i] < q.ids[j]
  /\ \A i \in 1..Len(q.ids) :
       \/ sent.id < q.ids[i]
       \/ i = 1 /\ sent.id = q.ids[1] /\ sent.pieces = q.pos

LEMMA NoQueueFollows ==
  ASSUME NEW top \in Nat PROVE Follows(NoQueue, NoFrame, top)
BY StreamAssumption DEF StreamAssumption, Follows, NoQueue, NoFrame

\* Later frames may be numbered in the meantime.
LEMMA FollowsLater ==
  ASSUME NEW q, NEW sent, NEW top \in Nat, Follows(q, sent, top)
  PROVE  Follows(q, sent, top + 1)
BY DEF Follows

\* Without its first frame a queue follows all that can have been sent of it.
LEMMA DropFollows ==
  ASSUME NEW q, NEW sent, NEW top \in Nat, Follows(q, sent, top),
         q.ids # <<>>, NEW now,
         now = sent \/ now.id = q.ids[1]
  PROVE  Follows(DropOldest(q), now, top)
<1> DEFINE d == DropOldest(q)
<1>1. /\ d.ids = Tail(q.ids) /\ d.pos = 0 /\ d.ids \in Seq(Nat)
      /\ Len(d.ids) = Len(q.ids) - 1 /\ Len(q.ids) \in Nat \ {0}
      /\ \A i \in 1..Len(d.ids) :
           i + 1 \in 1..Len(q.ids) /\ d.ids[i] = q.ids[i + 1]
  BY DEF DropOldest, Follows
<1>2. d \in [ids : Seq(Nat), pos : 0..(FrameLen - 1)]
  <2>1. 0 \in 0..(FrameLen - 1)
    BY StreamAssumption DEF StreamAssumption
  <2> QED
    BY <1>1, <2>1 DEF DropOldest
<1> HIDE DEF d
<1>3. 1 \in 1..Len(q.ids) /\ q.ids[1] \in 1..top
  BY <1>1 DEF Follows
<1>4. now.id \in 0..top
  BY <1>3 DEF Follows
<1>5. \A i \in 1..Len(d.ids) : d.ids[i] \in 1..top /\ now.id < d.ids[i]
  <2> SUFFICES ASSUME NEW i \in 1..Len(d.ids)
               PROVE  d.ids[i] \in 1..top /\ now.id < d.ids[i]
    OBVIOUS
  <2>1. /\ i + 1 \in 1..Len(q.ids) /\ d.ids[i] = q.ids[i + 1]
        /\ 1 < i + 1 /\ i + 1 # 1
    BY <1>1
  <2>2. q.ids[i + 1] \in 1..top /\ q.ids[1] < q.ids[i + 1]
    BY <1>3, <2>1 DEF Follows
  <2>3. sent.id < q.ids[i + 1]
    BY <2>1 DEF Follows
  <2> QED
    BY <2>1, <2>2, <2>3
<1>6. \A i, j \in 1..Len(d.ids) : i < j => d.ids[i] < d.ids[j]
  <2> SUFFICES ASSUME NEW i \in 1..Len(d.ids), NEW j \in 1..Len(d.ids), i < j
               PROVE  d.ids[i] < d.ids[j]
    OBVIOUS
  <2>1. /\ i + 1 \in 1..Len(q.ids) /\ d.ids[i] = q.ids[i + 1]
        /\ j + 1 \in 1..Len(q.ids) /\ d.ids[j] = q.ids[j + 1]
        /\ i + 1 < j + 1
    BY <1>1
  <2> QED
    BY <2>1 DEF Follows
<1>7. Follows(d, now, top)
  BY <1>1, <1>2, <1>4, <1>5, <1>6 DEF Follows
<1> QED
  BY <1>7 DEF d

\* A frame later than all that are queued or sent may be queued.
LEMMA AppendFollows ==
  ASSUME NEW q, NEW sent, NEW top \in Nat, Follows(q, sent, top),
         NEW new \in Nat, top <= new, NEW id \in 1..new, sent.id < id,
         \A i \in 1..Len(q.ids) : q.ids[i] < id
  PROVE  Follows([q EXCEPT !.ids = Append(@, id)], sent, new)
<1> DEFINE a == [q EXCEPT !.ids = Append(@, id)]
           n == Len(q.ids)
<1>1. q \in [ids : Seq(Nat), pos : 0..(FrameLen - 1)]
  BY DEF Follows
<1>2. /\ a \in [ids : Seq(Nat), pos : 0..(FrameLen - 1)]
      /\ a.ids = Append(q.ids, id) /\ a.pos = q.pos
  BY <1>1, SMTT(30)
<1>3. /\ n \in Nat /\ Len(a.ids) = n + 1 /\ a.ids # <<>>
      /\ a.ids[n + 1] = id /\ \A i \in 1..n : a.ids[i] = q.ids[i]
  <2>1. q.ids \in Seq(Nat) /\ id \in Nat
    BY <1>1
  <2>2. /\ n \in Nat /\ Len(Append(q.ids, id)) = n + 1
        /\ Append(q.ids, id)[n + 1] = id
        /\ \A i \in 1..n : Append(q.ids, id)[i] = q.ids[i]
    BY <2>1
  <2>3. Len(<<>>) = 0 /\ n + 1 # 0
    BY <2>2
  <2> HIDE DEF a, n
  <2> QED
    BY <1>2, <2>2, <2>3
<1>4. sent.id \in 0..new
  BY DEF Follows
<1> HIDE DEF a, n
<1>5. ASSUME NEW i \in 1..Len(a.ids)
      PROVE  /\ a.ids[i] \in 1..new
             /\ \/ sent.id < a.ids[i]
                \/ i = 1 /\ sent.id = a.ids[1] /\ sent.pieces = a.pos
  <2>1. CASE i = n + 1
    BY <1>3, <2>1
  <2>2. CASE i \in 1..n
    <3>1. /\ q.ids[i] \in 1..top
          /\ \/ sent.id < q.ids[i]
             \/ i = 1 /\ sent.id = q.ids[1] /\ sent.pieces = q.pos
      BY <2>2 DEF Follows, n
    <3> QED
      BY <1>2, <1>3, <2>2, <3>1, SMTT(30)
  <2> QED
    BY <1>3, <2>1, <2>2
<1>6. ASSUME NEW i \in 1..Len(a.ids), NEW j \in 1..Len(a.ids), i < j
      PROVE  a.ids[i] < a.ids[j]
  <2>1. i \in 1..n /\ a.ids[i] = q.ids[i]
    BY <1>3, <1>6
  <2>2. CASE j = n + 1
    BY <1>3, <2>1, <2>2 DEF n
  <2>3. CASE j \in 1..n
    BY <1>3, <1>6, <2>1, <2>3 DEF Follows, n
  <2> QED
    BY <1>3, <2>2, <2>3
<1>7. Follows(a, sent, new)
  BY <1>2, <1>3, <1>4, <1>5, <1>6 DEF Follows
<1> QED
  BY <1>7 DEF a

\* What goes for subscriber_enqueue_locked with a new frame
LEMMA EnqueueFollows ==
  ASSUME NEW q, NEW sent, NEW top \in Nat, Follows(q, sent, top)
  PROVE  Follows(Enqueue(q, top + 1), sent, top + 1)
<1> DEFINE room == IF Len(q.ids) = SSE_QUEUE_DEPTH THEN DropOldest(q) ELSE q
<1>1. Follows(room, sent, top)
  <2>1. CASE Len(q.ids) = SSE_QUEUE_DEPTH
    <3>1. q.ids # <<>>
      BY <2>1, StreamAssumption DEF StreamAssumption, Follows
    <3> QED
      BY <2>1, <3>1, DropFollows
  <2> QED
    BY <2>1
<1>2. Enqueue(q, top + 1) = [room EXCEPT !.ids = Append(@, top + 1)]
  BY DEF Enqueue
<1> HIDE DEF room
<1>3. /\ top + 1 \in 1..(top + 1) /\ top + 1 \in Nat /\ top <= top + 1
      /\ sent.id < top + 1 /\ \A i \in 1..Len(room.ids) : room.ids[i] < top + 1
  BY <1>1 DEF Follows
<1> QED
  BY <1>1, <1>2, <1>3, AppendFollows

-----------------------------------------------------------------------------
(* Connections *)

Attached == {"reading", "waiting", "closing"}
Places == Attached \cup {"none", "detached"}

\* The slots of the broadcaster are those of the connections attached to it.
ConnInv ==
  /\ conn \in [Clients -> Places]
  /\ subs = {c \in Clients : conn[c] \in Attached}

LEMMA ConnInit == Init => ConnInv
BY DEF Init, ConnInv, Places, Attached

LEMMA ConnStep == ConnInv /\ [Next]_vars => ConnInv'
<1> SUFFICES ASSUME ConnInv, [Next]_vars PROVE ConnInv'
  OBVIOUS
<1> USE DEF ConnInv, Places, Attached
<1>1. CASE UNCHANGED <<conn, subs>>
  BY <1>1
<1>2. ASSUME NEW e \in Emitters, Begin(e) \/ Emits(e)
      PROVE  UNCHANGED <<conn, subs>>
  BY <1>2 DEF Begin, Emits, Broadcast, Cache, broadcaster, client
<1>3. ASSUME NEW c \in Clients, Subscribe(c)
      PROVE  ConnInv'
  BY <1>3 DEF Subscribe
<1>4. ASSUME NEW c \in Clients, Leaves(c)
      PROVE  UNCHANGED <<conn, subs>>
  BY <1>4 DEF Leaves, broadcaster
<1>5. ASSUME NEW c \in Clients, Serves(c)
      PROVE  ConnInv'
  <2>1. ASSUME NEW max \in 1..FrameLen, Read(c, max)
        PROVE  ConnInv'
    BY <2>1 DEF Read, Sent, broadcaster
  <2>2. CASE ReadEnds(c) \/ Wait(c) \/ Woken(c)
    BY <2>2 DEF ReadEnds, Wait, Woken, broadcaster
  <2>3. CASE TimedOut(c)
    BY <2>3 DEF TimedOut, Sent, broadcaster
  <2>4. CASE Detach(c)
    BY <2>4 DEF Detach
  <2>5. CASE Free(c)
    BY <2>5 DEF Free, broadcaster
  <2> QED
    BY <1>5, <2>1, <2>2, <2>3, <2>4, <2>5 DEF Serves
<1>6. ApiUp \/ ApiFails \/ WeatherStop \/ Teardown => UNCHANGED <<conn, subs>>
  BY DEF ApiUp, ApiFails, WeatherStop, Teardown, GivesUp, SseShutdown, ApiStop,
     ApiStopped, MonitorStop, ShutdownFree, Destroy, broadcaster, client
<1>7. UNCHANGED vars => UNCHANGED <<conn, subs>>
  BY DEF vars, broadcaster, client
<1> QED
  BY <1>1, <1>2, <1>3, <1>4, <1>5, <1>6, <1>7 DEF Next

-----------------------------------------------------------------------------
(* Frames in order *)

\* Every queue follows what its client was sent, and neither the cached frame
\* nor one on its way to the cache is numbered after the latest.
QueueInv ==
  /\ frames \in Nat /\ cached \in 0..frames
  /\ DOMAIN queue = Clients /\ DOMAIN last = Clients
  /\ \A c \in Clients : Follows(queue[c], last[c], frames)
  /\ \A c \in Clients : conn[c] = "none" =>
       queue[c] = NoQueue /\ last[c] = NoFrame
  /\ DOMAIN emit = Emitters
  /\ \A e \in Emitters : emit[e].at = "cache" => emit[e].id \in 0..frames

LEMMA QueueInit == Init => QueueInv
<1> SUFFICES ASSUME Init PROVE QueueInv
  OBVIOUS
<1>1. frames = 0 /\ cached = 0
  BY DEF Init
<1>2. \A c \in Clients : queue[c] = NoQueue /\ last[c] = NoFrame
  BY DEF Init
<1>3. Follows(NoQueue, NoFrame, frames)
  BY <1>1, NoQueueFollows
<1>4. \A e \in Emitters : emit[e].at = "idle"
  BY DEF Init, Idle
<1> QED
  BY <1>1, <1>2, <1>3, <1>4 DEF Init, QueueInv

\* Steps that leave the queues and the emitters alone
LEMMA QueueKept ==
  ASSUME QueueInv, UNCHANGED <<frames, cached, queue, last, emit>>,
         \A c \in Clients : conn'[c] = "none" => conn[c] = "none"
  PROVE  QueueInv'
BY DEF QueueInv

\* Steps of main, which joins emitters
LEMMA JoinsKeep ==
  ASSUME QueueInv, UNCHANGED <<frames, cached, queue, last, conn>>,
         NEW step, Joins(step)
  PROVE  QueueInv'
<1>1. /\ DOMAIN emit' = Emitters
      /\ \A e \in Emitters : emit'[e] = emit[e] \/ emit'[e] = Ended
  BY DEF Joins
<1>2. Ended.at # "cache"
  BY DEF Ended
<1> QED
  BY <1>1, <1>2 DEF QueueInv

LEMMA QueueStep == QueueInv /\ ConnInv /\ [Next]_vars => QueueInv'
<1> SUFFICES ASSUME QueueInv, ConnInv, [Next]_vars PROVE QueueInv'
  OBVIOUS
<1>1. ASSUME NEW e \in Emitters, Begin(e)
      PROVE  QueueInv'
  <2>1. /\ DOMAIN emit' = Emitters
        /\ \A f \in Emitters : emit'[f] = emit[f] \/ emit'[f].at # "cache"
    BY <1>1 DEF Begin, QueueInv
  <2> QED
    BY <1>1, <2>1 DEF Begin, QueueInv, broadcaster, client
<1>2. ASSUME NEW e \in Emitters, Broadcast(e)
      PROVE  QueueInv'
  <2>1. /\ frames' = frames + 1 /\ frames' \in Nat /\ cached' \in 0..frames'
        /\ UNCHANGED <<conn, last>>
    BY <1>2 DEF Broadcast, QueueInv, broadcaster
  <2>2. PICK got \in SUBSET {c \in subs : ~closed[c]} :
          queue' = [c \in Clients |->
            IF c \in got THEN Enqueue(queue[c], frames + 1) ELSE queue[c]]
    BY <1>2, <2>1 DEF Broadcast, Fanout
  <2>3. ASSUME NEW c \in Clients
        PROVE  Follows(queue'[c], last'[c], frames')
    <3>1. Follows(queue[c], last[c], frames) /\ frames \in Nat
      BY DEF QueueInv
    <3>2. CASE c \in got
      BY <2>1, <2>2, <3>1, <3>2, EnqueueFollows
    <3>3. CASE c \notin got
      BY <2>1, <2>2, <3>1, <3>3, FollowsLater
    <3> QED
      BY <3>2, <3>3
  <2>4. ASSUME NEW c \in Clients, conn'[c] = "none"
        PROVE  queue'[c] = NoQueue /\ last'[c] = NoFrame
    <3>1. conn[c] = "none" /\ c \notin got
      BY <2>1, <2>4 DEF ConnInv, Attached
    <3> QED
      BY <2>1, <2>2, <3>1 DEF QueueInv
  <2>5. /\ DOMAIN emit' = Emitters
        /\ \A f \in Emitters :
             \/ f # e /\ emit'[f] = emit[f]
             \/ f = e /\ emit'[f] \in {Idle, [id |-> frames', at |-> "cache"]}
    BY <1>2 DEF Broadcast, QueueInv
  <2>6. ASSUME NEW f \in Emitters, emit'[f].at = "cache"
        PROVE  emit'[f].id \in 0..frames'
    <3>1. Idle.at # "cache"
      BY DEF Idle
    <3>2. CASE f = e
      BY <2>1, <2>5, <2>6, <3>1, <3>2
    <3>3. CASE f # e
      BY <2>1, <2>5, <2>6, <3>3 DEF QueueInv
    <3> QED
      BY <3>2, <3>3
  <2> QED
    BY <2>1, <2>2, <2>3, <2>4, <2>5, <2>6 DEF QueueInv
<1>3. ASSUME NEW e \in Emitters, Cache(e)
      PROVE  QueueInv'
  <2>1. /\ DOMAIN emit' = Emitters
        /\ \A f \in Emitters : emit'[f] = emit[f] \/ emit'[f].at # "cache"
    BY <1>3 DEF Cache, QueueInv, Idle
  <2>2. cached' \in 0..frames /\ UNCHANGED <<frames, conn, queue, last>>
    BY <1>3 DEF Cache, QueueInv, client
  <2> QED
    BY <2>1, <2>2 DEF QueueInv
<1>4. ASSUME NEW c \in Clients, Subscribe(c)
      PROVE  QueueInv'
  <2>1. /\ conn[c] = "none" /\ UNCHANGED <<frames, cached, last, emit>>
        /\ queue[c] = NoQueue /\ last[c] = NoFrame
    BY <1>4 DEF Subscribe, QueueInv
  <2>2. CASE UNCHANGED <<queue, conn>>
    BY <2>1, <2>2, QueueKept
  <2>3. CASE /\ \/ UNCHANGED queue
                \/ cached > 0
                   /\ queue' = [queue EXCEPT ![c] = Enqueue(@, cached)]
             /\ \E answered \in BOOLEAN :
                  conn' = [conn EXCEPT ![c] =
                             IF answered THEN "reading" ELSE "closing"]
    <3>1. \A d \in Clients : conn'[d] = "none" => conn[d] = "none" /\ d # c
      BY <2>3 DEF ConnInv
    <3>2. CASE UNCHANGED queue
      BY <2>1, <3>1, <3>2, QueueKept
    <3>3. CASE cached > 0 /\ queue' = [queue EXCEPT ![c] = Enqueue(@, cached)]
      <4>1. Enqueue(NoQueue, cached)
              = [NoQueue EXCEPT !.ids = Append(@, cached)]
        <5>1. Len(NoQueue.ids) # SSE_QUEUE_DEPTH
          BY StreamAssumption DEF StreamAssumption, NoQueue
        <5> QED
          BY <5>1 DEF Enqueue
      <4>2. /\ cached \in 1..frames /\ frames \in Nat
            /\ NoFrame.id = 0 /\ Len(NoQueue.ids) = 0
        BY <3>3 DEF QueueInv, NoFrame, NoQueue
      <4>3. Follows(NoQueue, NoFrame, frames)
        BY <4>2, NoQueueFollows
      <4>4. Follows(Enqueue(NoQueue, cached), NoFrame, frames)
        BY <4>1, <4>2, <4>3, AppendFollows
      <4>5. /\ DOMAIN queue' = Clients
            /\ queue'[c] = Enqueue(NoQueue, cached)
            /\ \A d \in Clients : d # c => queue'[d] = queue[d]
        BY <2>1, <3>3 DEF QueueInv
      <4> QED
        BY <2>1, <3>1, <4>4, <4>5 DEF QueueInv
    <3> QED
      BY <2>3, <3>2, <3>3
  <2> QED
    BY <1>4, <2>2, <2>3 DEF Subscribe
<1>5. ASSUME NEW c \in Clients, Leaves(c)
      PROVE  QueueInv'
  BY <1>5, QueueKept DEF Leaves, broadcaster
<1>6. ASSUME NEW c \in Clients, NEW max \in 1..FrameLen, Read(c, max)
      PROVE  QueueInv'
  <2> DEFINE q == queue[c]
             avail == FrameLen - q.pos
             n == IF avail < max THEN avail ELSE max
             now == [id |-> q.ids[1], pieces |-> q.pos + n]
  <2>1. /\ q.ids # <<>> /\ Follows(q, last[c], frames) /\ frames \in Nat
        /\ UNCHANGED <<frames, cached, emit>>
        /\ \A d \in Clients : conn'[d] = "none" => conn[d] = "none" /\ d # c
    BY <1>6 DEF Read, QueueInv, broadcaster, Sent, ConnInv
  <2>2. /\ DOMAIN queue' = Clients
        /\ queue'[c] = IF n = avail THEN DropOldest(q)
                       ELSE [q EXCEPT !.pos = @ + n]
        /\ \A d \in Clients : d # c => queue'[d] = queue[d]
    BY <1>6 DEF Read, QueueInv
  <2>3. /\ DOMAIN last' = Clients /\ last'[c] = now
        /\ \A d \in Clients : d # c => last'[d] = last[d]
    BY <1>6 DEF Read, QueueInv
  <2>4. Follows(queue'[c], now, frames)
    <3>1. CASE n = avail
      BY <2>1, <2>2, <3>1, DropFollows
    <3>2. CASE n # avail
      <4>1. /\ q \in [ids : Seq(Nat), pos : 0..(FrameLen - 1)]
            /\ FrameLen \in Nat \ {0}
        BY <2>1, StreamAssumption DEF Follows, StreamAssumption
      <4>2. n = max /\ q.pos + n \in 0..(FrameLen - 1)
        BY <3>2, <4>1, SMTT(30)
      <4>3. /\ queue'[c] = [q EXCEPT !.pos = @ + n]
            /\ queue'[c] \in [ids : Seq(Nat), pos : 0..(FrameLen - 1)]
            /\ queue'[c].ids = q.ids /\ queue'[c].pos = q.pos + n
        BY <2>2, <3>2, <4>1, <4>2
      <4>4. 1 \in 1..Len(q.ids)
        BY <2>1, <4>1
      <4>5. /\ now.id = q.ids[1] /\ now.pieces = q.pos + n
            /\ now.id \in 0..frames
        BY <2>1, <4>4 DEF Follows
      <4> HIDE DEF n, now, q
      <4>6. \A i \in 1..Len(q.ids) : i # 1 => now.id < q.ids[i]
        BY <2>1, <4>1, <4>4, <4>5 DEF Follows
      <4> QED
        BY <2>1, <4>3, <4>5, <4>6 DEF Follows
    <3> QED
      BY <3>1, <3>2
  <2> QED
    BY <2>1, <2>2, <2>3, <2>4 DEF QueueInv
<1>7. ASSUME NEW c \in Clients,
             ReadEnds(c) \/ Wait(c) \/ Woken(c) \/ TimedOut(c) \/ Detach(c)
      PROVE  QueueInv'
  BY <1>7, QueueKept
     DEF ReadEnds, Wait, Woken, TimedOut, Detach, Sent, broadcaster, ConnInv
<1>8. ASSUME NEW c \in Clients, Free(c)
      PROVE  QueueInv'
  <2>1. Follows(NoQueue, NoFrame, frames)
    BY NoQueueFollows DEF QueueInv
  <2>2. /\ UNCHANGED <<frames, cached, emit>>
        /\ DOMAIN queue' = Clients /\ DOMAIN last' = Clients
        /\ queue'[c] = NoQueue /\ last'[c] = NoFrame
        /\ \A d \in Clients : d # c =>
             queue'[d] = queue[d] /\ last'[d] = last[d] /\ conn'[d] = conn[d]
    BY <1>8 DEF Free, Forget, QueueInv, ConnInv, broadcaster
  <2> QED
    BY <2>1, <2>2 DEF QueueInv
<1>9. CASE ApiFails \/ GivesUp \/ WeatherStop \/ MonitorStop \/ ShutdownFree
  BY <1>9, JoinsKeep
     DEF ApiFails, GivesUp, WeatherStop, MonitorStop, ShutdownFree, broadcaster,
         client
<1>10. CASE ApiUp \/ SseShutdown \/ ApiStop \/ ApiStopped
  BY <1>10, QueueKept
     DEF ApiUp, SseShutdown, ApiStop, ApiStopped, broadcaster, client
<1>11. CASE Destroy
  <2>1. /\ cached' \in 0..frames
        /\ UNCHANGED <<frames, queue, last, conn, emit>>
    BY <1>11 DEF Destroy, QueueInv, client
  <2> QED
    BY <2>1 DEF QueueInv
<1>12. CASE UNCHANGED vars
  BY <1>12, QueueKept DEF vars, broadcaster, client
<1> QED
  BY <1>1, <1>2, <1>3, <1>4, <1>5, <1>6, <1>7, <1>8, <1>9, <1>10, <1>11, <1>12
     DEF Next, Emits, Serves, Teardown

\* What a client is sent next is later than what it was sent last, or more of
\* the same frame.
Advances(c) ==
  last'[c] # last[c] /\ last'[c].id # 0 =>
    \/ last'[c].id > last[c].id
    \/ last'[c].id = last[c].id /\ last'[c].pieces > last[c].pieces

\* What sse_subscriber_read sends comes from the head of the queue, which is
\* later than what was sent last or is the rest of it.
LEMMA ReadAdvances ==
  ASSUME QueueInv, NEW c \in Clients, NEW max \in 1..FrameLen, Read(c, max)
  PROVE  \A d \in Clients : Advances(d)
<1> DEFINE q == queue[c]
           avail == FrameLen - q.pos
           n == IF avail < max THEN avail ELSE max
<1>1. /\ last'[c] = [id |-> q.ids[1], pieces |-> q.pos + n]
      /\ \A d \in Clients : d # c => last'[d] = last[d]
      /\ q.ids # <<>> /\ Follows(q, last[c], frames)
  BY DEF Read, QueueInv
<1>2. /\ q \in [ids : Seq(Nat), pos : 0..(FrameLen - 1)]
      /\ FrameLen \in Nat \ {0}
  BY <1>1, StreamAssumption DEF Follows, StreamAssumption
<1>3. n \in Nat \ {0} /\ q.pos \in Nat
  BY <1>2
<1>4. 1 \in 1..Len(q.ids)
  BY <1>1, <1>2
<1>5. \/ last[c].id < q.ids[1]
      \/ last[c].id = q.ids[1] /\ last[c].pieces = q.pos
  BY <1>1, <1>4 DEF Follows
<1>6. q.ids[1] \in Nat /\ last[c].id \in Nat
  BY <1>1, <1>2, <1>4, StreamAssumption DEF Follows, QueueInv
<1> HIDE DEF n, q
<1>7. last'[c].id = q.ids[1] /\ last'[c].pieces = q.pos + n
  BY <1>1
<1>8. Advances(c)
  BY <1>3, <1>5, <1>6, <1>7 DEF Advances
<1> QED
  BY <1>1, <1>8 DEF Advances

LEMMA StepAdvances ==
  QueueInv /\ [Next]_vars => [\A c \in Clients : Advances(c)]_last
<1> SUFFICES ASSUME QueueInv, [Next]_vars
             PROVE  [\A c \in Clients : Advances(c)]_last
  OBVIOUS
<1>1. ASSUME NEW e \in Emitters, Begin(e) \/ Emits(e)
      PROVE  UNCHANGED last
  BY <1>1 DEF Begin, Emits, Broadcast, Cache, client
<1>2. ASSUME NEW c \in Clients, Subscribe(c) \/ Leaves(c)
      PROVE  UNCHANGED last
  BY <1>2 DEF Subscribe, Leaves
<1>3. ASSUME NEW c \in Clients, Serves(c)
      PROVE  [\A d \in Clients : Advances(d)]_last
  <2>1. ASSUME NEW max \in 1..FrameLen, Read(c, max)
        PROVE  \A d \in Clients : Advances(d)
    BY <2>1, ReadAdvances
  <2>2. CASE ReadEnds(c) \/ Wait(c) \/ Woken(c) \/ TimedOut(c) \/ Detach(c)
    BY <2>2 DEF ReadEnds, Wait, Woken, TimedOut, Detach
  <2>3. CASE Free(c)
    <3>1. \A d \in Clients : last'[d] = last[d] \/ last'[d].id = 0
      BY <2>3 DEF Free, Forget, NoFrame, QueueInv
    <3> QED
      BY <3>1 DEF Advances
  <2> QED
    BY <1>3, <2>1, <2>2, <2>3 DEF Serves
<1>4. ApiUp \/ ApiFails \/ WeatherStop \/ Teardown => UNCHANGED last
  BY DEF ApiUp, ApiFails, WeatherStop, Teardown, GivesUp, SseShutdown, ApiStop,
     ApiStopped, MonitorStop, ShutdownFree, Destroy, client
<1>5. UNCHANGED vars => UNCHANGED last
  BY DEF vars, client
<1> QED
  BY <1>1, <1>2, <1>3, <1>4, <1>5 DEF Next

\* A client gets the frames of the stream in the order they were emitted and
\* no piece of one twice, whatever is dropped from its queue and whenever it
\* subscribed (sse_subscriber_read, subscriber_enqueue_locked,
\* sse_handle_stream).
THEOREM FramesInOrder == Spec => InOrder
<1>1. Init => QueueInv /\ ConnInv
  BY QueueInit, ConnInit
<1>2. QueueInv /\ ConnInv /\ [Next]_vars => QueueInv' /\ ConnInv'
  BY QueueStep, ConnStep
<1>3. QueueInv /\ [Next]_vars
        => [\A c \in Clients :
              last'[c] # last[c] /\ last'[c].id # 0 =>
                \/ last'[c].id > last[c].id
                \/ last'[c].id = last[c].id
                   /\ last'[c].pieces > last[c].pieces]_last
  BY StepAdvances DEF Advances
<1> QED
  BY <1>1, <1>2, <1>3, PTL DEF Spec, InOrder

-----------------------------------------------------------------------------
(* Limits *)

\* No more connections are attached than there are slots, and no queue is
\* longer than its depth.
LimitInv ==
  /\ IsFiniteSet(subs) /\ Cardinality(subs) <= SSE_MAX_SUBSCRIBERS
  /\ \A c \in Clients : Len(queue[c].ids) <= SSE_QUEUE_DEPTH

LEMMA LimitInit == Init => LimitInv
<1> SUFFICES ASSUME Init PROVE LimitInv
  OBVIOUS
<1>1. IsFiniteSet(subs) /\ Cardinality(subs) = 0
  BY FS_EmptySet DEF Init
<1>2. \A c \in Clients : Len(queue[c].ids) = 0
  BY DEF Init, NoQueue
<1> QED
  BY <1>1, <1>2, StreamAssumption DEF LimitInv, StreamAssumption

LEMMA TailShorter ==
  ASSUME NEW s \in Seq(Nat), s # <<>>
  PROVE  Tail(s) \in Seq(Nat) /\ Len(Tail(s)) = Len(s) - 1 /\ Len(s) \in Nat \ {0}
OBVIOUS

\* A full queue loses its oldest frame to the new one.
LEMMA EnqueueFits ==
  ASSUME NEW q, q.ids \in Seq(Nat), q \in [ids : Seq(Nat), pos : 0..(FrameLen - 1)],
         Len(q.ids) <= SSE_QUEUE_DEPTH, NEW id \in Nat
  PROVE  Len(Enqueue(q, id).ids) <= SSE_QUEUE_DEPTH
<1> DEFINE room == IF Len(q.ids) = SSE_QUEUE_DEPTH THEN DropOldest(q) ELSE q
<1>1. SSE_QUEUE_DEPTH \in Nat \ {0} /\ Len(q.ids) \in Nat
  BY StreamAssumption DEF StreamAssumption
<1>2. room.ids \in Seq(Nat) /\ Len(room.ids) < SSE_QUEUE_DEPTH
  <2>1. CASE Len(q.ids) = SSE_QUEUE_DEPTH
    <3>1. room.ids = Tail(q.ids) /\ q.ids # <<>>
      BY <1>1, <2>1 DEF DropOldest
    <3>2. Tail(q.ids) \in Seq(Nat) /\ Len(Tail(q.ids)) = Len(q.ids) - 1
      BY <3>1, TailShorter
    <3>3. Len(q.ids) - 1 < SSE_QUEUE_DEPTH
      BY <1>1, <2>1
    <3> QED
      BY <2>1, <3>1, <3>2, <3>3
  <2> QED
    BY <1>1, <2>1
<1>3. room \in [ids : Seq(Nat), pos : 0..(FrameLen - 1)]
  <2>1. 0 \in 0..(FrameLen - 1)
    BY StreamAssumption DEF StreamAssumption
  <2> QED
    BY <1>2, <2>1 DEF DropOldest
<1> HIDE DEF room
<1>4. Enqueue(q, id).ids = Append(room.ids, id)
  BY <1>3 DEF Enqueue, room
<1> QED
  BY <1>1, <1>2, <1>4

\* A queue that is kept or shortened, and slots that are kept or given up
LEMMA LimitKept ==
  ASSUME LimitInv, subs' \subseteq subs,
         \A c \in Clients : Len(queue'[c].ids) <= SSE_QUEUE_DEPTH
  PROVE  LimitInv'
<1>1. /\ IsFiniteSet(subs') /\ Cardinality(subs') <= Cardinality(subs)
      /\ Cardinality(subs') \in Nat /\ Cardinality(subs) \in Nat
  BY FS_Subset, FS_CardinalityType DEF LimitInv
<1> QED
  BY <1>1, StreamAssumption DEF LimitInv, StreamAssumption

LEMMA LimitStep == LimitInv /\ QueueInv /\ ConnInv /\ [Next]_vars => LimitInv'
<1> SUFFICES ASSUME LimitInv, QueueInv, ConnInv, [Next]_vars PROVE LimitInv'
  OBVIOUS
<1>0. SSE_QUEUE_DEPTH \in Nat \ {0} /\ SSE_MAX_SUBSCRIBERS \in Nat \ {0}
  BY StreamAssumption DEF StreamAssumption
<1>1. \A c \in Clients : /\ queue[c] \in [ids : Seq(Nat), pos : 0..(FrameLen - 1)]
                         /\ queue[c].ids \in Seq(Nat)
                         /\ Len(queue[c].ids) <= SSE_QUEUE_DEPTH
  BY DEF LimitInv, QueueInv, Follows
<1>2. ASSUME UNCHANGED queue, subs' \subseteq subs PROVE LimitInv'
  BY <1>1, <1>2, LimitKept
<1>3. ASSUME NEW e \in Emitters, Broadcast(e) PROVE LimitInv'
  <2>1. /\ frames' = frames + 1 /\ frames + 1 \in Nat /\ subs' = subs
    BY <1>3 DEF Broadcast, QueueInv, broadcaster
  <2>2. PICK got \in SUBSET {c \in subs : ~closed[c]} :
          queue' = [c \in Clients |->
                      IF c \in got THEN Enqueue(queue[c], frames + 1) ELSE queue[c]]
    BY <1>3, <2>1 DEF Broadcast, Fanout
  <2>3. ASSUME NEW c \in Clients PROVE Len(queue'[c].ids) <= SSE_QUEUE_DEPTH
    <3>1. Len(Enqueue(queue[c], frames + 1).ids) <= SSE_QUEUE_DEPTH
      BY <1>1, <2>1, EnqueueFits
    <3>2. queue'[c] = Enqueue(queue[c], frames + 1) \/ queue'[c] = queue[c]
      BY <2>2
    <3> QED
      BY <1>1, <3>1, <3>2
  <2> QED
    BY <2>1, <2>3, LimitKept
<1>4. ASSUME NEW c \in Clients, Subscribe(c) PROVE LimitInv'
  <2>1. CASE shutting \/ Cardinality(subs) >= SSE_MAX_SUBSCRIBERS
    BY <1>2, <1>4, <2>1 DEF Subscribe
  <2>2. CASE ~(shutting \/ Cardinality(subs) >= SSE_MAX_SUBSCRIBERS)
    <3>1. subs' = subs \cup {c} /\ cached \in Nat
      BY <1>4, <2>2 DEF Subscribe, QueueInv
    <3>2. Cardinality(subs) \in Nat /\ Cardinality(subs) < SSE_MAX_SUBSCRIBERS
      BY <1>0, <2>2, FS_CardinalityType DEF LimitInv
    <3>3. /\ IsFiniteSet(subs')
          /\ Cardinality(subs') = Cardinality(subs)
             \/ Cardinality(subs') = Cardinality(subs) + 1
      BY <3>1, FS_AddElement DEF LimitInv
    <3>4. UNCHANGED queue \/ queue' = [queue EXCEPT ![c] = Enqueue(@, cached)]
      BY <1>4, <2>2 DEF Subscribe
    <3>5. Len(Enqueue(queue[c], cached).ids) <= SSE_QUEUE_DEPTH
      BY <1>1, <3>1, EnqueueFits
    <3>6. \A d \in Clients : Len(queue'[d].ids) <= SSE_QUEUE_DEPTH
      BY <1>1, <3>4, <3>5 DEF QueueInv
    <3> QED
      BY <1>0, <3>2, <3>3, <3>6 DEF LimitInv
  <2> QED
    BY <2>1, <2>2
<1>5. ASSUME NEW c \in Clients, NEW max \in 1..FrameLen, Read(c, max) PROVE LimitInv'
  <2>1. subs' = subs /\ queue[c].ids # <<>>
    BY <1>5 DEF Read, broadcaster
  <2>2. /\ \A d \in Clients \ {c} : queue'[d] = queue[d]
        /\ queue'[c].ids = queue[c].ids \/ queue'[c].ids = Tail(queue[c].ids)
    BY <1>1, <1>5 DEF Read, QueueInv, DropOldest
  <2>3. Len(queue'[c].ids) <= SSE_QUEUE_DEPTH
    <3>1. /\ Len(Tail(queue[c].ids)) = Len(queue[c].ids) - 1
          /\ Len(queue[c].ids) \in Nat \ {0} /\ Len(queue[c].ids) <= SSE_QUEUE_DEPTH
      BY <1>1, <2>1, TailShorter
    <3>2. CASE queue'[c].ids = queue[c].ids
      BY <3>1, <3>2
    <3>3. CASE queue'[c].ids = Tail(queue[c].ids)
      <4>1. Len(queue'[c].ids) = Len(queue[c].ids) - 1
        BY <3>1, <3>3
      <4> QED
        BY <1>0, <3>1, <4>1
    <3> QED
      BY <2>2, <3>2, <3>3
  <2> QED
    BY <1>1, <2>1, <2>2, <2>3, LimitKept
<1>6. ASSUME NEW c \in Clients, Free(c) PROVE LimitInv'
  <2>1. /\ subs' = subs
        /\ \A d \in Clients : queue'[d] = queue[d] \/ queue'[d] = NoQueue
    BY <1>6 DEF Free, Forget, QueueInv, broadcaster
  <2>2. Len(NoQueue.ids) = 0
    BY DEF NoQueue
  <2> QED
    BY <1>0, <1>1, <2>1, <2>2, LimitKept
<1>7. ASSUME NEW c \in Clients,
             \/ Leaves(c) \/ ReadEnds(c) \/ Wait(c) \/ Woken(c) \/ TimedOut(c)
             \/ Detach(c)
      PROVE  LimitInv'
  <2>1. UNCHANGED queue /\ subs' \subseteq subs
    BY <1>7 DEF Leaves, ReadEnds, Wait, Woken, TimedOut, Detach, broadcaster
  <2> QED
    BY <1>2, <2>1
<1>8. ASSUME NEW e \in Emitters, Begin(e) \/ Cache(e) PROVE LimitInv'
  <2>1. UNCHANGED <<queue, subs>>
    BY <1>8 DEF Begin, Cache, broadcaster, client
  <2> QED
    BY <1>2, <2>1
<1>9. CASE ApiUp \/ ApiFails \/ WeatherStop \/ Teardown
  <2>1. UNCHANGED <<queue, subs>>
    BY <1>9
       DEF ApiUp, ApiFails, WeatherStop, Teardown, GivesUp, SseShutdown, ApiStop,
           ApiStopped, MonitorStop, ShutdownFree, Destroy, broadcaster, client
  <2> QED
    BY <1>2, <2>1
<1>10. CASE UNCHANGED vars
  BY <1>2, <1>10 DEF vars, broadcaster, client
<1> QED
  BY <1>3, <1>4, <1>5, <1>6, <1>7, <1>8, <1>9, <1>10 DEF Next, Emits, Serves

\* For any number of connections and frames the slots and the queues keep to
\* their limits, and the slots are those of the connections that are served.
THEOREM StreamTypeCorrect == Spec => []TypeOK
<1>1. Init => QueueInv /\ ConnInv /\ LimitInv
  BY QueueInit, ConnInit, LimitInit
<1>2. QueueInv /\ ConnInv /\ LimitInv /\ [Next]_vars
        => QueueInv' /\ ConnInv' /\ LimitInv'
  BY QueueStep, ConnStep, LimitStep
<1>3. QueueInv /\ ConnInv /\ LimitInv => TypeOK
  <2> SUFFICES ASSUME QueueInv, ConnInv, LimitInv PROVE TypeOK
    OBVIOUS
  <2>1. \A c \in Clients :
          /\ conn[c] \in {"none", "reading", "waiting", "closing", "detached"}
          /\ conn[c] \in {"reading", "waiting", "closing"} <=> c \in subs
    BY DEF ConnInv, Places, Attached
  <2>2. \A c \in Clients : queue[c].pos \in 0..FrameLen-1
    BY DEF QueueInv, Follows
  <2>3. subs \subseteq Clients /\ cached \in 0..frames
    BY DEF ConnInv, QueueInv
  <2> QED
    BY <2>1, <2>2, <2>3 DEF TypeOK, LimitInv
<1> QED
  BY <1>1, <1>2, <1>3, PTL DEF Spec

-----------------------------------------------------------------------------
(* The end of the broadcaster *)

\* The stages of main from the join of a thread on, up to the end of the
\* broadcaster
Past ==
  [weather_stop |-> {"weather_stop", "sse_shutdown", "api_stop", "api_stopped",
                     "monitor_stop", "shutdown_free"},
   monitor_stop |-> {"monitor_stop", "shutdown_free"},
   shutdown_free |-> {"shutdown_free"}]

\* Once the API server is stopped there is no connection, and once main has
\* joined a thread that emits it emits no more.
LifeInv ==
  /\ DOMAIN emit = Emitters
  /\ destroyed => main = "done"
  /\ main \in {"api_stopped", "monitor_stop", "shutdown_free"} \/ destroyed =>
       \A c \in Clients : conn[c] = "none"
  /\ \A e \in Emitters :
       main \in Past[JoinedBy[e]] \/ destroyed => emit[e] = Ended

LEMMA JoinedByRange ==
  ASSUME NEW e \in Emitters
  PROVE  /\ JoinedBy[e] \in {"weather_stop", "monitor_stop", "shutdown_free"}
         /\ "start" \notin Past[JoinedBy[e]]
         /\ "serving" \notin Past[JoinedBy[e]]
         /\ "giving_up" \notin Past[JoinedBy[e]]
         /\ "done" \notin Past[JoinedBy[e]]
<1>1. JoinedBy[e] \in {"weather_stop", "monitor_stop", "shutdown_free"}
  BY EmittersAssumption DEF EmittersAssumption, JoinedBy
<1> QED
  BY <1>1 DEF Past

LEMMA LifeInit == Init => LifeInv
BY JoinedByRange DEF Init, LifeInv

\* A stage of main in which it joins threads
LEMMA JoinsLife ==
  ASSUME LifeInv, NEW step, Joins(step), UNCHANGED <<conn, destroyed>>,
         destroyed => FALSE,
         main' \in {"api_stopped", "monitor_stop", "shutdown_free"} =>
           \A c \in Clients : conn[c] = "none",
         \A e \in Emitters : main' \in Past[JoinedBy[e]] =>
           main \in Past[JoinedBy[e]] \/ JoinedBy[e] = step
  PROVE  LifeInv'
BY DEF LifeInv, Joins

LEMMA LifeStep == LifeInv /\ ConnInv /\ [Next]_vars => LifeInv'
<1> SUFFICES ASSUME LifeInv, ConnInv, [Next]_vars PROVE LifeInv'
  OBVIOUS
<1>1. ASSUME NEW e \in Emitters, Begin(e) \/ Emits(e)
      PROVE  LifeInv'
  <2>1. /\ UNCHANGED <<main, destroyed, conn>>
        /\ DOMAIN emit' = Emitters /\ emit[e] # Ended
        /\ \A f \in Emitters : f # e => emit'[f] = emit[f]
    BY <1>1
       DEF Begin, Emits, Broadcast, Cache, broadcaster, client, LifeInv, Idle,
           Ended
  <2> QED
    BY <2>1 DEF LifeInv
<1>2. ASSUME NEW c \in Clients, Subscribe(c)
      PROVE  LifeInv'
  BY <1>2 DEF Subscribe, LifeInv
<1>3. ASSUME NEW c \in Clients, Leaves(c) \/ Serves(c)
      PROVE  LifeInv'
  <2>1. /\ UNCHANGED <<main, destroyed, emit>>
        /\ \A d \in Clients : conn[d] = "none" => conn'[d] = "none"
    BY <1>3
       DEF Leaves, Serves, Read, ReadEnds, Wait, Woken, TimedOut, Detach, Free,
           Sent, broadcaster, ConnInv
  <2> QED
    BY <2>1 DEF LifeInv
<1>4. CASE ApiUp \/ SseShutdown \/ ApiStop \/ ApiStopped
  <2>1. /\ UNCHANGED <<destroyed, emit, conn>> /\ ~destroyed
        /\ main' = "api_stopped" => \A c \in Clients : conn[c] = "none"
        /\ main' \notin {"monitor_stop", "shutdown_free"}
    BY <1>4
       DEF ApiUp, SseShutdown, ApiStop, ApiStopped, Goes, broadcaster, client,
           LifeInv
  <2>2. ASSUME NEW e \in Emitters, main' \in Past[JoinedBy[e]]
        PROVE  main \in Past[JoinedBy[e]]
    BY <1>4, <2>2, JoinedByRange
       DEF ApiUp, SseShutdown, ApiStop, ApiStopped, Goes, Past
  <2> QED
    BY <2>1, <2>2 DEF LifeInv
<1>5. CASE ApiFails \/ GivesUp \/ WeatherStop
  <2>1. PICK step : Joins(step) /\ (step = "weather_stop" \/ ~WeatherStop)
    BY <1>5 DEF ApiFails, GivesUp, WeatherStop
  <2>2. /\ UNCHANGED <<conn, destroyed>> /\ ~destroyed
        /\ main' \in {"giving_up", "done", "weather_stop"}
        /\ main' = "weather_stop" => WeatherStop
    BY <1>5
       DEF ApiFails, GivesUp, WeatherStop, Goes, broadcaster, client, LifeInv
  <2>3. \A e \in Emitters : main' \in Past[JoinedBy[e]] => JoinedBy[e] = step
    BY <2>1, <2>2, JoinedByRange DEF Past
  <2> QED
    BY <2>1, <2>2, <2>3, JoinsLife
<1>6. CASE MonitorStop
  <2>1. /\ Joins("monitor_stop") /\ UNCHANGED <<conn, destroyed>>
        /\ main = "api_stopped" /\ main' = "monitor_stop"
        /\ ~destroyed /\ \A c \in Clients : conn[c] = "none"
    BY <1>6 DEF MonitorStop, Goes, broadcaster, client, LifeInv
  <2>2. \A e \in Emitters : main' \in Past[JoinedBy[e]] =>
          main \in Past[JoinedBy[e]] \/ JoinedBy[e] = "monitor_stop"
    BY <2>1, JoinedByRange DEF Past
  <2> QED
    BY <2>1, <2>2, JoinsLife
<1>7. CASE ShutdownFree
  <2>1. /\ Joins("shutdown_free") /\ UNCHANGED <<conn, destroyed>>
        /\ main = "monitor_stop" /\ main' = "shutdown_free"
        /\ ~destroyed /\ \A c \in Clients : conn[c] = "none"
    BY <1>7 DEF ShutdownFree, Goes, broadcaster, client, LifeInv
  <2>2. \A e \in Emitters : main' \in Past[JoinedBy[e]] =>
          main \in Past[JoinedBy[e]] \/ JoinedBy[e] = "shutdown_free"
    BY <2>1, JoinedByRange DEF Past
  <2> QED
    BY <2>1, <2>2, JoinsLife
<1>8. CASE Destroy
  <2>1. /\ UNCHANGED <<emit, conn>> /\ main = "shutdown_free"
        /\ main' = "done" /\ \A c \in Clients : conn[c] = "none"
    BY <1>8 DEF Destroy, Goes, client, LifeInv
  <2>2. \A e \in Emitters : main \in Past[JoinedBy[e]]
    BY <2>1, JoinedByRange DEF Past
  <2> QED
    BY <2>1, <2>2 DEF LifeInv
<1>9. CASE UNCHANGED vars
  BY <1>9 DEF LifeInv, vars, broadcaster, client
<1> QED
  BY <1>1, <1>2, <1>3, <1>4, <1>5, <1>6, <1>7, <1>8, <1>9 DEF Next, Teardown

\* When main destroys the broadcaster no connection is attached to it and no
\* thread is about to emit, from then on for ever (main.c:360-370).
THEOREM BroadcasterOutlivesUse == Spec => []DestroyedUnused
<1>1. Init => LifeInv /\ ConnInv
  BY LifeInit, ConnInit
<1>2. LifeInv /\ ConnInv /\ [Next]_vars => LifeInv' /\ ConnInv'
  BY LifeStep, ConnStep
<1>3. LifeInv /\ ConnInv => DestroyedUnused
  BY DEF LifeInv, ConnInv, DestroyedUnused, Attached
<1> QED
  BY <1>1, <1>2, <1>3, PTL DEF Spec

=============================================================================
