---------------------------- MODULE EventStream ----------------------------
(***************************************************************************)
(* The live event stream (src/src/api/sse.c), the streaming responses that *)
(* serve it (src/src/api/server.c) and the daemon that starts and tears    *)
(* down the threads around it (src/src/daemon/main.c).                     *)
(*                                                                         *)
(* A broadcast holds the mutex of the broadcaster throughout and is one    *)
(* step; so is what a reader does from one wait to the next under the      *)
(* mutex of its subscriber.  A frame is FrameLen pieces, of which one call *)
(* of the reader returns as many as its buffer takes.  libmicrohttpd has a *)
(* thread per connection: it calls the reader until that returns -1 or the *)
(* client is found to be gone, then cleans up.                             *)
(***************************************************************************)
EXTENDS Integers, Sequences, FiniteSets

CONSTANTS
  Clients,        \* the connections
  Emitters,       \* the threads that emit
  SSE_MAX_SUBSCRIBERS, SSE_QUEUE_DEPTH,
  FrameLen,       \* the pieces of a frame
  MaxFrames, MaxConnects \* bounds on what is emitted and on connections

ASSUME StreamAssumption ==
  /\ {SSE_MAX_SUBSCRIBERS, SSE_QUEUE_DEPTH, FrameLen} \subseteq Nat \ {0}
  /\ {MaxFrames, MaxConnects} \subseteq Nat

\* The step of the teardown that joins a thread
JoinedBy ==
  [weather |-> "weather_stop", slow |-> "monitor_stop", fast |-> "monitor_stop",
   worker |-> "shutdown_free"]

ASSUME EmittersAssumption == Emitters \subseteq DOMAIN JoinedBy

VARIABLES
  main,          \* where main stands
  shutting, destroyed, \* the broadcaster
  cached,        \* the cached state frame, 0 for none
  subs,          \* the connections attached to it
  conn,          \* per connection, where its thread stands
  queue,         \* its frames, the oldest first, and how much of that is sent
  closed,        \* the flag of its subscriber
  emit,          \* per emitter, the frame on its way, none, or "ended"
  \* history
  gone,          \* the client has closed the connection
  last,          \* the frame its client got a piece of last, and how many
  frames, connects

broadcaster == <<shutting, destroyed, cached, subs>>
client == <<conn, queue, closed, gone, last>>
vars == <<main, broadcaster, client, emit, frames, connects>>

Idle == [id |-> 0, at |-> "idle"]
Ended == [id |-> 0, at |-> "ended"]
NoQueue == [ids |-> <<>>, pos |-> 0]
NoFrame == [id |-> 0, pieces |-> 0]

Init ==
  /\ main = "start" /\ shutting = FALSE /\ destroyed = FALSE
  /\ cached = 0 /\ subs = {}
  /\ conn = [c \in Clients |-> "none"]
  /\ queue = [c \in Clients |-> NoQueue]
  /\ closed = [c \in Clients |-> FALSE]
  /\ emit = [e \in Emitters |-> Idle]
  /\ gone = [c \in Clients |-> FALSE]
  /\ last = [c \in Clients |-> NoFrame]
  /\ frames = 0 /\ connects = 0

-----------------------------------------------------------------------------
(* Queues *)

\* subscriber_drop_oldest, with what of it is sent
DropOldest(q) == [ids |-> Tail(q.ids), pos |-> 0]

\* subscriber_enqueue_locked
Enqueue(q, id) ==
  LET room == IF Len(q.ids) = SSE_QUEUE_DEPTH THEN DropOldest(q) ELSE q
  IN [room EXCEPT !.ids = Append(@, id)]

-----------------------------------------------------------------------------
(* Emitters *)

\* A thread begins to emit, within the monitor; the slow loop emits states as
\* well as events.
Begin(e) ==
  /\ emit[e] = Idle /\ frames < MaxFrames
  /\ \E kind \in {"event"} \cup (IF e = "slow" THEN {"state"} ELSE {}) :
       emit' = [emit EXCEPT ![e] = [id |-> 0, at |-> kind]]
  /\ UNCHANGED <<main, broadcaster, client, frames, connects>>

\* broadcast_frame: every subscriber that is not closed gets a copy, but for
\* those there is no memory for.
Fanout(id) ==
  \E got \in SUBSET {c \in subs : ~closed[c]} :
    queue' = [c \in Clients |->
                IF c \in got THEN Enqueue(queue[c], id) ELSE queue[c]]

\* A faulty Broadcast, for the checks: a state is cached first.
BroadcastCached(e) ==
  \/ /\ emit[e].at = "state"
     /\ cached' = frames + 1 /\ frames' = frames + 1
     /\ emit' = [emit EXCEPT ![e] = [id |-> frames + 1, at |-> "cached"]]
     /\ UNCHANGED <<main, shutting, destroyed, subs, client, connects>>
  \/ /\ emit[e].at \in {"event", "cached"}
     /\ frames' = IF emit[e].at = "event" THEN frames + 1 ELSE frames
     /\ Fanout(IF emit[e].at = "event" THEN frames' ELSE emit[e].id)
     /\ emit' = [emit EXCEPT ![e] = Idle]
     /\ UNCHANGED <<main, broadcaster, conn, closed, gone, last, connects>>

Broadcast(e) ==
  /\ emit[e].at \in {"event", "state"}
  /\ frames' = frames + 1
  /\ Fanout(frames')
  /\ emit' = [emit EXCEPT ![e] =
       IF @.at = "event" THEN Idle ELSE [id |-> frames', at |-> "cache"]]
  /\ UNCHANGED <<main, broadcaster, conn, closed, gone, last, connects>>

\* sse_broadcaster_emit_cached, once the frame is broadcast
Cache(e) ==
  /\ emit[e].at = "cache" /\ cached' = emit[e].id
  /\ emit' = [emit EXCEPT ![e] = Idle]
  /\ UNCHANGED <<main, shutting, destroyed, subs, client, frames, connects>>

-----------------------------------------------------------------------------
(* Connections *)

\* The end of a subscription: nothing is kept.
Forget(c) ==
  /\ queue' = [queue EXCEPT ![c] = NoQueue]
  /\ closed' = [closed EXCEPT ![c] = FALSE]
  /\ gone' = [gone EXCEPT ![c] = FALSE]
  /\ last' = [last EXCEPT ![c] = NoFrame]

\* sse_handle_stream, for a request that is let in: with no slot left or the
\* broadcaster shutting down the answer is 503.  The first frame is the
\* cached one, when there is memory for it.  A response that cannot be made is
\* cleaned up at once.
Subscribe(c) ==
  /\ main \in {"serving", "weather_stop", "sse_shutdown"}
  /\ conn[c] = "none" /\ connects < MaxConnects /\ connects' = connects + 1
  /\ IF shutting \/ Cardinality(subs) >= SSE_MAX_SUBSCRIBERS
     THEN UNCHANGED <<subs, conn, queue>>
     ELSE /\ subs' = subs \cup {c}
          /\ \/ UNCHANGED queue
             \/ cached > 0
                /\ queue' = [queue EXCEPT ![c] = Enqueue(@, cached)]
          /\ \E answered \in BOOLEAN :
               conn' = [conn EXCEPT ![c] =
                          IF answered THEN "reading" ELSE "closing"]
  /\ UNCHANGED <<main, shutting, destroyed, cached, closed, emit, gone, last,
                 frames>>

\* What was read is written to the socket; that shows when the client is
\* gone.
Sent(c) == conn' = [conn EXCEPT ![c] = IF gone[c] THEN "closing" ELSE "reading"]

\* sse_subscriber_read, with room for `max' pieces
Read(c, max) ==
  LET q == queue[c]
      avail == FrameLen - q.pos
      n == IF avail < max THEN avail ELSE max
  IN /\ conn[c] = "reading" /\ q.ids # <<>>
     /\ queue' = [queue EXCEPT ![c] =
          IF n = avail THEN DropOldest(q) ELSE [q EXCEPT !.pos = @ + n]]
     /\ last' = [last EXCEPT ![c] = [id |-> q.ids[1], pieces |-> q.pos + n]]
     /\ Sent(c)
     /\ UNCHANGED <<main, broadcaster, closed, emit, gone, frames, connects>>

\* It returns -1.
ReadEnds(c) ==
  /\ conn[c] = "reading" /\ queue[c].ids = <<>> /\ closed[c]
  /\ conn' = [conn EXCEPT ![c] = "closing"]
  /\ UNCHANGED <<main, broadcaster, queue, closed, gone, last, emit, frames,
                 connects>>

\* Nothing is there: it waits.
Wait(c) ==
  /\ conn[c] = "reading" /\ queue[c].ids = <<>> /\ ~closed[c]
  /\ conn' = [conn EXCEPT ![c] = "waiting"]
  /\ UNCHANGED <<main, broadcaster, queue, closed, gone, last, emit, frames,
                 connects>>

\* It is woken by a frame or the end.
Woken(c) ==
  /\ conn[c] = "waiting" /\ (queue[c].ids # <<>> \/ closed[c])
  /\ conn' = [conn EXCEPT ![c] = "reading"]
  /\ UNCHANGED <<main, broadcaster, queue, closed, gone, last, emit, frames,
                 connects>>

\* A faulty TimedOut, for the checks: it goes on to wait.
TimedOutSilently(c) ==
  /\ conn[c] = "waiting" /\ conn' = [conn EXCEPT ![c] = "reading"]
  /\ UNCHANGED <<main, broadcaster, queue, closed, gone, last, emit, frames,
                 connects>>

\* The heartbeat, whatever has come in the meantime
TimedOut(c) ==
  /\ conn[c] = "waiting" /\ Sent(c)
  /\ UNCHANGED <<main, broadcaster, queue, closed, gone, last, emit, frames,
                 connects>>

\* sse_subscriber_close, as the cleanup of the response: the slot is given up
\* first, what is queued after that.
Detach(c) ==
  /\ conn[c] = "closing" /\ conn' = [conn EXCEPT ![c] = "detached"]
  /\ subs' = subs \ {c}
  /\ UNCHANGED <<main, shutting, destroyed, cached, queue, closed, gone, last,
                 emit, frames, connects>>
Free(c) ==
  /\ conn[c] = "detached" /\ conn' = [conn EXCEPT ![c] = "none"]
  /\ Forget(c)
  /\ UNCHANGED <<main, broadcaster, emit, frames, connects>>

\* The client closes the connection.
Leaves(c) ==
  /\ conn[c] \in {"reading", "waiting"} /\ ~gone[c]
  /\ gone' = [gone EXCEPT ![c] = TRUE]
  /\ UNCHANGED <<main, broadcaster, conn, queue, closed, last, emit, frames,
                 connects>>

-----------------------------------------------------------------------------
(* main *)

Goes(to) == main' = to

\* The threads joined by a step of the teardown have to be done with what they
\* emit.
Joins(step) ==
  /\ \A e \in Emitters : JoinedBy[e] = step => emit[e] \in {Idle, Ended}
  /\ emit' = [e \in Emitters |->
                IF JoinedBy[e] = step THEN Ended ELSE emit[e]]

\* The API server is up, with its routes.
ApiUp ==
  /\ main = "start" /\ Goes("serving")
  /\ UNCHANGED <<broadcaster, client, emit, frames, connects>>

\* It is not: main gives up, and leaves the broadcaster and the weather
\* thread be.
ApiFails ==
  /\ main = "start" /\ Goes("giving_up") /\ Joins("monitor_stop")
  /\ UNCHANGED <<broadcaster, client, frames, connects>>
GivesUp ==
  /\ main = "giving_up" /\ Goes("done") /\ Joins("shutdown_free")
  /\ UNCHANGED <<broadcaster, client, frames, connects>>

\* A signal ends the main loop.
WeatherStop ==
  /\ main = "serving" /\ Goes("weather_stop") /\ Joins("weather_stop")
  /\ UNCHANGED <<broadcaster, client, frames, connects>>

\* A faulty SseShutdown, for the checks: nobody is told.
SseShutdownQuiet ==
  /\ main = "weather_stop" /\ Goes("sse_shutdown") /\ shutting' = TRUE
  /\ UNCHANGED <<destroyed, cached, subs, client, emit, frames, connects>>

\* sse_broadcaster_shutdown
SseShutdown ==
  /\ main = "weather_stop" /\ Goes("sse_shutdown") /\ shutting' = TRUE
  /\ closed' = [c \in Clients |-> closed[c] \/ c \in subs]
  /\ UNCHANGED <<destroyed, cached, subs, conn, queue, gone, last, emit, frames,
                 connects>>

\* api_server_stop: nobody is let in any more, and the threads of the
\* connections are joined.
ApiStop ==
  /\ main = "sse_shutdown" /\ Goes("api_stop")
  /\ UNCHANGED <<broadcaster, client, emit, frames, connects>>
ApiStopped ==
  /\ main = "api_stop" /\ \A c \in Clients : conn[c] = "none"
  /\ Goes("api_stopped")
  /\ UNCHANGED <<broadcaster, client, emit, frames, connects>>

MonitorStop ==
  /\ main = "api_stopped" /\ Goes("monitor_stop") /\ Joins("monitor_stop")
  /\ UNCHANGED <<broadcaster, client, frames, connects>>

\* A faulty ShutdownFree, for the checks: the worker is not joined.
ShutdownFreeAtOnce ==
  /\ main = "monitor_stop" /\ Goes("shutdown_free")
  /\ UNCHANGED <<broadcaster, client, emit, frames, connects>>

ShutdownFree ==
  /\ main = "monitor_stop" /\ Goes("shutdown_free") /\ Joins("shutdown_free")
  /\ UNCHANGED <<broadcaster, client, frames, connects>>

\* sse_broadcaster_destroy
Destroy ==
  /\ main = "shutdown_free" /\ Goes("done") /\ destroyed' = TRUE /\ cached' = 0
  /\ UNCHANGED <<shutting, subs, client, emit, frames, connects>>

Teardown ==
  \/ GivesUp \/ SseShutdown \/ ApiStop \/ ApiStopped \/ MonitorStop
  \/ ShutdownFree \/ Destroy

-----------------------------------------------------------------------------
Emits(e) == Broadcast(e) \/ Cache(e)
Serves(c) ==
  \/ \E max \in 1..FrameLen : Read(c, max)
  \/ ReadEnds(c) \/ Wait(c) \/ Woken(c) \/ TimedOut(c) \/ Detach(c) \/ Free(c)

Next ==
  \/ \E e \in Emitters : Begin(e) \/ Emits(e)
  \/ \E c \in Clients : Subscribe(c) \/ Leaves(c) \/ Serves(c)
  \/ ApiUp \/ ApiFails \/ WeatherStop \/ Teardown

\* Threads run.  Nobody has to connect, to leave or to emit, and the daemon
\* need not end.
Fairness ==
  /\ \A e \in Emitters : WF_vars(Emits(e))
  /\ \A c \in Clients : WF_vars(Serves(c))
  /\ WF_vars(Teardown)

Spec == Init /\ [][Next]_vars /\ Fairness

-----------------------------------------------------------------------------
(* Properties *)

\* Type invariant.
TypeOK ==
  /\ subs \subseteq Clients /\ cached \in 0..frames
  /\ IsFiniteSet(subs) /\ Cardinality(subs) <= SSE_MAX_SUBSCRIBERS
  /\ \A c \in Clients :
       /\ Len(queue[c].ids) <= SSE_QUEUE_DEPTH /\ queue[c].pos \in 0..FrameLen-1
       /\ conn[c] \in {"none", "reading", "waiting", "closing", "detached"}
       /\ conn[c] \in {"reading", "waiting", "closing"} <=> c \in subs

\* A client gets the frames in the order they were emitted and none twice,
\* the one it is primed with included (sse.h:61-70).
InOrder ==
  [][\A c \in Clients :
       last'[c] # last[c] /\ last'[c].id # 0 =>
         \/ last'[c].id > last[c].id
         \/ last'[c].id = last[c].id /\ last'[c].pieces > last[c].pieces]_last

\* Nobody uses the broadcaster once it is destroyed: no connection is
\* attached and nobody is about to emit (sse.h:49-51, main.c:368-369).
DestroyedUnused ==
  destroyed => subs = {} /\ \A e \in Emitters : emit[e] = Ended

\* The slot of a client that has gone comes back, also when nothing is
\* emitted: the heartbeat finds out.
SlotsReturn == \A c \in Clients : (c \in subs /\ gone[c]) ~> c \notin subs

\* The teardown ends: every reader is woken, and every connection it waits
\* for is cleaned up (main.c:361-362).
StopEnds == (main = "weather_stop") ~> (main = "done")

\* A new client is given the latest state there is (Manual.md:379).
PrimedWithLatest ==
  [][\A c \in Clients, e \in Emitters :
       c \in subs' \ subs => emit[e].at # "cache"]_vars

\* A frame that was begun is finished before the next one begins
\* (sse.c:21-25).
FramesWhole ==
  [][\A c \in Clients :
       last'[c].id # last[c].id /\ last[c].id # 0 /\ last'[c].id # 0
         => last[c].pieces = FrameLen]_last
=============================================================================
