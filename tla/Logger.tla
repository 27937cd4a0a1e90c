------------------------------- MODULE Logger -------------------------------
(***************************************************************************)
(* src/logger/logger.cpp: the asynchronous logger, composed with its queue  *)
(* (BoundedBlockingQueue, every step of it) so that the races between       *)
(* log(), flush(), shutdown() and the writer thread are all there.          *)
(*                                                                          *)
(* A message is logged at most once, and each stream is installed once,     *)
(* which bounds the runs.  A message below minLevel() returns from log()    *)
(* before anything happens, and the format of a line decides nothing here:  *)
(* these are left out.  processed.wait() compares and sleeps in one step.   *)
(*                                                                          *)
(*   lpc[c]   idle; logging (inside queue.push), counting (++enqueued);     *)
(*            flushCheck, flushReload, flushWait, flushAsleep, flushed      *)
(*            (about to return from flush); closing, joining (shutdown)     *)
(*   wpc      loop, popping (inside queue.pop), write, put, count, notify,  *)
(*            exited                                                        *)
(***************************************************************************)
EXTENDS Naturals, Sequences, FiniteSets

CONSTANTS Clients,        \* the threads that log
          Main,           \* the client that calls shutdown() and setOutput()
          Worker,         \* Impl::thread
          Messages,
          Streams,        \* how many streams there are; std::cout is the first
          QueueCapacity,  \* 1000 in the code
          NoThread

\* std::nullopt is not a message, nor is a call that has no result yet.
ASSUME LoggerAssumption ==
  /\ IsFiniteSet(Clients) /\ Main \in Clients
  /\ Worker \notin Clients /\ NoThread \notin Clients \cup {Worker}
  /\ QueueCapacity \in Nat /\ Streams \in Nat \ {0}
  /\ Messages \cap {"none", "nullopt"} = {}

VARIABLES m_deque, m_closed, m_mutex, pc, arg, ret,   \* the queue
          lpc,         \* where each client is
          logged,      \* messages whose log() was called
          msg,         \* the message of a log() in progress
          enqueued,    \* Impl::enqueued
          pushed,      \* messages in the order of their insertion (history)
          finished,    \* messages enqueued by a log() that returned (history)
          wpc,         \* where the worker is
          cur,         \* the message it has in hand
          processed,   \* Impl::processed
          written,     \* messages in the order they were written (history)
          target,      \* flush(): the snapshot of enqueued
          seen,        \* flush(): the value processed.wait() is given
          owed,        \* flush(): the messages it is to cover (history)
          stale,       \* Main's flush(): the streams, up to this one, it is to free (history)
          output,      \* Impl::output
          via,         \* the stream the worker is writing to, 0 for none
          freed        \* the streams, up to this one, a flush() has freed (history)
queueVars == <<m_deque, m_closed, m_mutex, pc, arg, ret>>
logVars == <<logged, msg, enqueued, finished>>
workVars == <<wpc, cur, processed, written>>
flushVars == <<target, seen, owed, stale>>
streamVars == <<output, via, freed>>
vars == <<queueVars, lpc, pushed, logVars, workVars, flushVars, streamVars>>

Q == INSTANCE BoundedBlockingQueue
       WITH Threads <- Clients \cup {Worker}, Values <- Messages,
            Capacity <- QueueCapacity

None == "none"

Init ==
  /\ Q!Init
  /\ lpc = [c \in Clients |-> "idle"]
  /\ logged = {} /\ finished = {} /\ enqueued = 0
  /\ msg = [c \in Clients |-> None]
  /\ pushed = <<>> /\ written = <<>>
  /\ wpc = "loop" /\ cur = None /\ processed = 0
  /\ target = [c \in Clients |-> 0] /\ seen = [c \in Clients |-> 0]
  /\ owed = [c \in Clients |-> {}] /\ stale = 0
  /\ output = 1 /\ via = 0 /\ freed = 0

LGoto(c, l) == lpc' = [lpc EXCEPT ![c] = l]

-----------------------------------------------------------------------------
(* The threads inside the queue *)

\* A step of t inside push(), pop() or close(); an insertion is recorded.
QueueStep(t) ==
  /\ Q!Continue(t)
  /\ pushed' = IF Len(m_deque') > Len(m_deque) THEN Append(pushed, arg[t]) ELSE pushed
  /\ UNCHANGED <<lpc, logVars, workVars, flushVars, streamVars>>

QueueSpuriousWakeup(t) ==
  /\ Q!SpuriousWakeup(t)
  /\ UNCHANGED <<lpc, pushed, logVars, workVars, flushVars, streamVars>>

-----------------------------------------------------------------------------
(* log(): enqueue() pushes the message and then counts it *)

Log(c, m) ==
  /\ lpc[c] = "idle"
  /\ m \notin logged
  /\ Q!BeginEmplace(c, m)
  /\ logged' = logged \cup {m}
  /\ msg' = [msg EXCEPT ![c] = m]
  /\ LGoto(c, "logging")
  /\ UNCHANGED <<enqueued, finished, pushed, workVars, flushVars, streamVars>>

setOutput ==
  /\ lpc[Main] = "idle" /\ output < Streams
  /\ output' = output + 1
  /\ UNCHANGED <<queueVars, lpc, pushed, logVars, workVars, flushVars, via, freed>>

\* Mutant of PushReturned: enqueue() counts the message without looking at the
\* result of push().
PushReturnedUnchecked(c) ==
  /\ lpc[c] = "logging"
  /\ pc[c] = "idle"
  /\ LGoto(c, "counting")
  /\ UNCHANGED <<queueVars, logged, msg, enqueued, finished, pushed, workVars, flushVars, streamVars>>

PushReturned(c) ==
  /\ lpc[c] = "logging"
  /\ pc[c] = "idle"
  /\ IF ret[c] = "pushed"
       THEN LGoto(c, "counting") /\ UNCHANGED msg
       ELSE LGoto(c, "idle") /\ msg' = [msg EXCEPT ![c] = None]
  /\ UNCHANGED <<queueVars, logged, enqueued, finished, pushed, workVars, flushVars, streamVars>>

CountEnqueued(c) ==
  /\ lpc[c] = "counting"
  /\ enqueued' = enqueued + 1
  /\ finished' = finished \cup {msg[c]}
  /\ msg' = [msg EXCEPT ![c] = None]
  /\ LGoto(c, "idle")
  /\ UNCHANGED <<queueVars, logged, pushed, workVars, flushVars, streamVars>>

-----------------------------------------------------------------------------
(* worker() *)

CallPop ==
  /\ wpc = "loop"
  /\ Q!BeginPop(Worker)
  /\ wpc' = "popping"
  /\ UNCHANGED <<lpc, pushed, cur, processed, written, logVars, flushVars, streamVars>>

PopReturned ==
  /\ wpc = "popping"
  /\ pc[Worker] = "idle"
  /\ IF ret[Worker] = "nullopt"
       THEN wpc' = "exited" /\ UNCHANGED cur
       ELSE wpc' = "write" /\ cur' = ret[Worker]
  /\ UNCHANGED <<queueVars, lpc, pushed, processed, written, logVars, flushVars, streamVars>>

\* writeMessage() loads the stream, and writes to it afterwards.
LoadOutput ==
  /\ wpc = "write"
  /\ via' = output
  /\ wpc' = "put"
  /\ UNCHANGED <<queueVars, lpc, pushed, cur, processed, written, logVars, flushVars,
                 output, freed>>

WriteMessage ==
  /\ wpc = "put"
  /\ written' = Append(written, cur)
  /\ cur' = None /\ via' = 0
  /\ wpc' = "count"
  /\ UNCHANGED <<queueVars, lpc, pushed, processed, logVars, flushVars, output, freed>>

CountProcessed ==
  /\ wpc = "count"
  /\ processed' = processed + 1
  /\ wpc' = "notify"
  /\ UNCHANGED <<queueVars, lpc, pushed, cur, written, logVars, flushVars, streamVars>>

\* Mutant of NotifyFlushers: nobody is notified.
NotifyFlushersNone ==
  /\ wpc = "notify"
  /\ wpc' = "loop"
  /\ UNCHANGED <<queueVars, lpc, pushed, cur, processed, written, logVars, flushVars, streamVars>>

NotifyFlushers ==
  /\ wpc = "notify"
  /\ lpc' = [c \in Clients |-> IF lpc[c] = "flushAsleep" THEN "flushWait" ELSE lpc[c]]
  /\ wpc' = "loop"
  /\ UNCHANGED <<queueVars, pushed, cur, processed, written, logVars, flushVars, streamVars>>

-----------------------------------------------------------------------------
(* flush() *)

\* The callers whose message is in the queue and not in enqueued.
Uncounted ==
  {c \in Clients : lpc[c] = "counting" \/ (lpc[c] = "logging" /\ ret[c] = "pushed")}

\* What flush() promises it can keep only if nobody is between push and count.
BeginFlush(c) ==
  /\ lpc[c] = "idle"
  /\ target' = [target EXCEPT ![c] = enqueued]
  /\ owed' = [owed EXCEPT ![c] = IF Uncounted = {} THEN finished ELSE {}]
  /\ stale' = IF c # Main THEN stale ELSE IF Uncounted = {} THEN output - 1 ELSE 0
  /\ LGoto(c, "flushCheck")
  /\ UNCHANGED <<queueVars, pushed, seen, logVars, workVars, streamVars>>

\* Mutant of FlushCheck: one message too few.
FlushCheckOffByOne(c) ==
  /\ lpc[c] = "flushCheck"
  /\ LGoto(c, IF processed + 1 < target[c] THEN "flushReload" ELSE "flushed")
  /\ UNCHANGED <<queueVars, pushed, logVars, workVars, flushVars, streamVars>>

FlushCheck(c) ==
  /\ lpc[c] = "flushCheck"
  /\ LGoto(c, IF processed < target[c] THEN "flushReload" ELSE "flushed")
  /\ UNCHANGED <<queueVars, pushed, logVars, workVars, flushVars, streamVars>>

\* The argument of processed.wait() is loaded again, after the comparison.
FlushReload(c) ==
  /\ lpc[c] = "flushReload"
  /\ seen' = [seen EXCEPT ![c] = processed]
  /\ LGoto(c, "flushWait")
  /\ UNCHANGED <<queueVars, pushed, target, owed, stale, logVars, workVars, streamVars>>

FlushWait(c) ==
  /\ lpc[c] = "flushWait"
  /\ LGoto(c, IF processed = seen[c] THEN "flushAsleep" ELSE "flushCheck")
  /\ UNCHANGED <<queueVars, pushed, logVars, workVars, flushVars, streamVars>>

FlushReturn(c) ==
  /\ lpc[c] = "flushed"
  /\ LGoto(c, "idle")
  /\ target' = [target EXCEPT ![c] = 0]
  /\ seen' = [seen EXCEPT ![c] = 0]
  /\ owed' = [owed EXCEPT ![c] = {}] /\ stale' = IF c = Main THEN 0 ELSE stale
  /\ freed' = IF c = Main /\ stale > freed THEN stale ELSE freed
  /\ UNCHANGED <<queueVars, pushed, logVars, workVars, output, via>>

-----------------------------------------------------------------------------
(* shutdown(), called once; a second call would find nothing to join *)

BeginShutdown ==
  /\ lpc[Main] = "idle"
  /\ ~m_closed
  /\ Q!Close(Main)
  /\ LGoto(Main, "closing")
  /\ UNCHANGED <<pushed, logVars, workVars, flushVars, streamVars>>

CloseReturned ==
  /\ lpc[Main] = "closing"
  /\ pc[Main] = "idle"
  /\ LGoto(Main, "joining")
  /\ UNCHANGED <<queueVars, pushed, logVars, workVars, flushVars, streamVars>>

\* Mutant of Join: shutdown() detaches the worker.
JoinDetached ==
  /\ lpc[Main] = "joining"
  /\ LGoto(Main, "joined")
  /\ UNCHANGED <<queueVars, pushed, logVars, workVars, flushVars, streamVars>>

Join ==
  /\ lpc[Main] = "joining"
  /\ wpc = "exited"
  /\ LGoto(Main, "joined")
  /\ UNCHANGED <<queueVars, pushed, logVars, workVars, flushVars, streamVars>>

-----------------------------------------------------------------------------
WorkerStep == CallPop \/ PopReturned \/ LoadOutput \/ WriteMessage \/ CountProcessed \/ NotifyFlushers

Call(c) ==
  \/ \E m \in Messages : Log(c, m)
  \/ BeginFlush(c)
  \/ c = Main /\ (BeginShutdown \/ setOutput)

ClientStep(c) ==
  \/ PushReturned(c) \/ CountEnqueued(c)
  \/ FlushCheck(c) \/ FlushReload(c) \/ FlushWait(c) \/ FlushReturn(c)
  \/ c = Main /\ (CloseReturned \/ Join)

Next ==
  \/ WorkerStep
  \/ \E c \in Clients : Call(c) \/ ClientStep(c)
  \/ \E t \in Clients \cup {Worker} : QueueStep(t) \/ QueueSpuriousWakeup(t)

Spec == Init /\ [][Next]_vars

\* Every thread that can run is run, and the queue's mutex is granted to a
\* thread that keeps finding it free; nobody is obliged to call.
Fairness ==
  /\ WF_vars(WorkerStep)
  /\ \A c \in Clients : WF_vars(ClientStep(c))
  /\ \A t \in Clients \cup {Worker} : SF_vars(QueueStep(t))

FairSpec == Spec /\ Fairness

-----------------------------------------------------------------------------
(* Properties *)

LPCs == {"idle", "logging", "counting", "flushCheck", "flushReload", "flushWait",
         "flushAsleep", "flushed", "closing", "joining", "joined"}

\* Every variable of the logger keeps its type, the queue's included.
TypeOK ==
  /\ Q!TypeOK
  /\ lpc \in [Clients -> LPCs]
  /\ wpc \in {"loop", "popping", "write", "put", "count", "notify", "exited"}
  /\ msg \in [Clients -> Messages \cup {None}]
  /\ cur \in Messages \cup {None}
  /\ enqueued \in Nat /\ processed \in Nat
  /\ pushed \in Seq(Messages) /\ written \in Seq(Messages)
  /\ logged \subseteq Messages /\ finished \subseteq logged
  /\ target \in [Clients -> Nat] /\ seen \in [Clients -> Nat]
  /\ owed \in [Clients -> SUBSET Messages] /\ stale \in 0..Streams
  /\ output \in 1..Streams /\ via \in 0..Streams

\* The message the worker took out of the queue and has not written.
InHand == IF wpc \in {"write", "put"} THEN <<cur>>
          ELSE IF wpc = "popping" /\ ret[Worker] \in Messages THEN <<ret[Worker]>>
          ELSE <<>>

\* The worker writes the messages in the order in which they entered the queue,
\* each once, and loses none, also while the logger shuts down.
WrittenInOrder == written \o InHand \o m_deque = pushed

\* The counters (and the types): every message that entered the queue and was not counted by
\* its caller yet, or was not counted by the worker yet, is accounted for.
\* processed may run ahead of enqueued, by the callers between push and count.
CountersBalance ==
  /\ TypeOK
  /\ enqueued + Cardinality(Uncounted)
       = processed + (IF wpc = "count" THEN 1 ELSE 0) + Len(InHand) + Len(m_deque)

\* Once shutdown() has joined the worker, every message that entered the queue
\* is written and none enters any more.
ShutdownDrains == lpc[Main] = "joined" => m_deque = <<>> /\ written = pushed

\* A message that entered the queue is eventually written.
MessagesWritten ==
  \A m \in Messages :
    (\E i \in 1..Len(pushed) : pushed[i] = m) ~> (\E i \in 1..Len(written) : written[i] = m)

\* "Blocks until every message enqueued before the call is written" (logger.h,
\* line 87): when flush() returns, each message whose log() had returned by the
\* call is written, unless a caller was between push and count at that moment.
\* Then the count of a later message may stand in for an earlier one.  "After
\* flush() returns, the destination stream may safely be read or destroyed" (line
\* 89): under the same condition the worker does not write to a stream that
\* setOutput() had replaced before the flush().
FlushCovers ==
  /\ \A c \in Clients :
       lpc[c] = "flushed" => owed[c] \subseteq {written[i] : i \in 1..Len(written)}
  /\ wpc = "put" => via > freed

\* flush() returns, except when it goes to sleep on a count that has reached its
\* target: the last message was counted after the comparison and before the
\* argument of processed.wait() was loaded, and only a further message wakes it.
FlushReturns ==
  \A c \in Clients :
    lpc[c] = "flushCheck" ~> lpc[c] = "idle" \/ (lpc[c] = "flushAsleep" /\ seen[c] >= target[c])
=============================================================================
