--------------------------- MODULE AlarmPipeline ----------------------------
(***************************************************************************)
(* The way of an alarm from a device to the screen: snmp/trap_listener.py  *)
(* and streaming/producer.py in the backend, streaming/normalizer.py,      *)
(* streaming/correlator.py, and back in the backend streaming/ws_relay.py  *)
(* and ws.py; then the browser (frontend/src/App.jsx).                     *)
(*                                                                         *)
(* Three processes, three topics of one partition each, and no             *)
(* transaction that spans any two of them.  The model follows the traps of *)
(* one device, numbered in the order it sent them; "stored" is what the    *)
(* alarm store holds of the device, which is what the last trap handled    *)
(* said.  What a trap does to the store is the subject of IncidentWorkflow *)
(* and LinkBundles.                                                        *)
(***************************************************************************)
EXTENDS Naturals, Sequences

CONSTANTS
  Traps,       \* bound of the model: traps the device sends
  Failures     \* bound of the model: datagrams lost, crashes, failed sends
               \* and records that failed, all told

ASSUME PipelineAssumption == Traps \in Nat /\ Failures \in Nat

Trap == 1 .. Traps
None == 0

VARIABLES
  sent,           \* traps the device has sent
  threads,        \* traps in worker threads of the listener
  buffer,         \* the backend's producer: sent, not yet with the broker
  raw,            \* topic raw-alarms
  normalizer,     \* [at, committed, buffer]: offset read, offset committed as
                  \* far as a crash has shown it, and its producer
  norm,           \* topic norm-alarms
  correlator,     \* [at, committed, stored, buffer]: as above; stored says
                  \* that the record at hand is in the store, its event not sent
  stored,         \* the last trap written to the alarm store
  events,         \* topic incident-events
  relay,          \* [at, committed]: the backend's relay thread
  broadcasting,   \* events being sent to the browser
  screen,         \* what the browser shows
  resync,         \* what the browser's reload, under way, has read
  failures,       \* failures so far
  lost,           \* history: traps given up on before they were in norm-alarms;
                  \* only one the normalizer reads again may still get there
  failed,         \* history: traps the correlator failed to handle
  handled         \* history: traps written to the store at least once

pipelineVars == <<sent, threads, buffer, raw, normalizer, norm, correlator, stored,
                  events, relay, broadcasting, screen, resync, failures, lost, failed, handled>>

backend   == <<threads, buffer>>
browser   == <<broadcasting, screen, resync>>
pipe      == <<raw, normalizer, norm, correlator, stored>>
relaying  == <<events, relay, broadcasting, screen, resync>>

Elements(s) == {s[k] : k \in DOMAIN s}
Failure     == failures < Failures /\ failures' = failures + 1

-----------------------------------------------------------------------------
(* The listener and the backend's producer                                 *)

\* A datagram arrives and a thread is given its trap.
Receive ==
  /\ sent < Traps
  /\ sent' = sent + 1
  /\ threads' = threads \cup {sent + 1}
  /\ UNCHANGED <<buffer, pipe, relaying, failures, lost, failed, handled>>

\* UDP: the socket's buffer is full, or the backend is down.
LoseDatagram ==
  /\ sent < Traps
  /\ Failure
  /\ sent' = sent + 1
  /\ lost' = lost \cup {sent + 1}
  /\ UNCHANGED <<backend, pipe, relaying, failed, handled>>

\* A thread hands its trap to the producer: in any order.
Publish ==
  /\ \E trap \in threads : buffer' = Append(buffer, trap) /\ threads' = threads \ {trap}
  /\ UNCHANGED <<sent, pipe, relaying, failures, lost, failed, handled>>

\* send() raises: the thread logs it, and its trap is gone.
PublishFails ==
  /\ Failure
  /\ \E trap \in threads : threads' = threads \ {trap} /\ lost' = lost \cup {trap}
  /\ UNCHANGED <<sent, buffer, pipe, relaying, failed, handled>>

\* The broker takes the oldest record of the buffer.
DeliverRaw ==
  /\ buffer # <<>>
  /\ raw' = Append(raw, Head(buffer))
  /\ buffer' = Tail(buffer)
  /\ UNCHANGED <<sent, threads, normalizer, norm, correlator, stored, relaying,
                 failures, lost, failed, handled>>

\* send() gives up on a record; its future is never looked at.
ExpireRaw ==
  /\ buffer # <<>>
  /\ Failure
  /\ lost' = lost \cup {Head(buffer)}
  /\ buffer' = Tail(buffer)
  /\ UNCHANGED <<sent, threads, pipe, relaying, failed, handled>>

\* Mutant of TopicEnd: one past the end.
PastTopicEnd == Len(events) + 1

\* Where a consumer that never committed an offset begins: at the latest.
TopicEnd == Len(events)

\* The relay reads on from the offset it committed last.
BackendCrash ==
  /\ Failure
  /\ lost' = lost \cup threads \cup Elements(buffer)
  /\ threads' = {}
  /\ buffer' = <<>>
  /\ \/ /\ relay.committed = None
        /\ relay' = [relay EXCEPT !.at = TopicEnd]
     \/ \E offset \in relay.committed .. relay.at :
          relay' = [at |-> offset, committed |-> offset]
  /\ broadcasting' = {}
  /\ resync' = None
  /\ UNCHANGED <<sent, pipe, events, screen, failed, handled>>

-----------------------------------------------------------------------------
(* The normalizer: iterates, and never waits for its sends                 *)

Normalize ==
  /\ normalizer.at < Len(raw)
  /\ normalizer' = [normalizer EXCEPT !.at = @ + 1, !.buffer = Append(@, raw[normalizer.at + 1])]
  /\ UNCHANGED <<sent, backend, raw, norm, correlator, stored, relaying, failures, lost, failed, handled>>

\* What the normalizer gives up on, if no earlier reading has put it in the topic.
GivenUp(trap) == {trap} \ Elements(norm)

\* Normalizing a record raises, or send() does: the loop logs it and goes on.
NormalizeFails ==
  /\ normalizer.at < Len(raw)
  /\ Failure
  /\ normalizer' = [normalizer EXCEPT !.at = @ + 1]
  /\ lost' = lost \cup GivenUp(raw[normalizer.at + 1])
  /\ UNCHANGED <<sent, backend, raw, norm, correlator, stored, relaying, failed, handled>>

\* Mutant of DeliverNorm: records in flight at once may change places.
DeliverAnyNorm ==
  /\ normalizer.buffer # <<>>
  /\ \E k \in DOMAIN normalizer.buffer :
       LET held == normalizer.buffer
       IN /\ norm' = Append(norm, held[k])
          /\ normalizer' = [normalizer EXCEPT
               !.buffer = SubSeq(held, 1, k - 1) \o SubSeq(held, k + 1, Len(held))]
  /\ UNCHANGED <<sent, backend, raw, correlator, stored, relaying, failures, lost, failed, handled>>

DeliverNorm ==
  /\ normalizer.buffer # <<>>
  /\ norm' = Append(norm, Head(normalizer.buffer))
  /\ normalizer' = [normalizer EXCEPT !.buffer = Tail(@)]
  /\ UNCHANGED <<sent, backend, raw, correlator, stored, relaying, failures, lost, failed, handled>>

\* Its send() gives up on a record as the backend's does.
ExpireNorm ==
  /\ normalizer.buffer # <<>>
  /\ Failure
  /\ normalizer' = [normalizer EXCEPT !.buffer = Tail(@)]
  /\ lost' = lost \cup GivenUp(Head(normalizer.buffer))
  /\ UNCHANGED <<sent, backend, raw, norm, correlator, stored, relaying, failed, handled>>

\* It reads on from the offset it committed last; what was committed and still
\* in its buffer is lost.
NormalizerCrash ==
  /\ Failure
  /\ \E offset \in normalizer.committed .. normalizer.at :
       /\ lost' = lost \cup (Elements(normalizer.buffer) \
                   Elements(SubSeq(raw, offset + 1, normalizer.at) \o norm))
       /\ normalizer' = [at |-> offset, committed |-> offset, buffer |-> <<>>]
  /\ UNCHANGED <<sent, backend, raw, norm, correlator, stored, relaying, failed, handled>>

-----------------------------------------------------------------------------
(* The correlator: one record, one transaction, then one event             *)

Handle ==
  /\ ~correlator.stored
  /\ correlator.at < Len(norm)
  /\ stored' = norm[correlator.at + 1]
  /\ handled' = handled \cup {norm[correlator.at + 1]}
  /\ correlator' = [correlator EXCEPT !.stored = TRUE]
  /\ UNCHANGED <<sent, backend, raw, normalizer, norm, relaying, failures, lost, failed>>

\* The record's transaction raises: it is rolled back, and the loop goes on.
HandlingFails ==
  /\ ~correlator.stored
  /\ correlator.at < Len(norm)
  /\ Failure
  /\ correlator' = [correlator EXCEPT !.at = @ + 1]
  /\ failed' = failed \cup {norm[correlator.at + 1]}
  /\ UNCHANGED <<sent, backend, raw, normalizer, norm, stored, relaying, lost, handled>>

SendEvent ==
  /\ correlator.stored
  /\ correlator' = [correlator EXCEPT !.at = @ + 1, !.stored = FALSE,
                                      !.buffer = Append(@, norm[correlator.at + 1])]
  /\ UNCHANGED <<sent, backend, raw, normalizer, norm, stored, relaying, failures, lost, failed, handled>>

DeliverEvent ==
  /\ correlator.buffer # <<>>
  /\ events' = Append(events, Head(correlator.buffer))
  /\ correlator' = [correlator EXCEPT !.buffer = Tail(@)]
  /\ UNCHANGED <<sent, backend, raw, normalizer, norm, stored, relay, browser,
                 failures, lost, failed, handled>>

\* Nobody looks at this future either: the browser learns of it at its next reload.
ExpireEvent ==
  /\ correlator.buffer # <<>>
  /\ Failure
  /\ correlator' = [correlator EXCEPT !.buffer = Tail(@)]
  /\ UNCHANGED <<sent, backend, raw, normalizer, norm, stored, relaying, lost, failed, handled>>

\* Mutant of CorrelatorCrash: the whole batch was committed when it was polled.
CorrelatorCrashAhead ==
  /\ Failure
  /\ \E offset \in correlator.committed .. Len(norm) :
       correlator' = [at |-> offset, committed |-> offset, stored |-> FALSE, buffer |-> <<>>]
  /\ UNCHANGED <<sent, backend, raw, normalizer, norm, stored, relaying, lost, failed, handled>>

\* What was handled since the last commit will be handled again.  Auto-commit
\* happens in poll(), between one batch and the next: it never runs ahead.
CorrelatorCrash ==
  /\ Failure
  /\ \E offset \in correlator.committed .. correlator.at :
       correlator' = [at |-> offset, committed |-> offset, stored |-> FALSE, buffer |-> <<>>]
  /\ UNCHANGED <<sent, backend, raw, normalizer, norm, stored, relaying, lost, failed, handled>>

-----------------------------------------------------------------------------
(* The relay and the browser                                               *)

\* Each event becomes a coroutine of its own.
Relay ==
  /\ relay.at < Len(events)
  /\ broadcasting' = broadcasting \cup {events[relay.at + 1]}
  /\ relay' = [relay EXCEPT !.at = @ + 1]
  /\ UNCHANGED <<sent, backend, pipe, events, screen, resync, failures, lost, failed, handled>>

\* A broadcast reaches the browser: one held up by another connection is
\* overtaken by the next.
Show ==
  /\ \E event \in broadcasting : screen' = event /\ broadcasting' = broadcasting \ {event}
  /\ UNCHANGED <<sent, backend, pipe, events, relay, resync, failures, lost, failed, handled>>

\* Every ten seconds the browser reads everything again; the answer replaces
\* what it shows, whatever came in between.
StartResync ==
  /\ resync = None
  /\ stored # None
  /\ resync' = stored
  /\ UNCHANGED <<sent, backend, pipe, events, relay, broadcasting, screen,
                 failures, lost, failed, handled>>

\* Mutant of FinishResync: an answer overtaken by an event is thrown away, and
\* whatever is shown already counts as one.
FinishResyncIfBlank ==
  /\ resync # None
  /\ screen' = IF screen = None THEN resync ELSE screen
  /\ resync' = None
  /\ UNCHANGED <<sent, backend, pipe, events, relay, broadcasting, failures, lost, failed, handled>>

FinishResync ==
  /\ resync # None
  /\ screen' = resync
  /\ resync' = None
  /\ UNCHANGED <<sent, backend, pipe, events, relay, broadcasting, failures, lost, failed, handled>>

-----------------------------------------------------------------------------
PipelineInit ==
  /\ sent = 0 /\ threads = {} /\ buffer = <<>> /\ raw = <<>> /\ norm = <<>> /\ events = <<>>
  /\ normalizer = [at |-> 0, committed |-> 0, buffer |-> <<>>]
  /\ correlator = [at |-> 0, committed |-> 0, stored |-> FALSE, buffer |-> <<>>]
  /\ relay = [at |-> 0, committed |-> None]
  /\ stored = None /\ screen = None /\ resync = None /\ broadcasting = {}
  /\ failures = 0 /\ lost = {} /\ failed = {} /\ handled = {}

PipelineFailure ==
  \/ LoseDatagram \/ PublishFails \/ ExpireRaw \/ BackendCrash
  \/ NormalizeFails \/ ExpireNorm \/ NormalizerCrash
  \/ HandlingFails \/ ExpireEvent \/ CorrelatorCrash

PipelineNext ==
  \/ Receive
  \/ Publish
  \/ DeliverRaw
  \/ Normalize
  \/ DeliverNorm
  \/ Handle
  \/ SendEvent
  \/ DeliverEvent
  \/ Relay
  \/ Show
  \/ StartResync
  \/ FinishResync
  \/ PipelineFailure

\* Threads run, the broker takes what it is sent, the three loops read on and
\* the browser's timer fires.
PipelineFairness ==
  /\ WF_pipelineVars(Publish) /\ WF_pipelineVars(DeliverRaw)
  /\ WF_pipelineVars(Normalize) /\ WF_pipelineVars(DeliverNorm)
  /\ WF_pipelineVars(Handle) /\ WF_pipelineVars(SendEvent) /\ WF_pipelineVars(DeliverEvent)
  /\ WF_pipelineVars(Relay) /\ WF_pipelineVars(Show)
  /\ WF_pipelineVars(StartResync) /\ WF_pipelineVars(FinishResync)

PipelineSpec == PipelineInit /\ [][PipelineNext]_pipelineVars /\ PipelineFairness

-----------------------------------------------------------------------------
(* Properties                                                              *)

\* The types of the state whose type is not plain from its use.
PipelineTypeOK ==
  /\ threads \subseteq Trap /\ lost \subseteq Trap /\ failed \subseteq Trap /\ handled \subseteq Trap
  /\ stored \in Trap \cup {None} /\ screen \in Trap \cup {None} /\ resync \in Trap \cup {None}
  /\ normalizer.committed <= normalizer.at /\ normalizer.at <= Len(raw)
  /\ correlator.committed <= correlator.at /\ correlator.at <= Len(norm)
  /\ relay.at <= Len(events)

\* Once the correlator has caught up, however often it or the normalizer has
\* crashed and read again, the store says what the last record of the topic
\* says, unless the handling of that very trap failed.
StoreFollowsTopic ==
  (correlator.at = Len(norm) /\ norm # <<>>) => stored = norm[Len(norm)] \/ norm[Len(norm)] \in failed

\* Two traps are only ever handled in the wrong order if the listener's
\* threads published them in that order, as part of reading a stretch of the
\* topic again, or if the normalizer had given up on the earlier one when it
\* read it first.
OnlyThreadsReorder ==
  \A i, j \in DOMAIN norm :
    i < j /\ norm[i] > norm[j] =>
      \/ \E k \in 1 .. i : norm[k] = norm[j]
      \/ norm[j] \in lost
      \/ \E k, m \in DOMAIN raw : k < m /\ raw[k] = norm[i] /\ raw[m] = norm[j]

\* Every trap is written to the store, or something went wrong with that very
\* trap: its datagram met a full socket or a backend that was down; the backend
\* went down with it in a thread or in its producer; the backend's send raised;
\* the backend's or the normalizer's producer gave up on it; the normalizer skipped its record, or went
\* down after committing it and before sending it on; its handling raised.
TrapIsHandled ==
  \A trap \in Trap : sent >= trap ~> trap \in handled \cup lost \cup failed

\* The browser ends up showing what the store says, whatever became of events.
ScreenCatchesUp == <>[](stored # None => screen = stored)
=============================================================================
