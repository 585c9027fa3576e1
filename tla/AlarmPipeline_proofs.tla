------------------------ MODULE AlarmPipeline_proofs -------------------------
(***************************************************************************)
(* Proofs about AlarmPipeline, for any number of traps and failures: the   *)
(* types of its state, that the store follows the topic, and that only the *)
(* listener's threads change the order of traps.  And about FiberFaults:   *)
(* that a fault has one task, for any peerings, spans, and numbers of      *)
(* resets and accidents.                                                   *)
(***************************************************************************)
EXTENDS MCAlarmPipeline, TLAPS

BackendTypes ==
  /\ sent \in 0 .. Traps /\ threads \subseteq Trap /\ buffer \in Seq(Trap)
  /\ lost \subseteq Trap /\ failed \subseteq Trap /\ handled \subseteq Trap
  /\ failures \in Nat

NormalizerTypes ==
  /\ raw \in Seq(Trap) /\ norm \in Seq(Trap)
  /\ normalizer \in [at : Nat, committed : Nat, buffer : Seq(Trap)]

CorrelatorTypes ==
  /\ correlator \in [at : Nat, committed : Nat, stored : BOOLEAN, buffer : Seq(Trap)]
  /\ stored \in Trap \cup {None} /\ events \in Seq(Trap)

ScreenTypes ==
  /\ relay \in [at : Nat, committed : Nat] /\ broadcasting \subseteq Trap
  /\ screen \in Trap \cup {None} /\ resync \in Trap \cup {None}

Offsets ==
  /\ normalizer.committed <= normalizer.at /\ normalizer.at <= Len(raw)
  /\ correlator.committed <= correlator.at /\ correlator.at <= Len(norm)
  /\ relay.committed <= relay.at /\ relay.at <= Len(events)

\* Every variable is of its type, and no offset runs ahead.
PipelineTypes ==
  BackendTypes /\ NormalizerTypes /\ CorrelatorTypes /\ ScreenTypes /\ Offsets

\* What the correlator has stored, its event not sent yet, is the record at hand.
StoredIsAtHand ==
  correlator.stored => correlator.at < Len(norm) /\ stored = norm[correlator.at + 1]

\* Appending an element.
LEMMA AppendFacts ==
  ASSUME NEW S, NEW s \in Seq(S), NEW e \in S
  PROVE  /\ Append(s, e) \in Seq(S)
         /\ Len(Append(s, e)) = Len(s) + 1
         /\ Append(s, e)[Len(s) + 1] = e
         /\ \A k \in 1 .. Len(s) : Append(s, e)[k] = s[k]
  OBVIOUS

\* Taking off the first element.
LEMMA TailFacts ==
  ASSUME NEW S, NEW s \in Seq(S), s # <<>>
  PROVE  /\ Head(s) \in S /\ Head(s) = s[1]
         /\ Tail(s) \in Seq(S)
         /\ Len(s) \in Nat \ {0} /\ Len(Tail(s)) = Len(s) - 1
         /\ \A k \in 1 .. Len(s) - 1 : Tail(s)[k] = s[k + 1]
  OBVIOUS

\* The elements of a sequence over S are in S.
LEMMA ElementsFacts ==
  ASSUME NEW S, NEW s \in Seq(S)
  PROVE  Elements(s) \subseteq S
  BY DEF Elements

\* The fields of the two consumers.
LEMMA ConsumerFields ==
  ASSUME PipelineTypes
  PROVE  /\ normalizer.at \in Nat /\ normalizer.committed \in Nat /\ normalizer.buffer \in Seq(Trap)
         /\ correlator.at \in Nat /\ correlator.committed \in Nat /\ correlator.stored \in BOOLEAN
         /\ correlator.buffer \in Seq(Trap)
         /\ Len(raw) \in Nat /\ Len(norm) \in Nat /\ Len(events) \in Nat
         /\ normalizer.committed <= normalizer.at /\ normalizer.at <= Len(raw)
         /\ correlator.committed <= correlator.at /\ correlator.at <= Len(norm)
  BY DEF PipelineTypes, NormalizerTypes, CorrelatorTypes, Offsets

\* A normalizer put together from its fields.
LEMMA NormalizerRecord ==
  ASSUME NEW a \in Nat, NEW c \in Nat, NEW b \in Seq(Trap),
         normalizer' = [at |-> a, committed |-> c, buffer |-> b]
  PROVE  /\ normalizer' \in [at : Nat, committed : Nat, buffer : Seq(Trap)]
         /\ normalizer'.at = a /\ normalizer'.committed = c
  OBVIOUS

\* A correlator put together from its fields.
LEMMA CorrelatorRecord ==
  ASSUME NEW a \in Nat, NEW c \in Nat, NEW st \in BOOLEAN, NEW b \in Seq(Trap),
         correlator' = [at |-> a, committed |-> c, stored |-> st, buffer |-> b]
  PROVE  /\ correlator' \in [at : Nat, committed : Nat, stored : BOOLEAN, buffer : Seq(Trap)]
         /\ correlator'.at = a /\ correlator'.committed = c
  OBVIOUS

-----------------------------------------------------------------------------
(* Types                                                                   *)

\* Only the listener and the backend's producer move.
LEMMA ListenerTypes ==
  ASSUME PipelineTypes, Receive \/ LoseDatagram \/ Publish \/ PublishFails \/ DeliverRaw \/ ExpireRaw
  PROVE  PipelineTypes'
<1> USE PipelineAssumption DEF Trap
<1>1. UNCHANGED <<normalizer, norm, correlator, stored, events, relay, browser>>
  BY DEF Receive, LoseDatagram, Publish, PublishFails, DeliverRaw, ExpireRaw, pipe, relaying, browser
<1>2. BackendTypes' /\ raw' \in Seq(Trap) /\ Len(raw) <= Len(raw')
  <2>1. CASE Receive \/ LoseDatagram
    <3>1. sent < Traps /\ sent' = sent + 1 /\ UNCHANGED <<buffer, failed, handled, raw>>
      BY <2>1 DEF Receive, LoseDatagram, backend, pipe
    <3>2. sent \in 0 .. Traps
      BY DEF PipelineTypes, BackendTypes
    <3>3. sent' \in 0 .. Traps /\ sent' \in Trap
      BY <3>1, <3>2
    <3>4. threads' \subseteq threads \cup {sent'} /\ lost' \subseteq lost \cup {sent'}
      BY <2>1, <3>1 DEF Receive, LoseDatagram, backend
    <3>5. failures' \in Nat
      BY <2>1 DEF Receive, LoseDatagram, Failure, PipelineTypes, BackendTypes
    <3> QED
      BY <3>1, <3>3, <3>4, <3>5 DEF PipelineTypes, BackendTypes, NormalizerTypes
  <2>2. CASE Publish
    <3>1. PICK trap \in threads : buffer' = Append(buffer, trap) /\ threads' = threads \ {trap}
      BY <2>2 DEF Publish
    <3>2. buffer' \in Seq(Trap)
      BY <3>1, AppendFacts DEF PipelineTypes, BackendTypes
    <3> QED
      BY <2>2, <3>1, <3>2 DEF Publish, PipelineTypes, BackendTypes, NormalizerTypes, pipe
  <2>3. CASE DeliverRaw
    BY <2>3, TailFacts, AppendFacts DEF DeliverRaw, PipelineTypes, BackendTypes, NormalizerTypes
  <2>4. CASE ExpireRaw
    <3>1. Head(buffer) \in Trap /\ Tail(buffer) \in Seq(Trap)
      BY <2>4, TailFacts DEF ExpireRaw, PipelineTypes, BackendTypes
    <3>2. failures' \in Nat
      BY <2>4 DEF ExpireRaw, Failure, PipelineTypes, BackendTypes
    <3>3. raw' \in Seq(Trap) /\ Len(raw) <= Len(raw')
      BY <2>4 DEF ExpireRaw, PipelineTypes, NormalizerTypes, pipe
    <3> QED
      BY <2>4, <3>1, <3>2, <3>3 DEF ExpireRaw, PipelineTypes, BackendTypes
  <2>5. CASE PublishFails
    <3>1. PICK trap \in threads : threads' = threads \ {trap} /\ lost' = lost \cup {trap}
      BY <2>5 DEF PublishFails
    <3>2. UNCHANGED <<sent, buffer, raw, failed, handled>> /\ failures' \in Nat
      BY <2>5 DEF PublishFails, Failure, pipe, PipelineTypes, BackendTypes
    <3> QED
      BY <3>1, <3>2 DEF PipelineTypes, BackendTypes, NormalizerTypes
  <2> QED
    BY <2>1, <2>2, <2>3, <2>4, <2>5
<1> QED
  BY <1>1, <1>2 DEF PipelineTypes, NormalizerTypes, CorrelatorTypes, ScreenTypes, Offsets, browser

\* The backend goes down: the relay reads on from where it committed.
LEMMA BackendCrashTypes ==
  ASSUME PipelineTypes, BackendCrash
  PROVE  PipelineTypes'
<1> USE DEF None
<1>1. BackendTypes'
  BY ElementsFacts DEF BackendCrash, Failure, PipelineTypes, BackendTypes
<1>2. ScreenTypes' /\ relay'.committed <= relay'.at /\ relay'.at <= Len(events)
  <2>1. CASE relay' = [relay EXCEPT !.at = TopicEnd] /\ relay.committed = None
    BY <2>1 DEF BackendCrash, TopicEnd, PipelineTypes, ScreenTypes, CorrelatorTypes, Offsets
  <2>2. CASE \E offset \in relay.committed .. relay.at :
               relay' = [at |-> offset, committed |-> offset]
    BY <2>2 DEF BackendCrash, PipelineTypes, ScreenTypes, CorrelatorTypes, Offsets
  <2> QED
    BY <2>1, <2>2 DEF BackendCrash
<1> QED
  BY <1>1, <1>2 DEF BackendCrash, pipe, PipelineTypes, NormalizerTypes, CorrelatorTypes, ScreenTypes, Offsets

\* Only the normalizer moves.
LEMMA NormalizerTyped ==
  ASSUME PipelineTypes, Normalize \/ NormalizeFails \/ DeliverNorm \/ ExpireNorm \/ NormalizerCrash
  PROVE  PipelineTypes'
<1>1. UNCHANGED <<sent, backend, raw, correlator, stored, relaying, failed, handled>>
  BY DEF Normalize, NormalizeFails, DeliverNorm, ExpireNorm, NormalizerCrash
<1>2. /\ NormalizerTypes' /\ Len(norm) <= Len(norm') /\ lost' \subseteq Trap /\ failures' \in Nat
      /\ normalizer'.committed <= normalizer'.at /\ normalizer'.at <= Len(raw)
  <2>1. CASE Normalize
    <3>1. raw[normalizer.at + 1] \in Trap
      BY <2>1 DEF Normalize, PipelineTypes, NormalizerTypes
    <3>2. Append(normalizer.buffer, raw[normalizer.at + 1]) \in Seq(Trap)
      BY <3>1, AppendFacts DEF PipelineTypes, NormalizerTypes
    <3>3. normalizer' = [at |-> normalizer.at + 1, committed |-> normalizer.committed,
                         buffer |-> Append(normalizer.buffer, raw[normalizer.at + 1])]
      BY <2>1 DEF Normalize, PipelineTypes, NormalizerTypes
    <3> QED
      <4>1. /\ normalizer' \in [at : Nat, committed : Nat, buffer : Seq(Trap)]
            /\ normalizer'.at = normalizer.at + 1 /\ normalizer'.committed = normalizer.committed
        BY <3>2, <3>3, ConsumerFields, NormalizerRecord
      <4>2. UNCHANGED <<raw, norm, lost, failures>> /\ normalizer.at < Len(raw)
        BY <2>1 DEF Normalize
      <4> QED
        BY <4>1, <4>2, ConsumerFields DEF PipelineTypes, BackendTypes, NormalizerTypes
  <2>2. CASE DeliverNorm
    <3>1. Tail(normalizer.buffer) \in Seq(Trap) /\ Head(normalizer.buffer) \in Trap
      BY <2>2, TailFacts DEF DeliverNorm, PipelineTypes, NormalizerTypes
    <3>2. norm' \in Seq(Trap) /\ Len(norm') = Len(norm) + 1
      BY <2>2, <3>1, AppendFacts DEF DeliverNorm, PipelineTypes, NormalizerTypes
    <3>3. normalizer' = [at |-> normalizer.at, committed |-> normalizer.committed,
                         buffer |-> Tail(normalizer.buffer)]
      BY <2>2 DEF DeliverNorm, PipelineTypes, NormalizerTypes
    <3> QED
      <4>1. /\ normalizer' \in [at : Nat, committed : Nat, buffer : Seq(Trap)]
            /\ normalizer'.at = normalizer.at /\ normalizer'.committed = normalizer.committed
        BY <3>1, <3>3, ConsumerFields, NormalizerRecord
      <4>2. UNCHANGED <<raw, lost, failures>>
        BY <2>2 DEF DeliverNorm
      <4> QED
        BY <3>2, <4>1, <4>2, ConsumerFields DEF PipelineTypes, BackendTypes, NormalizerTypes
  <2>3. CASE NormalizerCrash
    <3>1. PICK offset \in normalizer.committed .. normalizer.at :
            /\ lost' \subseteq lost \cup Elements(normalizer.buffer)
            /\ normalizer' = [at |-> offset, committed |-> offset, buffer |-> <<>>]
      BY <2>3 DEF NormalizerCrash
    <3>2. Elements(normalizer.buffer) \subseteq Trap
      BY ElementsFacts DEF PipelineTypes, NormalizerTypes
    <3> QED
      BY <2>3, <3>1, <3>2 DEF NormalizerCrash, Failure, PipelineTypes, BackendTypes, NormalizerTypes, Offsets
  <2>4. CASE NormalizeFails
    <3>1. raw[normalizer.at + 1] \in Trap /\ lost' \subseteq lost \cup {raw[normalizer.at + 1]}
      BY <2>4 DEF NormalizeFails, GivenUp, PipelineTypes, NormalizerTypes
    <3>2. normalizer' = [at |-> normalizer.at + 1, committed |-> normalizer.committed,
                         buffer |-> normalizer.buffer]
      BY <2>4 DEF NormalizeFails, PipelineTypes, NormalizerTypes
    <3>3. /\ normalizer' \in [at : Nat, committed : Nat, buffer : Seq(Trap)]
          /\ normalizer'.at = normalizer.at + 1 /\ normalizer'.committed = normalizer.committed
      BY <3>2, ConsumerFields, NormalizerRecord
    <3>4. UNCHANGED <<raw, norm>> /\ normalizer.at < Len(raw) /\ failures' \in Nat
      BY <2>4 DEF NormalizeFails, Failure, PipelineTypes, BackendTypes
    <3> QED
      BY <3>1, <3>3, <3>4, ConsumerFields DEF PipelineTypes, BackendTypes, NormalizerTypes
  <2>5. CASE ExpireNorm
    <3>1. Tail(normalizer.buffer) \in Seq(Trap) /\ Head(normalizer.buffer) \in Trap
      BY <2>5, TailFacts DEF ExpireNorm, PipelineTypes, NormalizerTypes
    <3>2. normalizer' = [at |-> normalizer.at, committed |-> normalizer.committed,
                         buffer |-> Tail(normalizer.buffer)]
      BY <2>5 DEF ExpireNorm, PipelineTypes, NormalizerTypes
    <3>3. /\ normalizer' \in [at : Nat, committed : Nat, buffer : Seq(Trap)]
          /\ normalizer'.at = normalizer.at /\ normalizer'.committed = normalizer.committed
      BY <3>1, <3>2, ConsumerFields, NormalizerRecord
    <3>4. /\ UNCHANGED <<raw, norm>> /\ failures' \in Nat
          /\ lost' \subseteq lost \cup {Head(normalizer.buffer)}
      BY <2>5 DEF ExpireNorm, GivenUp, Failure, PipelineTypes, BackendTypes
    <3> QED
      BY <3>1, <3>3, <3>4, ConsumerFields DEF PipelineTypes, BackendTypes, NormalizerTypes
  <2> QED
    BY <2>1, <2>2, <2>3, <2>4, <2>5
<1> QED
  BY <1>1, <1>2, SMTT(20) DEF PipelineTypes, BackendTypes, NormalizerTypes, CorrelatorTypes, ScreenTypes,
                    Offsets, backend, relaying

\* Only the correlator moves.
LEMMA CorrelatorTyped ==
  ASSUME PipelineTypes, StoredIsAtHand,
         Handle \/ HandlingFails \/ SendEvent \/ DeliverEvent \/ ExpireEvent \/ CorrelatorCrash
  PROVE  PipelineTypes'
<1> DEFINE record(at, committed, isStored, held) ==
             [at |-> at, committed |-> committed, stored |-> isStored, buffer |-> held]
           Ok == /\ CorrelatorTypes' /\ Len(events) <= Len(events')
                 /\ lost' \subseteq Trap /\ failed' \subseteq Trap /\ handled' \subseteq Trap
                 /\ failures' \in Nat
                 /\ correlator'.committed <= correlator'.at /\ correlator'.at <= Len(norm)
<1>1. UNCHANGED <<sent, backend, raw, normalizer, norm, relay, browser>>
  BY DEF Handle, HandlingFails, SendEvent, DeliverEvent, ExpireEvent, CorrelatorCrash, relaying, browser
<1>2. correlator.at < Len(norm) => norm[correlator.at + 1] \in Trap
  BY DEF PipelineTypes, NormalizerTypes, CorrelatorTypes
<1>3. Ok
  <2>1. CASE Handle
    <3>1. correlator' = record(correlator.at, correlator.committed, TRUE, correlator.buffer)
      BY <2>1 DEF Handle, PipelineTypes, CorrelatorTypes
    <3> QED
      <4>1. /\ correlator' \in [at : Nat, committed : Nat, stored : BOOLEAN, buffer : Seq(Trap)]
            /\ correlator'.at = correlator.at /\ correlator'.committed = correlator.committed
        BY <3>1, ConsumerFields, CorrelatorRecord
      <4>2. /\ stored' \in Trap /\ handled' \subseteq handled \cup {stored'}
            /\ UNCHANGED <<lost, failed, failures, events>>
        BY <2>1, <1>2 DEF Handle, relaying
      <4> QED
        BY <4>1, <4>2, ConsumerFields DEF PipelineTypes, BackendTypes, CorrelatorTypes
  <2>2. CASE HandlingFails
    <3>1. correlator' = record(correlator.at + 1, correlator.committed, correlator.stored,
                               correlator.buffer)
      BY <2>2 DEF HandlingFails, PipelineTypes, CorrelatorTypes
    <3> QED
      <4>1. /\ correlator' \in [at : Nat, committed : Nat, stored : BOOLEAN, buffer : Seq(Trap)]
            /\ correlator'.at = correlator.at + 1 /\ correlator'.committed = correlator.committed
        BY <3>1, ConsumerFields, CorrelatorRecord
      <4>2. /\ failed' \subseteq Trap /\ correlator.at < Len(norm)
            /\ UNCHANGED <<stored, lost, handled, events>>
        BY <2>2, <1>2 DEF HandlingFails, relaying, PipelineTypes, BackendTypes
      <4>3. failures' \in Nat
        BY <2>2 DEF HandlingFails, Failure, PipelineTypes, BackendTypes
      <4> QED
        BY <4>1, <4>2, <4>3, ConsumerFields DEF PipelineTypes, BackendTypes, CorrelatorTypes
  <2>3. CASE SendEvent
    <3>1. correlator.at < Len(norm) /\ norm[correlator.at + 1] \in Trap
      BY <2>3, <1>2 DEF SendEvent, StoredIsAtHand
    <3>2. Append(correlator.buffer, norm[correlator.at + 1]) \in Seq(Trap)
      BY <3>1, AppendFacts DEF PipelineTypes, CorrelatorTypes
    <3>3. correlator' = record(correlator.at + 1, correlator.committed, FALSE,
                               Append(correlator.buffer, norm[correlator.at + 1]))
      BY <2>3 DEF SendEvent, PipelineTypes, CorrelatorTypes
    <3> QED
      <4>1. /\ correlator' \in [at : Nat, committed : Nat, stored : BOOLEAN, buffer : Seq(Trap)]
            /\ correlator'.at = correlator.at + 1 /\ correlator'.committed = correlator.committed
        BY <3>2, <3>3, ConsumerFields, CorrelatorRecord
      <4>2. UNCHANGED <<stored, handled, events, lost, failed, failures>>
        BY <2>3 DEF SendEvent, relaying
      <4> QED
        BY <3>1, <4>1, <4>2, ConsumerFields DEF PipelineTypes, BackendTypes, CorrelatorTypes
  <2>4. CASE DeliverEvent
    <3>1. Tail(correlator.buffer) \in Seq(Trap) /\ Head(correlator.buffer) \in Trap
      BY <2>4, TailFacts DEF DeliverEvent, PipelineTypes, CorrelatorTypes
    <3>2. events' \in Seq(Trap) /\ Len(events') = Len(events) + 1
      BY <2>4, <3>1, AppendFacts DEF DeliverEvent, PipelineTypes, CorrelatorTypes
    <3>3. correlator' = record(correlator.at, correlator.committed, correlator.stored,
                               Tail(correlator.buffer))
      BY <2>4 DEF DeliverEvent, PipelineTypes, CorrelatorTypes
    <3> QED
      <4>1. /\ correlator' \in [at : Nat, committed : Nat, stored : BOOLEAN, buffer : Seq(Trap)]
            /\ correlator'.at = correlator.at /\ correlator'.committed = correlator.committed
        BY <3>1, <3>3, ConsumerFields, CorrelatorRecord
      <4>2. UNCHANGED <<stored, handled, lost, failed, failures>>
        BY <2>4 DEF DeliverEvent
      <4> QED
        BY <3>2, <4>1, <4>2, ConsumerFields DEF PipelineTypes, BackendTypes, CorrelatorTypes
  <2>5. CASE CorrelatorCrash
    <3>1. PICK offset \in correlator.committed .. correlator.at :
            correlator' = record(offset, offset, FALSE, <<>>)
      BY <2>5 DEF CorrelatorCrash
    <3> QED
      BY <2>5, <3>1, SMTT(20) DEF CorrelatorCrash, Failure, relaying, PipelineTypes, BackendTypes,
                        NormalizerTypes, CorrelatorTypes, Offsets
  <2>6. CASE ExpireEvent
    <3>1. Tail(correlator.buffer) \in Seq(Trap)
      BY <2>6, TailFacts DEF ExpireEvent, PipelineTypes, CorrelatorTypes
    <3>2. correlator' = record(correlator.at, correlator.committed, correlator.stored,
                               Tail(correlator.buffer))
      BY <2>6 DEF ExpireEvent, PipelineTypes, CorrelatorTypes
    <3>3. /\ correlator' \in [at : Nat, committed : Nat, stored : BOOLEAN, buffer : Seq(Trap)]
          /\ correlator'.at = correlator.at /\ correlator'.committed = correlator.committed
      BY <3>1, <3>2, ConsumerFields, CorrelatorRecord
    <3>4. UNCHANGED <<stored, handled, events, lost, failed>> /\ failures' \in Nat
      BY <2>6 DEF ExpireEvent, Failure, relaying, PipelineTypes, BackendTypes
    <3> QED
      BY <3>3, <3>4, ConsumerFields DEF PipelineTypes, BackendTypes, CorrelatorTypes
  <2> QED
    BY <2>1, <2>2, <2>3, <2>4, <2>5, <2>6
<1> QED
  BY <1>1, <1>3, SMTT(20) DEF PipelineTypes, BackendTypes, NormalizerTypes, CorrelatorTypes, ScreenTypes,
                    Offsets, backend, browser

\* Only the relay and the browser move.
LEMMA ScreenTyped ==
  ASSUME PipelineTypes, Relay \/ Show \/ StartResync \/ FinishResync
  PROVE  PipelineTypes'
<1>1. UNCHANGED <<sent, backend, pipe, events, failures, lost, failed, handled>>
  BY DEF Relay, Show, StartResync, FinishResync
<1>2. ScreenTypes' /\ relay'.committed <= relay'.at /\ relay'.at <= Len(events)
  <2>1. CASE Relay
    <3>1. events[relay.at + 1] \in Trap
      BY <2>1 DEF Relay, PipelineTypes, CorrelatorTypes, ScreenTypes
    <3>2. relay' = [at |-> relay.at + 1, committed |-> relay.committed]
      BY <2>1 DEF Relay, PipelineTypes, ScreenTypes
    <3> QED
      BY <2>1, <3>1, <3>2 DEF Relay, PipelineTypes, CorrelatorTypes, ScreenTypes, Offsets
  <2>2. CASE Show \/ StartResync \/ FinishResync
    BY <2>2 DEF Show, StartResync, FinishResync, pipe, PipelineTypes, CorrelatorTypes, ScreenTypes,
                Offsets
  <2> QED
    BY <2>1, <2>2
<1> QED
  BY <1>1, <1>2 DEF backend, pipe, PipelineTypes, BackendTypes, NormalizerTypes, CorrelatorTypes,
                    ScreenTypes, Offsets

\* Every step keeps the types.
LEMMA TypesKept ==
  ASSUME PipelineTypes, StoredIsAtHand, [PipelineNext]_pipelineVars
  PROVE  PipelineTypes'
<1>1. CASE PipelineNext
  BY <1>1, ListenerTypes, BackendCrashTypes, NormalizerTyped, CorrelatorTyped, ScreenTyped
     DEF PipelineNext, PipelineFailure
<1>2. CASE UNCHANGED pipelineVars
  BY <1>2 DEF pipelineVars, PipelineTypes, BackendTypes, NormalizerTypes, CorrelatorTypes,
              ScreenTypes, Offsets
<1> QED
  BY <1>1, <1>2

-----------------------------------------------------------------------------
(* The store                                                               *)

\* The topic only grows, at its end.
LEMMA NormGrows ==
  ASSUME PipelineTypes, [PipelineNext]_pipelineVars
  PROVE  \/ norm' = norm
         \/ /\ Len(norm') = Len(norm) + 1 /\ \A k \in 1 .. Len(norm) : norm'[k] = norm[k]
            /\ UNCHANGED <<correlator, stored>>
<1>1. CASE DeliverNorm
  <2>1. Head(normalizer.buffer) \in Trap
    BY <1>1, TailFacts DEF DeliverNorm, PipelineTypes, NormalizerTypes
  <2> QED
    BY <1>1, <2>1, AppendFacts DEF DeliverNorm, PipelineTypes, NormalizerTypes
<1>2. CASE Receive \/ LoseDatagram \/ Publish \/ PublishFails \/ DeliverRaw \/ ExpireRaw \/ BackendCrash
  BY <1>2 DEF Receive, LoseDatagram, Publish, PublishFails, DeliverRaw, ExpireRaw, BackendCrash, pipe
<1>3. CASE \/ Normalize \/ NormalizeFails \/ ExpireNorm \/ NormalizerCrash
           \/ Handle \/ HandlingFails \/ SendEvent \/ DeliverEvent \/ ExpireEvent \/ CorrelatorCrash
  BY <1>3 DEF Normalize, NormalizeFails, ExpireNorm, NormalizerCrash, Handle, HandlingFails, SendEvent, DeliverEvent, ExpireEvent, CorrelatorCrash
<1>4. CASE Relay \/ Show \/ StartResync \/ FinishResync
  BY <1>4 DEF Relay, Show, StartResync, FinishResync, pipe
<1>5. CASE UNCHANGED pipelineVars
  BY <1>5 DEF pipelineVars
<1> QED
  BY <1>1, <1>2, <1>3, <1>4, <1>5 DEF PipelineNext, PipelineFailure

\* Nothing else moves the correlator or writes the store, and what failed stays failed.
LEMMA CorrelatorAlone ==
  ASSUME PipelineTypes, [PipelineNext]_pipelineVars,
         ~ (Handle \/ HandlingFails \/ SendEvent \/ CorrelatorCrash)
  PROVE  /\ correlator'.at = correlator.at /\ correlator'.stored = correlator.stored
         /\ stored' = stored /\ failed \subseteq failed'
<1>1. CASE DeliverEvent \/ ExpireEvent
  BY <1>1 DEF DeliverEvent, ExpireEvent, PipelineTypes, CorrelatorTypes
<1>2. CASE Receive \/ LoseDatagram \/ Publish \/ PublishFails \/ DeliverRaw \/ ExpireRaw \/ BackendCrash
  BY <1>2 DEF Receive, LoseDatagram, Publish, PublishFails, DeliverRaw, ExpireRaw, BackendCrash, pipe
<1>3. CASE Normalize \/ NormalizeFails \/ DeliverNorm \/ ExpireNorm \/ NormalizerCrash
  BY <1>3 DEF Normalize, NormalizeFails, DeliverNorm, ExpireNorm, NormalizerCrash
<1>4. CASE Relay \/ Show \/ StartResync \/ FinishResync
  BY <1>4 DEF Relay, Show, StartResync, FinishResync, pipe
<1>5. CASE UNCHANGED pipelineVars
  BY <1>5 DEF pipelineVars
<1> QED
  BY <1>1, <1>2, <1>3, <1>4, <1>5 DEF PipelineNext, PipelineFailure

StoreInv == PipelineTypes /\ StoredIsAtHand /\ StoreFollowsTopic

\* Each step of the correlator keeps the store in line with the topic: what a crash
\* makes it read again ends with the same record.
LEMMA StoreKept ==
  ASSUME StoreInv, [PipelineNext]_pipelineVars
  PROVE  StoredIsAtHand' /\ StoreFollowsTopic'
<1> USE DEF StoreInv
<1>0. norm \in Seq(Trap) /\ correlator.at \in Nat /\ correlator.committed \in Nat
      /\ correlator.committed <= correlator.at /\ correlator.at <= Len(norm)
      /\ correlator.stored \in BOOLEAN /\ (norm = <<>> <=> Len(norm) = 0)
  BY DEF PipelineTypes, NormalizerTypes, CorrelatorTypes, Offsets
<1>1. CASE Handle
  <2>1. correlator'.at = correlator.at /\ norm' = norm /\ stored' = norm[correlator.at + 1]
    BY <1>1 DEF Handle, PipelineTypes, CorrelatorTypes
  <2> QED
    BY <1>0, <1>1, <2>1 DEF Handle, StoredIsAtHand, StoreFollowsTopic
<1>2. CASE HandlingFails
  <2>1. /\ correlator'.at = correlator.at + 1 /\ correlator'.stored = FALSE /\ norm' = norm
        /\ norm[correlator.at + 1] \in failed'
    BY <1>2 DEF HandlingFails, PipelineTypes, CorrelatorTypes
  <2> QED
    BY <1>0, <2>1 DEF StoredIsAtHand, StoreFollowsTopic
<1>3. CASE SendEvent
  <2>1. /\ correlator'.at = correlator.at + 1 /\ correlator'.stored = FALSE /\ norm' = norm
        /\ stored' = stored /\ correlator.stored
    BY <1>3 DEF SendEvent, PipelineTypes, CorrelatorTypes
  <2>2. stored = norm[correlator.at + 1]
    BY <2>1 DEF StoredIsAtHand
  <2> QED
    BY <1>0, <2>1, <2>2 DEF StoredIsAtHand, StoreFollowsTopic
<1>4. CASE CorrelatorCrash
  <2>1. /\ correlator'.at \in 0 .. correlator.at /\ correlator'.stored = FALSE
        /\ UNCHANGED <<norm, stored, failed>>
    BY <1>0, <1>4 DEF CorrelatorCrash
  <2> QED
    BY <1>0, <2>1 DEF StoredIsAtHand, StoreFollowsTopic
<1>5. CASE ~ (Handle \/ HandlingFails \/ SendEvent \/ CorrelatorCrash)
  <2>1. /\ correlator'.at = correlator.at /\ correlator'.stored = correlator.stored
        /\ stored' = stored /\ failed \subseteq failed'
    BY <1>5, CorrelatorAlone
  <2>2. CASE norm' = norm
    BY <2>1, <2>2 DEF StoredIsAtHand, StoreFollowsTopic
  <2>3. CASE Len(norm') = Len(norm) + 1 /\ \A k \in 1 .. Len(norm) : norm'[k] = norm[k]
    BY <1>0, <2>1, <2>3 DEF StoredIsAtHand, StoreFollowsTopic
  <2> QED
    BY <2>2, <2>3, NormGrows
<1> QED
  BY <1>1, <1>2, <1>3, <1>4, <1>5

\* The initial state.
LEMMA StoreInitSound == PipelineInit => StoreInv
  BY PipelineAssumption
     DEF PipelineInit, StoreInv, PipelineTypes, BackendTypes, NormalizerTypes, CorrelatorTypes,
         ScreenTypes, Offsets, StoredIsAtHand, StoreFollowsTopic, None

\* The state has its types, and the store keeps up with the topic.
THEOREM StoreInvariant == PipelineSpec => []StoreInv
<1>1. PipelineInit => StoreInv
  BY StoreInitSound
<1>2. StoreInv /\ [PipelineNext]_pipelineVars => StoreInv'
  BY TypesKept, StoreKept DEF StoreInv
<1> QED
  BY <1>1, <1>2, PTL DEF PipelineSpec

\* Once the correlator has read all of norm-alarms, the store says what the last record
\* does, however often it or the normalizer has crashed and read a stretch again.
THEOREM StoreFollowsTopicHolds == PipelineSpec => []StoreFollowsTopic
<1>1. StoreInv => StoreFollowsTopic
  BY DEF StoreInv
<1> QED
  BY <1>1, StoreInvariant, PTL

\* The state has the types the runs check.
THEOREM PipelineTypeCorrect == PipelineSpec => []PipelineTypeOK
<1>1. StoreInv => PipelineTypeOK
  BY DEF StoreInv, PipelineTypes, BackendTypes, NormalizerTypes, CorrelatorTypes, ScreenTypes,
         Offsets, PipelineTypeOK
<1> QED
  BY <1>1, StoreInvariant, PTL

-----------------------------------------------------------------------------
(* The order of traps                                                      *)

\* norm-alarms with what the normalizer is about to add to it, counted through.
Queue       == Len(norm) + Len(normalizer.buffer)
Queued(k)   == IF k <= Len(norm) THEN norm[k] ELSE normalizer.buffer[k - Len(norm)]

\* A trap is queued at or before a place, or the normalizer gave up on it.
Passed(trap, i) == (\E k \in 1 .. i : Queued(k) = trap) \/ trap \in lost

\* Whatever the normalizer has read and not committed is in the queue, or given up on.
ReadIsQueued ==
  \A q \in normalizer.committed + 1 .. normalizer.at : Passed(raw[q], Queue)

\* Behind each place of the queue is a record of raw-alarms, and what comes before that
\* record, back to the committed offset, is queued at or before the place or given up on.
QueuedInOrder ==
  \A i \in 1 .. Queue : \E p \in 1 .. Len(raw) :
    /\ raw[p] = Queued(i)
    /\ \A q \in normalizer.committed + 1 .. p - 1 : Passed(raw[q], i)

\* OnlyThreadsReorder of the whole queue.
QueueReorders ==
  \A i, j \in 1 .. Queue :
    i < j /\ Queued(i) > Queued(j) =>
      \/ Passed(Queued(j), i)
      \/ \E k, m \in 1 .. Len(raw) : k < m /\ raw[k] = Queued(i) /\ raw[m] = Queued(j)

OrderInv == ReadIsQueued /\ QueuedInOrder /\ QueueReorders

\* raw-alarms only grows, at its end.
RawGrows == Len(raw) <= Len(raw)' /\ \A k \in 1 .. Len(raw) : raw'[k] = raw[k]

\* A step that adds nothing to the queue: place says where in the old one each place of
\* the new one was.  What was passed there is passed here.
Came(place) ==
  /\ \A i \in 1 .. Queue' : place[i] \in 1 .. Queue /\ Queued(i)' = Queued(place[i])
  /\ \A i, j \in 1 .. Queue' : i < j => place[i] < place[j]
  /\ \A i \in 1 .. Queue' : \A trap : Passed(trap, place[i]) => Passed(trap, i)'

\* Such a step keeps the order, and never goes back before what was committed.
LEMMA CameKeeps ==
  ASSUME PipelineTypes, PipelineTypes', OrderInv, RawGrows, ReadIsQueued', NEW place, Came(place),
         normalizer.committed <= normalizer'.committed
  PROVE  OrderInv'
<1>0. Queue \in Nat /\ Queue' \in Nat /\ Len(raw) \in Nat /\ Len(raw)' \in Nat
      /\ normalizer.committed \in Nat /\ normalizer'.committed \in Nat
  BY DEF Queue, PipelineTypes, NormalizerTypes
<1> HIDE DEF Queue, Queued, Passed
<1>1. ASSUME NEW i \in 1 .. Queue'
      PROVE  \E p \in 1 .. Len(raw)' :
               /\ raw'[p] = Queued(i)'
               /\ \A q \in normalizer'.committed + 1 .. p - 1 : Passed(raw[q], i)'
  <2>1. place[i] \in 1 .. Queue /\ Queued(i)' = Queued(place[i])
    BY DEF Came
  <2>2. PICK p \in 1 .. Len(raw) :
          /\ raw[p] = Queued(place[i])
          /\ \A q \in normalizer.committed + 1 .. p - 1 : Passed(raw[q], place[i])
    BY <2>1 DEF OrderInv, QueuedInOrder
  <2>3. p \in 1 .. Len(raw)' /\ raw'[p] = Queued(i)'
    BY <1>0, <2>1, <2>2 DEF RawGrows
  <2>4. ASSUME NEW q \in normalizer'.committed + 1 .. p - 1
        PROVE  Passed(raw[q], i)'
    <3>1. q \in normalizer.committed + 1 .. p - 1 /\ q \in 1 .. Len(raw)
      BY <1>0
    <3>2. PICK x : x = raw[q]
      OBVIOUS
    <3>3. Passed(x, i)'
      BY <2>2, <3>1, <3>2 DEF Came
    <3>4. raw'[q] = x
      BY <3>1, <3>2 DEF RawGrows
    <3> QED
      BY <3>3, <3>4 DEF Passed
  <2> QED
    BY <2>3, <2>4
<1>2. ASSUME NEW i \in 1 .. Queue', NEW j \in 1 .. Queue', i < j, Queued(i)' > Queued(j)'
      PROVE  \/ Passed(Queued(j), i)'
             \/ \E k, m \in 1 .. Len(raw)' : k < m /\ raw'[k] = Queued(i)' /\ raw'[m] = Queued(j)'
  <2>1. /\ place[i] \in 1 .. Queue /\ Queued(i)' = Queued(place[i])
        /\ place[j] \in 1 .. Queue /\ Queued(j)' = Queued(place[j]) /\ place[i] < place[j]
    BY <1>2 DEF Came
  <2>2. \/ Passed(Queued(place[j]), place[i])
        \/ \E k, m \in 1 .. Len(raw) : k < m /\ raw[k] = Queued(place[i]) /\ raw[m] = Queued(place[j])
    BY <1>2, <2>1 DEF OrderInv, QueueReorders
  <2>3. CASE Passed(Queued(place[j]), place[i])
    <3>1. PICK x : x = Queued(place[j])
      OBVIOUS
    <3>2. Passed(x, i)' /\ Queued(j)' = x
      BY <2>1, <2>3, <3>1 DEF Came
    <3> QED
      BY <3>2 DEF Passed
  <2>4. CASE \E k, m \in 1 .. Len(raw) : k < m /\ raw[k] = Queued(place[i]) /\ raw[m] = Queued(place[j])
    <3>1. PICK k \in 1 .. Len(raw), m \in 1 .. Len(raw) :
            k < m /\ raw[k] = Queued(place[i]) /\ raw[m] = Queued(place[j])
      BY <2>4
    <3>2. k \in 1 .. Len(raw)' /\ m \in 1 .. Len(raw)' /\ raw'[k] = raw[k] /\ raw'[m] = raw[m]
      BY <1>0 DEF RawGrows
    <3> QED
      BY <2>1, <3>1, <3>2
  <2> QED
    BY <2>2, <2>3, <2>4
<1>3. QueuedInOrder'
  BY <1>1 DEF QueuedInOrder
<1>4. QueueReorders'
  BY <1>2 DEF QueueReorders
<1> QED
  BY <1>3, <1>4 DEF OrderInv

\* A step that takes nothing from the queue either, or cuts it off at the end.
LEMMA PrefixCame ==
  ASSUME Queue \in Nat, Queue' \in 0 .. Queue, \A k \in 1 .. Queue' : Queued(k)' = Queued(k),
         lost \subseteq lost'
  PROVE  Came([k \in 1 .. Queue' |-> k]) /\ \A i \in 1 .. Queue' : \A trap : Passed(trap, i) => Passed(trap, i)'
<1> HIDE DEF Queue, Queued
<1> DEFINE place == [k \in 1 .. Queue' |-> k]
<1>1. ASSUME NEW i \in 1 .. Queue', NEW trap, Passed(trap, i)
      PROVE  Passed(trap, i)'
  <2>1. CASE trap \in lost
    BY <2>1 DEF Passed
  <2>2. CASE \E k \in 1 .. i : Queued(k) = trap
    BY <2>2 DEF Passed
  <2> QED
    BY <1>1, <2>1, <2>2 DEF Passed
<1>2. \A i \in 1 .. Queue' : place[i] = i
  OBVIOUS
<1> HIDE DEF place
<1>3. Came(place)
  BY <1>1, <1>2 DEF Came
<1> QED
  BY <1>1, <1>3 DEF place

\* A step that leaves the queue and the offsets as they are.
LEMMA QuietOrder ==
  ASSUME PipelineTypes, PipelineTypes', OrderInv, RawGrows, Queue' = Queue,
         \A k \in 1 .. Queue : Queued(k)' = Queued(k), lost \subseteq lost',
         normalizer'.at = normalizer.at, normalizer'.committed = normalizer.committed
  PROVE  OrderInv'
<1>0. Queue \in Nat /\ Len(raw) \in Nat /\ normalizer.at <= Len(raw)
      /\ normalizer.at \in Nat /\ normalizer.committed \in Nat
  BY ConsumerFields DEF Queue, PipelineTypes, NormalizerTypes
<1> HIDE DEF Queue, Queued, Passed
<1>1. Came([k \in 1 .. Queue' |-> k])
  BY <1>0, PrefixCame
<1>2. ASSUME NEW q \in normalizer.committed + 1 .. normalizer.at
      PROVE  Passed(raw[q], Queue)'
  <2>1. Passed(raw[q], Queue) /\ q \in 1 .. Len(raw)
    BY <1>0 DEF OrderInv, ReadIsQueued
  <2>2. raw'[q] = raw[q]
    BY <2>1 DEF RawGrows
  <2> QED
    BY <2>1, <2>2 DEF Passed
<1>3. ReadIsQueued'
  BY <1>2 DEF ReadIsQueued
<1> QED
  BY <1>0, <1>1, <1>3, CameKeeps

\* The normalizer gives up on the record it reads, which is in norm-alarms or lost.
LEMMA SkipOrder ==
  ASSUME PipelineTypes, PipelineTypes', OrderInv, raw' = raw, Queue' = Queue,
         \A k \in 1 .. Queue : Queued(k)' = Queued(k), lost \subseteq lost',
         NEW x, x = raw[normalizer.at + 1], Passed(x, Queue)',
         normalizer'.at = normalizer.at + 1, normalizer'.committed = normalizer.committed
  PROVE  OrderInv'
<1>0. Queue \in Nat /\ normalizer.at \in Nat /\ normalizer.committed \in Nat
  BY ConsumerFields DEF Queue, PipelineTypes, NormalizerTypes
<1> HIDE DEF Queue, Queued, Passed
<1>1. Came([k \in 1 .. Queue' |-> k])
  BY <1>0, PrefixCame
<1>2. ASSUME NEW q \in normalizer.committed + 1 .. normalizer.at + 1
      PROVE  Passed(raw[q], Queue)'
  <2>1. CASE q = normalizer.at + 1
    BY <1>0, <2>1 DEF Passed
  <2>2. CASE q # normalizer.at + 1
    <3>1. Passed(raw[q], Queue)
      BY <1>0, <2>2 DEF OrderInv, ReadIsQueued
    <3> QED
      BY <3>1 DEF Passed
  <2> QED
    BY <2>1, <2>2
<1>3. ReadIsQueued'
  BY <1>2 DEF ReadIsQueued
<1>4. RawGrows
  BY DEF RawGrows, PipelineTypes, NormalizerTypes
<1> QED
  BY <1>0, <1>1, <1>3, <1>4, CameKeeps

\* Its producer gives up on the record at place n, the first of its buffer, which then is
\* in norm-alarms or lost.
LEMMA ExpireOrder ==
  ASSUME PipelineTypes, PipelineTypes', OrderInv, raw' = raw, lost \subseteq lost',
         NEW n \in 1 .. Queue, Queue' = Queue - 1,
         \A k \in 1 .. n - 1 : Queued(k)' = Queued(k),
         \A k \in n .. Queue - 1 : Queued(k)' = Queued(k + 1),
         (\E k \in 1 .. n - 1 : Queued(k) = Queued(n)) \/ Queued(n) \in lost',
         normalizer'.at = normalizer.at, normalizer'.committed = normalizer.committed
  PROVE  OrderInv'
<1>0. Queue \in Nat /\ n \in Nat /\ normalizer.at \in Nat /\ normalizer.committed \in Nat
  BY ConsumerFields DEF Queue, PipelineTypes, NormalizerTypes
<1> HIDE DEF Queue, Queued
<1> DEFINE old(i) == IF i < n THEN i ELSE i + 1
           place  == [i \in 1 .. Queue - 1 |-> old(i)]
<1>1. ASSUME NEW i \in 0 .. Queue - 1, NEW j \in 0 .. Queue, j <= i \/ (j = i + 1 /\ n <= j),
             NEW trap, Passed(trap, j)
      PROVE  Passed(trap, i)'
  <2>1. CASE trap \in lost
    BY <2>1 DEF Passed
  <2>2. CASE \E k \in 1 .. j : Queued(k) = trap
    <3>1. PICK k \in 1 .. j : Queued(k) = trap
      BY <2>2
    <3>2. CASE k < n
      <4>1. k \in 1 .. i /\ Queued(k)' = trap
        BY <1>0, <1>1, <3>1, <3>2
      <4> QED
        BY <4>1 DEF Passed
    <3>3. CASE k = n
      <4>1. CASE Queued(n) \in lost'
        BY <3>1, <3>3, <4>1 DEF Passed
      <4>2. CASE \E m \in 1 .. n - 1 : Queued(m) = Queued(n)
        <5>1. PICK m \in 1 .. n - 1 : Queued(m) = trap
          BY <3>1, <3>3, <4>2
        <5>2. m \in 1 .. i /\ Queued(m)' = trap
          BY <1>0, <1>1, <3>3, <5>1
        <5> QED
          BY <5>2 DEF Passed
      <4> QED
        BY <4>1, <4>2
    <3>4. CASE n < k
      <4>1. k - 1 \in n .. Queue - 1 /\ (k - 1) + 1 = k
        BY <1>0, <1>1, <3>4
      <4>2. Queued(k - 1)' = trap
        BY <3>1, <4>1
      <4>3. PICK m : m = k - 1
        OBVIOUS
      <4>4. m \in 1 .. i /\ Queued(m)' = trap
        BY <1>0, <1>1, <3>4, <4>2, <4>3
      <4> QED
        BY <4>4 DEF Passed
    <3> QED
      BY <1>0, <3>2, <3>3, <3>4
  <2> QED
    BY <1>1, <2>1, <2>2 DEF Passed
<1>2. \A i \in 1 .. Queue' : place[i] = old(i)
  OBVIOUS
<1> HIDE DEF place
<1>3. Came(place)
  <2>1. \A i \in 1 .. Queue' : place[i] \in 1 .. Queue /\ Queued(i)' = Queued(place[i])
    BY <1>0, <1>2
  <2>2. \A i, j \in 1 .. Queue' : i < j => place[i] < place[j]
    BY <1>0, <1>2
  <2>3. \A i \in 1 .. Queue' : \A trap : Passed(trap, place[i]) => Passed(trap, i)'
    <3> HIDE DEF Passed
    <3> QED
      BY <1>0, <1>1, <1>2
  <2> QED
    BY <2>1, <2>2, <2>3 DEF Came
<1>4. ReadIsQueued'
  <2>1. ASSUME NEW q \in normalizer.committed + 1 .. normalizer.at
        PROVE  Passed(raw[q], Queue)'
    <3>1. PICK x : x = raw[q]
      OBVIOUS
    <3>2. PICK m \in 0 .. Queue - 1 : m = Queue'
      BY <1>0
    <3>3. Passed(x, Queue)
      BY <3>1 DEF OrderInv, ReadIsQueued
    <3>4. Passed(x, m)'
      <4> HIDE DEF Passed
      <4> QED
        BY <1>0, <1>1, <3>2, <3>3
    <3> QED
      BY <3>1, <3>2, <3>4 DEF Passed
  <2> QED
    BY <2>1 DEF ReadIsQueued
<1>5. RawGrows
  BY DEF RawGrows, PipelineTypes, NormalizerTypes
<1> QED
  BY <1>0, <1>3, <1>4, <1>5, CameKeeps

\* The normalizer reads a record: whatever stands before it in the queue and is behind
\* it in raw-alarms was queued after an earlier copy of it.
LEMMA NormalizeOrder ==
  ASSUME PipelineTypes, PipelineTypes', OrderInv, raw' = raw, normalizer.at < Len(raw),
         NEW n, n = Queue + 1, Queue' = n, Queued(n)' = raw[normalizer.at + 1],
         \A k \in 1 .. Queue : Queued(k)' = Queued(k), lost' = lost,
         normalizer'.at = normalizer.at + 1, normalizer'.committed = normalizer.committed
  PROVE  OrderInv'
<1>0. Queue \in Nat /\ Len(raw) \in Nat
      /\ normalizer.at \in Nat /\ normalizer.committed \in Nat
      /\ normalizer.committed <= normalizer.at
  BY ConsumerFields DEF Queue, PipelineTypes, NormalizerTypes
<1> HIDE DEF Queue, Queued
<1> DEFINE x == raw[normalizer.at + 1]
<1>9. ASSUME NEW i \in 1 .. n, NEW j \in 0 .. Queue, j <= i, NEW trap, Passed(trap, j)
      PROVE  Passed(trap, i)'
  <2>1. CASE trap \in lost
    BY <2>1 DEF Passed
  <2>2. CASE \E k \in 1 .. j : Queued(k) = trap
    <3>1. PICK k \in 1 .. j : Queued(k) = trap
      BY <2>2
    <3>2. k \in 1 .. i /\ Queued(k)' = trap
      BY <1>0, <1>9, <3>1
    <3> QED
      BY <3>2 DEF Passed
  <2> QED
    BY <1>9, <2>1, <2>2 DEF Passed
<1>1. ReadIsQueued'
  <2>1. ASSUME NEW q \in normalizer.committed + 1 .. normalizer.at + 1
        PROVE  Passed(raw[q], n)'
    <3>1. CASE q = normalizer.at + 1
      <4>1. n \in 1 .. n /\ Queued(n)' = raw'[q]
        BY <1>0, <3>1
      <4> QED
        BY <4>1 DEF Passed
    <3>2. CASE q # normalizer.at + 1
      <4>1. PICK y : y = raw[q]
        OBVIOUS
      <4>2. Passed(y, Queue) /\ n \in 1 .. n /\ Queue \in 0 .. Queue /\ Queue <= n
        BY <1>0, <3>2, <4>1 DEF OrderInv, ReadIsQueued
      <4>3. Passed(y, n)'
        BY <1>9, <4>2
      <4> QED
        BY <4>1, <4>3 DEF Passed
    <3> QED
      BY <3>1, <3>2
  <2> QED
    BY <2>1 DEF ReadIsQueued
<1>2. ASSUME NEW i \in 1 .. n
      PROVE  \E p \in 1 .. Len(raw) :
               /\ raw[p] = Queued(i)'
               /\ \A q \in normalizer.committed + 1 .. p - 1 : Passed(raw[q], i)'
  <2>1. CASE i = n
    <3>1. \A q \in normalizer.committed + 1 .. normalizer.at : Passed(raw[q], n)'
      BY <1>0, <1>1 DEF ReadIsQueued
    <3>2. normalizer.at + 1 \in 1 .. Len(raw) /\ raw[normalizer.at + 1] = Queued(i)'
      BY <1>0, <2>1
    <3>3. \A q \in normalizer.committed + 1 .. (normalizer.at + 1) - 1 : Passed(raw[q], i)'
      BY <1>0, <2>1, <3>1
    <3> QED
      BY <3>2, <3>3
  <2>2. CASE i \in 1 .. Queue
    <3>1. PICK p \in 1 .. Len(raw) :
            /\ raw[p] = Queued(i)
            /\ \A q \in normalizer.committed + 1 .. p - 1 : Passed(raw[q], i)
      BY <2>2 DEF OrderInv, QueuedInOrder
    <3>2. \A q \in normalizer.committed + 1 .. p - 1 : Passed(raw[q], i)'
      <4>1. ASSUME NEW q \in normalizer.committed + 1 .. p - 1
            PROVE  Passed(raw[q], i)'
        <5>1. PICK y : y = raw[q]
          OBVIOUS
        <5>2. Passed(y, i) /\ i \in 0 .. Queue /\ i <= i
          BY <1>0, <2>2, <3>1, <5>1
        <5>3. Passed(y, i)'
          BY <1>9, <5>2
        <5> QED
          BY <5>1, <5>3 DEF Passed
      <4> QED
        BY <4>1
    <3> QED
      BY <2>2, <3>1, <3>2
  <2> QED
    BY <1>0, <2>1, <2>2
<1>3. ASSUME NEW i \in 1 .. n, NEW j \in 1 .. n, i < j, Queued(i)' > Queued(j)'
      PROVE  \/ Passed(Queued(j), i)'
             \/ \E k, m \in 1 .. Len(raw) : k < m /\ raw[k] = Queued(i)' /\ raw[m] = Queued(j)'
  <2>1. i \in 1 .. Queue /\ i \in 0 .. Queue /\ i <= i /\ Queued(i)' = Queued(i)
    BY <1>0, <1>3
  <2>2. CASE j \in 1 .. Queue
    <3>1. Queued(j)' = Queued(j)
      BY <2>2
    <3>2. PICK y : y = Queued(j)
      OBVIOUS
    <3>3. \/ Passed(y, i)
          \/ \E k, m \in 1 .. Len(raw) : k < m /\ raw[k] = Queued(i) /\ raw[m] = Queued(j)
      BY <1>3, <2>1, <2>2, <3>1, <3>2 DEF OrderInv, QueueReorders
    <3>4. CASE Passed(y, i)
      <4>1. Passed(y, i)'
        BY <1>9, <2>1, <3>4
      <4> QED
        BY <3>1, <3>2, <4>1 DEF Passed
    <3> QED
      BY <2>1, <3>1, <3>3, <3>4
  <2>3. CASE j = n
    <3>1. PICK p \in 1 .. Len(raw) :
            /\ raw[p] = Queued(i)
            /\ \A q \in normalizer.committed + 1 .. p - 1 : Passed(raw[q], i)
      BY <2>1 DEF OrderInv, QueuedInOrder
    <3>2. Queued(j)' = x
      BY <2>3
    <3>3. CASE p < normalizer.at + 1
      <4>1. normalizer.at + 1 \in 1 .. Len(raw) /\ raw[p] = Queued(i)'
        BY <1>0, <2>1, <3>1
      <4> QED
        BY <3>2, <3>3, <4>1
    <3>4. CASE p = normalizer.at + 1
      <4>1. Queued(i)' = x
        BY <2>1, <3>1, <3>4
      <4>2. x \in Trap
        <5>1. raw \in Seq(Trap)
          BY DEF PipelineTypes, NormalizerTypes
        <5>2. normalizer.at + 1 \in 1 .. Len(raw)
          BY <1>0
        <5> QED
          BY <5>1, <5>2
      <4>3. x \in Nat
        BY <4>2, PipelineAssumption DEF Trap
      <4> QED
        BY <1>3, <3>2, <4>1, <4>3
    <3>5. CASE normalizer.at + 1 < p
      <4>1. normalizer.at + 1 \in normalizer.committed + 1 .. p - 1
        BY <1>0, <3>5
      <4>2. PICK y : y = x
        OBVIOUS
      <4>3. Passed(y, i)
        BY <3>1, <4>1, <4>2
      <4>4. Passed(y, i)'
        BY <1>9, <2>1, <4>3
      <4> QED
        BY <3>2, <4>2, <4>4 DEF Passed
    <3> QED
      BY <1>0, <3>3, <3>4, <3>5
  <2> QED
    BY <1>0, <2>2, <2>3
<1>4. QueuedInOrder'
  BY <1>2 DEF QueuedInOrder
<1>5. QueueReorders'
  BY <1>3 DEF QueueReorders
<1> QED
  BY <1>1, <1>4, <1>5 DEF OrderInv

\* The normalizer crashes: the queue is cut back to norm-alarms, and the offsets become
\* one that lies between them.
LEMMA CrashOrder ==
  ASSUME PipelineTypes, PipelineTypes', OrderInv, raw' = raw, lost \subseteq lost',
         NEW n \in 0 .. Queue, Queue' = n,
         \A k \in 1 .. n : Queued(k)' = Queued(k),
         normalizer'.at = normalizer'.committed, normalizer.committed <= normalizer'.committed
  PROVE  OrderInv'
<1>0. Queue \in Nat /\ normalizer'.committed \in Nat
  BY ConsumerFields DEF Queue, PipelineTypes, NormalizerTypes
<1> HIDE DEF Queue, Queued
<1>1. Came([k \in 1 .. Queue' |-> k])
  BY <1>0, PrefixCame
<1>2. ReadIsQueued'
  BY <1>0 DEF ReadIsQueued
<1>3. RawGrows
  BY DEF RawGrows, PipelineTypes, NormalizerTypes
<1> QED
  BY <1>1, <1>2, <1>3, CameKeeps

\* Every step is one of the three.
LEMMA OrderKept ==
  ASSUME PipelineTypes, PipelineTypes', OrderInv, [PipelineNext]_pipelineVars
  PROVE  OrderInv'
<1>0. /\ raw \in Seq(Trap) /\ norm \in Seq(Trap) /\ normalizer.buffer \in Seq(Trap)
      /\ normalizer.at \in Nat /\ normalizer.committed \in Nat
  BY DEF PipelineTypes, NormalizerTypes
<1>1. CASE Normalize
  <2>1. normalizer.at < Len(raw) /\ raw' = raw /\ norm' = norm
    BY <1>1 DEF Normalize
  <2>2. raw[normalizer.at + 1] \in Trap
    BY <1>0, <2>1
  <2>3. /\ normalizer'.buffer = Append(normalizer.buffer, raw[normalizer.at + 1])
        /\ normalizer'.at = normalizer.at + 1 /\ normalizer'.committed = normalizer.committed
    BY <1>1 DEF Normalize, PipelineTypes, NormalizerTypes
  <2> DEFINE n == Queue + 1
  <2>4. Queue' = n
    BY <1>0, <2>1, <2>2, <2>3 DEF Queue
  <2>5. n \in Nat /\ Len(norm) < n /\ n - Len(norm) = Len(normalizer.buffer) + 1
    BY <1>0 DEF Queue
  <2>6. ~ (n <= Len(norm)) /\ normalizer'.buffer[n - Len(norm)] = raw[normalizer.at + 1]
    BY <1>0, <2>2, <2>3, <2>5
  <2>7. \A k \in 1 .. Queue :
          (IF k <= Len(norm') THEN norm'[k] ELSE normalizer'.buffer[k - Len(norm')]) = Queued(k)
    BY <1>0, <2>1, <2>2, <2>3 DEF Queue, Queued
  <2>8. \A k \in 1 .. Queue : Queued(k)' = Queued(k)
    BY <2>7 DEF Queued
  <2>9. PICK m : m = n
    OBVIOUS
  <2>10. Queued(m)' = raw[normalizer.at + 1]
    BY <2>1, <2>6, <2>9 DEF Queued
  <2> HIDE DEF n
  <2>11. m = Queue + 1 /\ Queue' = m
    BY <2>4, <2>9 DEF n
  <2>12. lost' = lost
    BY <1>1 DEF Normalize
  <2> QED
    BY <2>1, <2>3, <2>8, <2>10, <2>11, <2>12, NormalizeOrder
<1>2. CASE DeliverNorm
  <2> DEFINE held == normalizer.buffer
  <2>1. /\ held # <<>> /\ raw' = raw /\ norm' = Append(norm, Head(held))
        /\ normalizer'.buffer = Tail(held)
        /\ normalizer'.at = normalizer.at /\ normalizer'.committed = normalizer.committed
    BY <1>2 DEF DeliverNorm, PipelineTypes, NormalizerTypes
  <2>2. /\ Len(held) \in Nat \ {0} /\ Len(Tail(held)) = Len(held) - 1 /\ Head(held) = held[1]
        /\ Head(held) \in Trap /\ \A k \in 1 .. Len(held) - 1 : Tail(held)[k] = held[k + 1]
    BY <1>0, <2>1, TailFacts
  <2>3. /\ Len(norm') = Len(norm) + 1 /\ norm'[Len(norm) + 1] = held[1]
        /\ \A k \in 1 .. Len(norm) : norm'[k] = norm[k]
    BY <1>0, <2>1, <2>2, AppendFacts
  <2>4. Queue' = Queue
    <3>1. PICK a, b : a = Len(norm) /\ b = Len(normalizer.buffer)
      OBVIOUS
    <3>2. a \in Nat /\ b \in Nat
      BY <1>0, <3>1
    <3>3. Len(norm)' = a + 1 /\ Len(normalizer.buffer)' = b - 1
      BY <2>1, <2>2, <2>3, <3>1
    <3>4. Queue' = (a + 1) + (b - 1)
      BY <3>3 DEF Queue
    <3>5. Queue = a + b
      BY <3>1 DEF Queue
    <3> QED
      BY <3>2, <3>4, <3>5
  <2>5. ASSUME NEW k \in 1 .. Queue
        PROVE  (IF k <= Len(norm') THEN norm'[k] ELSE normalizer'.buffer[k - Len(norm')]) = Queued(k)
    <3> HIDE DEF held
    <3>0. k \in Nat /\ Len(norm) \in Nat /\ k <= Len(norm) + Len(held) /\ 1 <= k
      BY <1>0, <2>2 DEF Queue, held
    <3>1. CASE k <= Len(norm)
      BY <2>3, <3>0, <3>1 DEF Queued
    <3>2. CASE k = Len(norm) + 1
      <4>1. Queued(k) = held[1]
        BY <3>0, <3>2 DEF Queued, held
      <4> QED
        BY <2>3, <3>0, <3>2, <4>1
    <3>3. CASE Len(norm) + 1 < k
      <4>1. Queued(k) = held[k - Len(norm)]
        BY <3>0, <3>3 DEF Queued, held
      <4>2. k - (Len(norm) + 1) \in 1 .. Len(held) - 1 /\ (k - (Len(norm) + 1)) + 1 = k - Len(norm)
        BY <2>2, <3>0, <3>3
      <4>3. Tail(held)[k - (Len(norm) + 1)] = held[k - Len(norm)]
        BY <2>2, <4>2
      <4> QED
        BY <2>1, <2>3, <3>0, <3>3, <4>1, <4>3
    <3> QED
      BY <3>0, <3>1, <3>2, <3>3
  <2>6. \A k \in 1 .. Queue : Queued(k)' = Queued(k)
    BY <2>5 DEF Queued
  <2>7. RawGrows /\ lost' = lost
    BY <1>0, <1>2, <2>1 DEF RawGrows, DeliverNorm
  <2> QED
    BY <2>1, <2>4, <2>6, <2>7, QuietOrder
<1>3. CASE NormalizerCrash
  <2>1. PICK offset \in normalizer.committed .. normalizer.at :
          normalizer' = [at |-> offset, committed |-> offset, buffer |-> <<>>]
    BY <1>3 DEF NormalizerCrash
  <2>2. raw' = raw /\ norm' = norm /\ lost \subseteq lost'
    BY <1>3 DEF NormalizerCrash
  <2>3. PICK n : n = Len(norm)
    OBVIOUS
  <2>4. n \in 0 .. Queue /\ Queue' = n
    BY <1>0, <2>1, <2>2, <2>3 DEF Queue
  <2>5. \A k \in 1 .. n : Queued(k)' = Queued(k)
    BY <1>0, <2>2, <2>3 DEF Queued
  <2>6. normalizer'.at = normalizer'.committed /\ normalizer.committed <= normalizer'.committed
    BY <1>0, <2>1
  <2> QED
    BY <2>2, <2>4, <2>5, <2>6, CrashOrder
<1>5. CASE NormalizeFails
  <2>1. /\ raw' = raw /\ norm' = norm /\ normalizer'.buffer = normalizer.buffer
        /\ normalizer'.at = normalizer.at + 1 /\ normalizer'.committed = normalizer.committed
        /\ lost' = lost \cup GivenUp(raw[normalizer.at + 1])
    BY <1>5 DEF NormalizeFails, PipelineTypes, NormalizerTypes
  <2>2. Queue' = Queue /\ \A k \in 1 .. Queue : Queued(k)' = Queued(k)
    BY <2>1 DEF Queue, Queued
  <2>3. PICK x : x = raw[normalizer.at + 1]
    OBVIOUS
  <2>4. Passed(x, Queue)'
    <3>1. CASE x \in Elements(norm)
      <4>1. PICK k \in 1 .. Len(norm) : norm[k] = x
        BY <1>0, <3>1 DEF Elements
      <4>2. k \in 1 .. Queue' /\ Queued(k)' = x
        BY <1>0, <2>1, <2>2, <4>1 DEF Queue, Queued
      <4> QED
        BY <4>2 DEF Passed
    <3>2. CASE x \notin Elements(norm)
      BY <2>1, <2>3, <3>2 DEF GivenUp, Passed
    <3> QED
      BY <3>1, <3>2
  <2> QED
    BY <2>1, <2>2, <2>3, <2>4, SkipOrder
<1>6. CASE ExpireNorm
  <2> DEFINE held == normalizer.buffer
  <2>1. /\ held # <<>> /\ raw' = raw /\ norm' = norm /\ normalizer'.buffer = Tail(held)
        /\ normalizer'.at = normalizer.at /\ normalizer'.committed = normalizer.committed
        /\ lost' = lost \cup GivenUp(Head(held))
    BY <1>6 DEF ExpireNorm, PipelineTypes, NormalizerTypes
  <2>2. /\ Len(held) \in Nat \ {0} /\ Len(Tail(held)) = Len(held) - 1 /\ Head(held) = held[1]
        /\ \A k \in 1 .. Len(held) - 1 : Tail(held)[k] = held[k + 1]
    BY <1>0, <2>1, TailFacts
  <2>3. PICK n : n = Len(norm) + 1
    OBVIOUS
  <2>4. n \in 1 .. Queue /\ Queue' = Queue - 1 /\ Queue = (n - 1) + Len(held) /\ Len(norm) = n - 1
        /\ n \in Nat
    BY <1>0, <2>1, <2>2, <2>3 DEF Queue
  <2>5. \A k \in 1 .. n - 1 : Queued(k)' = Queued(k) /\ Queued(k) = norm[k]
    BY <2>1, <2>4 DEF Queued
  <2>6. Queued(n) = held[1]
    BY <2>4 DEF Queued
  <2>7. ASSUME NEW k \in n .. Queue - 1
        PROVE  Queued(k)' = Queued(k + 1)
    <3>1. ~ (k <= Len(norm)) /\ ~ (k + 1 <= Len(norm)) /\ k - Len(norm) \in 1 .. Len(held) - 1
          /\ (k + 1) - Len(norm) = (k - Len(norm)) + 1
      BY <2>2, <2>4
    <3>2. Queued(k + 1) = held[(k - Len(norm)) + 1]
      BY <3>1 DEF Queued
    <3>3. Queued(k)' = Tail(held)[k - Len(norm)]
      BY <2>1, <3>1 DEF Queued
    <3> QED
      BY <2>2, <3>1, <3>2, <3>3
  <2>8. (\E k \in 1 .. n - 1 : Queued(k) = Queued(n)) \/ Queued(n) \in lost'
    <3>1. CASE Head(held) \in Elements(norm)
      <4>1. PICK k \in 1 .. Len(norm) : norm[k] = Head(held)
        BY <1>0, <3>1 DEF Elements
      <4> QED
        BY <2>2, <2>4, <2>5, <2>6, <4>1
    <3>2. CASE Head(held) \notin Elements(norm)
      BY <2>1, <2>2, <2>6, <3>2 DEF GivenUp
    <3> QED
      BY <3>1, <3>2
  <2>9. lost \subseteq lost'
    BY <2>1
  <2> QED
    BY <2>1, <2>4, <2>5, <2>7, <2>8, <2>9, ExpireOrder
<1>4. CASE ~ (Normalize \/ NormalizeFails \/ DeliverNorm \/ ExpireNorm \/ NormalizerCrash)
  <2>1. UNCHANGED <<norm, normalizer>> /\ lost \subseteq lost'
    <3>1. CASE Receive \/ LoseDatagram \/ Publish \/ PublishFails \/ DeliverRaw \/ ExpireRaw \/ BackendCrash
      BY <3>1 DEF Receive, LoseDatagram, Publish, PublishFails, DeliverRaw, ExpireRaw, BackendCrash, pipe
    <3>2. CASE Handle \/ HandlingFails \/ SendEvent \/ DeliverEvent \/ ExpireEvent \/ CorrelatorCrash
      BY <3>2 DEF Handle, HandlingFails, SendEvent, DeliverEvent, ExpireEvent, CorrelatorCrash
    <3>3. CASE Relay \/ Show \/ StartResync \/ FinishResync
      BY <3>3 DEF Relay, Show, StartResync, FinishResync, pipe
    <3>4. CASE UNCHANGED pipelineVars
      BY <3>4 DEF pipelineVars
    <3> QED
      BY <1>4, <3>1, <3>2, <3>3, <3>4 DEF PipelineNext, PipelineFailure
  <2>2. RawGrows
    <3>1. CASE DeliverRaw
      <4>1. Head(buffer) \in Trap
        BY <3>1, TailFacts DEF DeliverRaw, PipelineTypes, BackendTypes
      <4> QED
        BY <1>0, <3>1, <4>1, AppendFacts DEF DeliverRaw, RawGrows
    <3>2. CASE raw' = raw
      BY <1>0, <3>2 DEF RawGrows
    <3>3. CASE Receive \/ LoseDatagram \/ Publish \/ PublishFails \/ ExpireRaw \/ BackendCrash
      BY <3>2, <3>3 DEF Receive, LoseDatagram, Publish, PublishFails, ExpireRaw, BackendCrash, pipe
    <3>4. CASE Handle \/ HandlingFails \/ SendEvent \/ DeliverEvent \/ ExpireEvent \/ CorrelatorCrash
      BY <3>2, <3>4 DEF Handle, HandlingFails, SendEvent, DeliverEvent, ExpireEvent, CorrelatorCrash
    <3>5. CASE Relay \/ Show \/ StartResync \/ FinishResync
      BY <3>2, <3>5 DEF Relay, Show, StartResync, FinishResync, pipe
    <3>6. CASE UNCHANGED pipelineVars
      BY <3>2, <3>6 DEF pipelineVars
    <3> QED
      BY <1>4, <3>1, <3>3, <3>4, <3>5, <3>6 DEF PipelineNext, PipelineFailure
  <2>3. Queue' = Queue /\ \A k \in 1 .. Queue : Queued(k)' = Queued(k)
    BY <2>1 DEF Queue, Queued
  <2> QED
    BY <2>1, <2>2, <2>3, QuietOrder
<1> QED
  BY <1>1, <1>2, <1>3, <1>4, <1>5, <1>6

\* At first the queue is empty.
LEMMA OrderInitSound == PipelineInit => OrderInv
  BY DEF PipelineInit, OrderInv, ReadIsQueued, QueuedInOrder, QueueReorders, Queue, Queued, Passed

\* The queue begins with norm-alarms.
LEMMA QueueShowsTopic == PipelineTypes /\ OrderInv => OnlyThreadsReorder
<1> SUFFICES ASSUME PipelineTypes, OrderInv,
                    NEW i \in DOMAIN norm, NEW j \in DOMAIN norm, i < j, norm[i] > norm[j]
             PROVE  \/ \E k \in 1 .. i : norm[k] = norm[j]
                    \/ norm[j] \in lost
                    \/ \E k, m \in DOMAIN raw : k < m /\ raw[k] = norm[i] /\ raw[m] = norm[j]
  BY DEF OnlyThreadsReorder
<1>1. /\ DOMAIN norm = 1 .. Len(norm) /\ DOMAIN raw = 1 .. Len(raw) /\ Len(norm) \in Nat
      /\ Len(normalizer.buffer) \in Nat
  BY DEF PipelineTypes, NormalizerTypes
<1>2. \A k \in 1 .. Len(norm) : k \in 1 .. Queue /\ Queued(k) = norm[k]
  BY <1>1 DEF Queue, Queued
<1>3. i \in 1 .. Queue /\ j \in 1 .. Queue /\ Queued(i) = norm[i] /\ Queued(j) = norm[j]
  BY <1>1, <1>2
<1>4. \/ Passed(Queued(j), i)
      \/ \E k, m \in 1 .. Len(raw) : k < m /\ raw[k] = Queued(i) /\ raw[m] = Queued(j)
  BY <1>3 DEF OrderInv, QueueReorders
<1>5. CASE \E k \in 1 .. i : Queued(k) = Queued(j)
  <2>1. PICK k \in 1 .. i : Queued(k) = Queued(j)
    BY <1>5
  <2>2. k \in 1 .. Len(norm)
    BY <1>1
  <2> QED
    BY <1>2, <1>3, <2>1, <2>2
<1>6. CASE \E k, m \in 1 .. Len(raw) : k < m /\ raw[k] = Queued(i) /\ raw[m] = Queued(j)
  BY <1>1, <1>3, <1>6
<1>7. CASE Queued(j) \in lost
  BY <1>3, <1>7
<1> QED
  BY <1>4, <1>5, <1>6, <1>7 DEF Passed

\* Two traps are handled in the wrong order only if the listener's threads published
\* them in it, in a stretch of the topic that is read again, or if the normalizer gave up
\* on the earlier one at first: it and its producer keep the order, also across crashes.
THEOREM OnlyThreadsReorderHolds == PipelineSpec => []OnlyThreadsReorder
<1>1. PipelineInit => StoreInv /\ OrderInv
  BY StoreInitSound, OrderInitSound
<1>2. StoreInv /\ OrderInv /\ [PipelineNext]_pipelineVars => (StoreInv /\ OrderInv)'
  BY TypesKept, StoreKept, OrderKept DEF StoreInv
<1>3. StoreInv /\ OrderInv => OnlyThreadsReorder
  BY QueueShowsTopic DEF StoreInv
<1> QED
  BY <1>1, <1>2, <1>3, PTL DEF PipelineSpec

-----------------------------------------------------------------------------
(* The faults of fibers *)

Fault == [id : Ids, span : Spans, fleet : 0 .. Resets]

\* The inductive invariant: OneTaskPerFault is one given the types.
FaultInv == FaultTypeOK /\ fleet \in 0 .. Resets /\ OneTaskPerFault

\* What the fault loop starts with keeps the invariant.
LEMMA FaultInitSound == FaultInit => FaultInv
  BY FaultAssumption DEF FaultInit, FaultInv, FaultTypeOK, OneTaskPerFault

\* A fault begins at a peering that is not reserved: if one of an earlier fleet
\* has its id, that one is not reserved either, and so has outlived its fleet.
LEMMA StartKeeps ==
  ASSUME FaultInv, NEW id \in Ids, NEW span \in Spans, StartFiberFault(id, span)
  PROVE  FaultInv'
<1> DEFINE new == [id |-> id, span |-> span, fleet |-> fleet]
<1>1. new \in Fault
  BY DEF FaultInv, Fault
<1>2. FaultTypeOK' /\ (fleet \in 0 .. Resets)'
  BY <1>1 DEF FaultInv, FaultTypeOK, StartFiberFault, Eligible, Fault
<1>3. \A g \in faults : g.id = id => id \in outlived
  BY DEF FaultInv, OneTaskPerFault, StartFiberFault, Eligible
<1>4. \A f, g \in faults' : f.id = g.id => f = g \/ f.id \in outlived'
  BY <1>3 DEF FaultInv, OneTaskPerFault, StartFiberFault
<1>5. {f.id : f \in faults'} \subseteq active' \cup outlived'
  BY DEF FaultInv, OneTaskPerFault, StartFiberFault
<1>6. new \in faults' /\ new.id = id /\ faults \subseteq faults'
  BY DEF StartFiberFault
<1>7. ASSUME NEW a \in active'
      PROVE  a \in {f.id : f \in faults'} \/ \E gone \in abandoned' : a = gone[1]
  <2>1. CASE a = id
    BY <1>6, <2>1
  <2>2. CASE a # id
    <3>1. a \in {f.id : f \in faults} \/ \E gone \in abandoned : a = gone[1]
      BY <2>2 DEF FaultInv, OneTaskPerFault, StartFiberFault
    <3>2. \A gone \in abandoned : a = gone[1] => gone \in abandoned'
      BY <2>2 DEF StartFiberFault
    <3> QED
      BY <1>6, <3>1, <3>2
  <2> QED
    BY <2>1, <2>2
<1> QED
  BY <1>2, <1>4, <1>5, <1>7 DEF FaultInv, OneTaskPerFault

\* A fault whose start raises has its task gone and its reservation left.
LEMMA StartRaisesKeeps ==
  ASSUME FaultInv, NEW id \in Ids, NEW span \in Spans, StartRaises(id, span)
  PROVE  FaultInv'
<1>1. FaultTypeOK' /\ (fleet \in 0 .. Resets)'
  BY DEF FaultInv, FaultTypeOK, StartRaises, Eligible
<1>2. \A a \in active' : a \in {f.id : f \in faults'} \/ \E gone \in abandoned' : a = gone[1]
  <2> SUFFICES ASSUME NEW a \in active'
               PROVE  a \in {f.id : f \in faults'} \/ \E gone \in abandoned' : a = gone[1]
    OBVIOUS
  <2>1. faults' = faults /\ a \in active \cup {id} /\ abandoned' = abandoned \cup {<<id, span>>}
    BY DEF StartRaises
  <2>2. CASE a = id
    <3>1. PICK gone : gone = <<id, span>>
      OBVIOUS
    <3>2. gone[1] = id
      BY <3>1
    <3>3. gone \in abandoned'
      BY <2>1, <3>1
    <3> QED
      BY <2>2, <3>2, <3>3
  <2>3. CASE a \in active
    BY <2>1, <2>3 DEF FaultInv, OneTaskPerFault
  <2> QED
    BY <2>1, <2>2, <2>3
<1> QED
  BY <1>1, <1>2 DEF FaultInv, OneTaskPerFault, StartRaises

\* What all ends of a task have in common: of two tasks with one id, each knows
\* that the id is outlived, and the one that is left keeps it so.
LEMMA EndsKeeps ==
  ASSUME FaultInv, NEW fault, Ends(fault), active' \in {active, active \ {fault.id}}
  PROVE  /\ \A f, g \in faults' : f.id = g.id => f = g \/ f.id \in outlived'
         /\ {f.id : f \in faults'} \subseteq active' \cup outlived'
<1>1. \A g \in faults' : g \in faults /\ g # fault
  BY DEF Ends
<1>2. \A g \in faults' : g.id \in outlived => g.id \in outlived'
  BY DEF Ends
<1>3. \A g \in faults' : g.id = fault.id => g.id \in outlived
  BY <1>1 DEF FaultInv, OneTaskPerFault, Ends
<1> QED
  BY <1>1, <1>2, <1>3 DEF FaultInv, OneTaskPerFault

\* A fault that ends takes its reservation with it.
LEMMA EndKeeps ==
  ASSUME FaultInv, NEW fault \in faults, EndFiberFault(fault)
  PROVE  FaultInv'
<1>1. FaultTypeOK' /\ (fleet \in 0 .. Resets)'
  BY DEF FaultInv, FaultTypeOK, EndFiberFault, Ends
<1>2. Ends(fault) /\ active' = active \ {fault.id}
  BY DEF EndFiberFault
<1>3. \A a \in active' : a \in {f.id : f \in faults'} \/ \E gone \in abandoned' : a = gone[1]
  BY DEF FaultInv, OneTaskPerFault, EndFiberFault, Ends
<1> QED
  BY <1>1, <1>2, <1>3, EndsKeeps DEF FaultInv, OneTaskPerFault

\* One that raises leaves its reservation, and is known to have been abandoned.
LEMMA EndRaisesKeeps ==
  ASSUME FaultInv, NEW fault \in faults, EndRaises(fault)
  PROVE  FaultInv'
<1>1. FaultTypeOK' /\ (fleet \in 0 .. Resets)'
  BY DEF FaultInv, FaultTypeOK, EndRaises, Ends, CutBy
<1>2. Ends(fault) /\ active' = active
  BY DEF EndRaises
<1>3. ASSUME NEW a \in active'
      PROVE  a \in {f.id : f \in faults'} \/ \E gone \in abandoned' : a = gone[1]
  <2>1. <<fault.id, fault.span>> \in abandoned'
    BY DEF EndRaises, CutBy
  <2>2. a = fault.id => \E gone \in abandoned' : a = gone[1]
    BY <2>1
  <2>3. a # fault.id => a \in {f.id : f \in faults'} \/ \E gone \in abandoned' : a = gone[1]
    BY <1>2 DEF FaultInv, OneTaskPerFault, EndRaises, Ends
  <2> QED
    BY <2>2, <2>3
<1> QED
  BY <1>1, <1>2, <1>3, EndsKeeps DEF FaultInv, OneTaskPerFault

\* Every step keeps the invariant.
LEMMA FaultNextKeeps == FaultInv /\ [FaultNext]_faultVars => FaultInv'
<1> SUFFICES ASSUME FaultInv, [FaultNext]_faultVars PROVE FaultInv'
  OBVIOUS
<1>1. CASE \E id \in Ids, span \in Spans : StartFiberFault(id, span)
  BY <1>1, StartKeeps
<1>2. CASE \E id \in Ids, span \in Spans : StartRaises(id, span)
  BY <1>2, StartRaisesKeeps
<1>3. CASE \E fault \in faults : EndFiberFault(fault)
  BY <1>3, EndKeeps
<1>4. CASE \E fault \in faults : EndRaises(fault)
  BY <1>4, EndRaisesKeeps
<1>5. CASE RestartForgetsFaults
  BY <1>5 DEF FaultInv, FaultTypeOK, OneTaskPerFault, RestartForgetsFaults, CutBy
<1>6. CASE DeleteFleet
  <2>1. FaultTypeOK' /\ (fleet \in 0 .. Resets)'
    BY <1>6, FaultAssumption DEF FaultInv, FaultTypeOK, DeleteFleet
  <2> QED
    BY <1>6, <2>1 DEF FaultInv, OneTaskPerFault, DeleteFleet
<1>7. CASE \E id \in Ids : SessionChanges(id) \/ SeedPeering(id)
  BY <1>7 DEF FaultInv, FaultTypeOK, OneTaskPerFault, SessionChanges, SeedPeering
<1>8. CASE Switch \/ ResolveAllCuts \/ UNCHANGED faultVars
  BY <1>8 DEF FaultInv, FaultTypeOK, OneTaskPerFault, Switch, ResolveAllCuts, faultVars
<1> QED
  BY <1>1, <1>2, <1>3, <1>4, <1>5, <1>6, <1>7, <1>8 DEF FaultNext

\* The types of the fault loop's state and one task per fault, always.
THEOREM FaultInvariant == FaultSpec => []FaultInv
<1>1. FaultInit => FaultInv
  BY FaultInitSound
<1>2. FaultInv /\ [FaultNext]_faultVars => FaultInv'
  BY FaultNextKeeps
<1> QED
  BY <1>1, <1>2, PTL DEF FaultSpec

\* A fault has one task and a peering one fault (fiber_fault_loop reserves it in
\* active_faults), but for tasks that outlived the fleet they were started in.
THEOREM OneTaskPerFaultHolds == FaultSpec => []OneTaskPerFault
<1>1. FaultInv => OneTaskPerFault
  BY DEF FaultInv
<1> QED
  BY <1>1, FaultInvariant, PTL

-----------------------------------------------------------------------------
(* The two together *)

\* The pipeline and the fiber faults side by side are each what they are alone: what is
\* proved of either holds of both.
THEOREM AlarmsAreTheirParts == AlarmSpec => PipelineSpec /\ FaultSpec
<1>1. AlarmInit => PipelineInit /\ FaultInit
  BY DEF AlarmInit
<1>2. [AlarmNext]_alarmVars => [PipelineNext]_pipelineVars /\ [FaultNext]_faultVars
  BY DEF AlarmNext, alarmVars
<1> QED
  BY <1>1, <1>2, PTL DEF AlarmSpec, PipelineSpec, FaultSpec

\* The types of all state of the two components.
THEOREM AlarmTypesHold == AlarmSpec => []AlarmTypeOK
<1>1. FaultInv => FaultTypeOK
  BY DEF FaultInv
<1>2. PipelineTypeOK /\ FaultTypeOK => AlarmTypeOK
  BY DEF AlarmTypeOK
<1> QED
  BY <1>1, <1>2, AlarmsAreTheirParts, PipelineTypeCorrect, FaultInvariant, PTL
=============================================================================
