--------------------------- MODULE TransportProofs ---------------------------
(***************************************************************************)
(* The transport, for every depth of queue and ring, every set of channels  *)
(* and any number of sends: packets leave in order and on the channel they  *)
(* are meant for, a side trip leaves nothing behind, and the records of     *)
(* motion stay in step with the packets.                                   *)
(*                                                                         *)
(* The argument for the radio's side: the queue is sorted by number and     *)
(* nothing in it is older than the packet on the air, which is no older     *)
(* than what was heard last; everything queued is meant for the channel the *)
(* radio is set to; and a side trip holds at most its own packet, on the    *)
(* air until the event.  For the records: a push adds one to the ring and   *)
(* to the queue, an event takes one off each, and a report under way has    *)
(* read the count that still holds.                                        *)
(***************************************************************************)
EXTENDS Transport, FiniteSetTheorems, FunctionTheorems, SequenceTheorems,
        TLAPS

\* The types the argument needs.
RadioTypeOK ==
    /\ tx_fifo \in Seq(Packets)
    /\ pdu \in [pkt : Packets, chan : Channels] \cup {NoPdu}
    /\ rf_channel \in Channels /\ m_addr_channel \in Channels
    /\ sends \in Nat /\ heard \in Nat
    /\ trip \in {"no", "wait"}
    /\ m_sync_tx_in_progress \in BOOLEAN /\ stray \in BOOLEAN
    /\ mouse # NoSend =>
          /\ sends <= MaxSends
          /\ mouse \in [at : {"apply", "push"}, motion : Nat, refunds : BOOLEAN,
                         count : Nat, overwritten : BOOLEAN]
          /\ mouse.at = "push" => mouse.motion <= Int16Max
    /\ m_motion_refund \in Nat
    /\ m_pointer_inflight_count \in Nat
    /\ m_recent_motion \in Seq(Nat)

\* Numbers never go backwards.
Sorted ==
    /\ heard <= sends
    /\ \A i \in DOMAIN tx_fifo : heard <= tx_fifo[i].id /\ tx_fifo[i].id <= sends
    /\ \A i, j \in DOMAIN tx_fifo : i < j => tx_fifo[i].id < tx_fifo[j].id
    /\ pdu # NoPdu =>
          /\ heard <= pdu.pkt.id /\ pdu.pkt.id <= sends
          /\ \A i \in DOMAIN tx_fifo : pdu.pkt.id <= tx_fifo[i].id

\* As long as no side trip was disturbed, the radio is where it should be.
OnChannel ==
    ~stray =>
        /\ \A i \in DOMAIN tx_fifo : tx_fifo[i].chan = rf_channel
        /\ pdu # NoPdu => pdu.chan = pdu.pkt.chan
        /\ trip = "no" => rf_channel = m_addr_channel
        /\ trip = "wait" => /\ Len(tx_fifo) <= 1
                            /\ pdu = NoPdu => tx_fifo = <<>>
                            /\ ~m_sync_tx_in_progress => pdu = NoPdu

FlagCleared == trip = "no" => ~m_sync_tx_in_progress

RadioInv == RadioTypeOK /\ Sorted /\ OnChannel /\ FlagCleared

----------------------------------------------------------------------------
(* The primitives.                                                          *)

\* Packets are numbered.
LEMMA PacketIds ==
    /\ \A q \in Packets : q.id \in Nat
    /\ \A seq \in Seq(Packets) : \A i \in DOMAIN seq : seq[i].id \in Nat
<1>1. \A q \in Packets : q.id \in Nat
  BY MaxSendsAssumption DEF Packets
<1>2. \A seq \in Seq(Packets) : \A i \in DOMAIN seq : seq[i] \in Packets
  OBVIOUS
<1> QED
  BY <1>1, <1>2

\* esb_write_payload appends the youngest packet of all; an idle radio takes
\* the oldest.
LEMMA WriteSorted ==
    ASSUME RadioTypeOK, Sorted, NEW fifo \in {tx_fifo, <<>>}, NEW kind \in Kinds,
           NEW motion \in 0..Int16Max, NEW chan \in Channels, sends <= MaxSends,
           rf_channel' \in Channels, heard' = heard,
           esb_write_payload(fifo, kind, motion, chan)
    PROVE  /\ sends' = sends + 1 /\ sends' \in Nat
           /\ tx_fifo' \in Seq(Packets)
           /\ pdu' \in [pkt : Packets, chan : Channels] \cup {NoPdu}
           /\ Sorted'
<1> DEFINE pkt == [id |-> sends + 1, kind |-> kind, motion |-> motion, chan |-> chan]
<1>1. sends' = sends + 1 /\ sends' \in Nat /\ pkt \in Packets
  BY MaxSendsAssumption DEF esb_write_payload, RadioTypeOK, Packets
<1>2. fifo \in Seq(Packets)
  <2>1. CASE fifo = tx_fifo
    BY <2>1 DEF RadioTypeOK
  <2>2. CASE fifo = <<>>
    <3>1. <<>> \in Seq(Packets)
      OBVIOUS
    <3> QED
      BY <2>2, <3>1
  <2> QED
    BY <2>1, <2>2
<1>3. /\ \A i \in DOMAIN fifo : heard <= fifo[i].id /\ fifo[i].id <= sends
      /\ \A i, j \in DOMAIN fifo : i < j => fifo[i].id < fifo[j].id
      /\ pdu # NoPdu => \A i \in DOMAIN fifo : pdu.pkt.id <= fifo[i].id
  BY DEF Sorted
<1>4. CASE ~Writable(fifo)
  <2>1. tx_fifo' = fifo /\ pdu' = pdu
    BY <1>4 DEF esb_write_payload
  <2> QED
    <3>1. \A i \in DOMAIN fifo : fifo[i].id \in Nat
      BY <1>2, PacketIds
    <3>2. heard \in Nat /\ sends \in Nat /\ heard <= sends
      BY DEF RadioTypeOK, Sorted
    <3>3. pdu # NoPdu => pdu.pkt \in Packets
      BY DEF RadioTypeOK
    <3>4. pdu # NoPdu => pdu.pkt.id \in Nat /\ heard <= pdu.pkt.id /\ pdu.pkt.id <= sends
      BY <3>3, PacketIds DEF Sorted
    <3>5. Sorted'
      BY <1>1, <1>3, <2>1, <3>1, <3>2, <3>4 DEF Sorted
    <3> QED
      BY <1>1, <1>2, <2>1, <3>5 DEF RadioTypeOK
<1>5. CASE Writable(fifo)
  <2> HIDE DEF pkt
  <2>1. tx_fifo' = Append(fifo, pkt)
    BY <1>1, <1>5 DEF esb_write_payload, pkt
  <2>2. /\ tx_fifo' \in Seq(Packets) /\ Len(tx_fifo') = Len(fifo) + 1
        /\ tx_fifo'[Len(fifo) + 1] = pkt
        /\ \A i \in 1..Len(fifo) : tx_fifo'[i] = fifo[i]
        /\ DOMAIN tx_fifo' = 1..(Len(fifo) + 1) /\ DOMAIN fifo = 1..Len(fifo)
        /\ Len(fifo) \in Nat
    BY <1>1, <1>2, <2>1
  <2>3. pkt.id = sends + 1 /\ \A i \in DOMAIN fifo : fifo[i].id \in Nat
    BY <1>2, PacketIds DEF pkt
  <2>4. /\ \A i \in DOMAIN tx_fifo' : heard <= tx_fifo'[i].id /\ tx_fifo'[i].id <= sends'
        /\ \A i, j \in DOMAIN tx_fifo' : i < j => tx_fifo'[i].id < tx_fifo'[j].id
    <3>1. heard \in Nat /\ sends \in Nat /\ heard <= sends
      BY DEF RadioTypeOK, Sorted
    <3>2. ASSUME NEW i \in DOMAIN tx_fifo'
          PROVE  heard <= tx_fifo'[i].id /\ tx_fifo'[i].id <= sends'
      <4>1. CASE i \in 1..Len(fifo)
        BY <4>1, <3>1, <2>2, <2>3, <1>1, <1>3
      <4>2. CASE i = Len(fifo) + 1
        BY <4>2, <3>1, <2>2, <2>3, <1>1
      <4> QED
        BY <4>1, <4>2, <2>2
    <3>3. ASSUME NEW i \in DOMAIN tx_fifo', NEW j \in DOMAIN tx_fifo', i < j
          PROVE  tx_fifo'[i].id < tx_fifo'[j].id
      <4>1. i \in 1..Len(fifo) /\ (j \in 1..Len(fifo) \/ j = Len(fifo) + 1)
        BY <3>3, <2>2
      <4> QED
        BY <4>1, <3>1, <3>3, <2>2, <2>3, <1>3
    <3> QED
      BY <3>2, <3>3
  <2>5. CASE pdu # NoPdu
    <3>1. pdu' = pdu
      BY <1>5, <2>5 DEF esb_write_payload
    <3>2. pdu.pkt.id \in Nat /\ heard <= pdu.pkt.id /\ pdu.pkt.id <= sends
      <4>1. pdu.pkt \in Packets
        BY <2>5 DEF RadioTypeOK
      <4> QED
        BY <2>5, <4>1, PacketIds DEF Sorted
    <3>3. \A i \in DOMAIN tx_fifo' : pdu.pkt.id <= tx_fifo'[i].id
      <4> TAKE i \in DOMAIN tx_fifo'
      <4>1. CASE i \in 1..Len(fifo)
        BY <4>1, <2>2, <2>5, <1>3
      <4>2. CASE i = Len(fifo) + 1
        <5>1. tx_fifo'[i].id = sends + 1 /\ sends \in Nat
          BY <4>2, <2>2, <2>3 DEF RadioTypeOK
        <5> QED
          BY <5>1, <3>2
      <4> QED
        BY <4>1, <4>2, <2>2
    <3> QED
      BY <1>1, <2>2, <2>4, <3>1, <3>2, <3>3 DEF Sorted, RadioTypeOK
  <2>6. CASE pdu = NoPdu
    <3>1. pdu' = [pkt |-> tx_fifo'[1], chan |-> rf_channel']
      BY <1>5, <2>2, <2>6 DEF esb_write_payload, OnAir
    <3>2. 1 \in DOMAIN tx_fifo' /\ tx_fifo'[1] \in Packets
      BY <2>2
    <3>3. \A i \in DOMAIN tx_fifo' : tx_fifo'[1].id <= tx_fifo'[i].id
      <4>1. \A i \in DOMAIN tx_fifo' : tx_fifo'[i].id \in Nat
        BY <2>2, PacketIds
      <4>2. \A i \in DOMAIN tx_fifo' : i = 1 \/ 1 < i
        BY <2>2
      <4> QED
        BY <2>4, <3>2, <4>1, <4>2
    <3>4. pdu' \in [pkt : Packets, chan : Channels] /\ pdu'.pkt = tx_fifo'[1]
      BY <3>1, <3>2
    <3> QED
      BY <1>1, <2>2, <2>4, <3>2, <3>3, <3>4 DEF Sorted, RadioTypeOK
  <2> QED
    BY <2>5, <2>6
<1> QED
  BY <1>4, <1>5

\* A packet meant for the channel the radio is set to leaves on it.
LEMMA WriteOnChannel ==
    ASSUME RadioTypeOK, NEW fifo \in {tx_fifo, <<>>}, NEW kind, NEW motion,
           \A i \in DOMAIN fifo : fifo[i].chan = rf_channel',
           pdu # NoPdu => pdu.chan = pdu.pkt.chan,
           esb_write_payload(fifo, kind, motion, rf_channel')
    PROVE  /\ \A i \in DOMAIN tx_fifo' : tx_fifo'[i].chan = rf_channel'
           /\ pdu' # NoPdu => pdu'.chan = pdu'.pkt.chan
<1> DEFINE pkt == [id |-> sends', kind |-> kind, motion |-> motion, chan |-> rf_channel']
<1>1. \E S : fifo \in Seq(S)
  <2>1. <<>> \in Seq(Packets) /\ tx_fifo \in Seq(Packets)
    BY DEF RadioTypeOK
  <2> QED
    BY <2>1
<1>2. CASE ~Writable(fifo)
  BY <1>2 DEF esb_write_payload
<1>3. CASE Writable(fifo)
  <2>1. pkt.chan = rf_channel' /\ tx_fifo' = Append(fifo, pkt)
    BY <1>3 DEF esb_write_payload
  <2> HIDE DEF pkt
  <2>2. /\ \A i \in DOMAIN tx_fifo' : tx_fifo'[i].chan = rf_channel'
        /\ 1 \in DOMAIN tx_fifo' /\ Head(tx_fifo') = tx_fifo'[1]
    BY <1>1, <2>1
  <2>3. pdu' = IF pdu = NoPdu THEN [pkt |-> Head(tx_fifo'), chan |-> rf_channel'] ELSE pdu
    BY <1>3 DEF esb_write_payload, OnAir
  <2>4. pdu' # NoPdu => pdu'.chan = pdu'.pkt.chan
    <3>1. CASE pdu = NoPdu
      <4>1. pdu'.pkt = tx_fifo'[1] /\ pdu'.chan = rf_channel'
        BY <3>1, <2>2, <2>3
      <4> QED
        BY <4>1, <2>2
    <3>2. CASE pdu # NoPdu
      BY <3>2, <2>3
    <3> QED
      BY <3>1, <3>2
  <2> QED
    BY <2>2, <2>4
<1> QED
  BY <1>2, <1>3

\* The ring holds numbers.
LEMMA RingPushType ==
    ASSUME NEW ring \in Seq(Nat), NEW motion \in Nat
    PROVE  motion_ring_push(ring, motion) \in Seq(Nat)
<1> DEFINE alias == Len(ring) + 1 - RingSize
<1>1. CASE alias > 0
  <2>1. alias \in 1..Len(ring)
    BY <1>1, RingSizeAssumption
  <2>2. [ring EXCEPT ![alias] = motion] \in Seq(Nat)
    BY <2>1
  <2> QED
    BY <1>1, <2>2 DEF motion_ring_push
<1>2. CASE ~(alias > 0)
  BY <1>2 DEF motion_ring_push
<1> QED
  BY <1>1, <1>2

\* So does what motion_ring_consume leaves and refunds.
LEMMA RingConsumeType ==
    ASSUME m_recent_motion \in Seq(Nat), m_motion_refund \in Nat,
           m_pointer_inflight_count \in Nat, NEW failed, motion_ring_consume(failed)
    PROVE  /\ m_recent_motion' \in Seq(Nat) /\ m_motion_refund' \in Nat
           /\ m_pointer_inflight_count' \in Nat
<1>1. CASE m_recent_motion = <<>>
  BY <1>1 DEF motion_ring_consume, ringVars
<1>2. CASE m_recent_motion # <<>>
  <2>1. Tail(m_recent_motion) \in Seq(Nat) /\ Head(m_recent_motion) \in Nat
    BY <1>2
  <2> QED
    BY <1>2, <2>1 DEF motion_ring_consume
<1> QED
  BY <1>1, <1>2

\* sat16 keeps to its range and never adds motion.
LEMMA Saturates ==
    ASSUME NEW v \in Nat
    PROVE  sat16(v) \in 0..Int16Max /\ sat16(v) <= v
BY Int16MaxAssumption DEF sat16

----------------------------------------------------------------------------
(* The actions.                                                             *)

\* A send of the workqueue: it runs only where no side trip does, so it is
\* meant for the channel the radio is set to.
LEMMA SendKeeps ==
    ASSUME RadioInv, NEW kind \in Kinds, NEW fifo \in {tx_fifo, <<>>},
           NEW ring \in Seq(Nat), NEW inflight \in Nat, NEW since,
           Send(kind, fifo, ring, inflight, since)
    PROVE  RadioInv'
<1>1. /\ sends < MaxSends /\ trip = "no" /\ ~m_sync_tx_in_progress
      /\ rf_channel' = rf_channel /\ m_addr_channel' = m_addr_channel
      /\ esb_write_payload(fifo, kind, 0, m_addr_channel)
      /\ m_recent_motion' = motion_ring_push(ring, 0) /\ m_pointer_inflight_count' = inflight
      /\ mouse' = IF mouse = NoSend THEN NoSend ELSE [mouse EXCEPT !.overwritten = TRUE]
      /\ m_motion_refund' = m_motion_refund /\ trip' = trip /\ stray' = stray
      /\ m_sync_tx_in_progress' = m_sync_tx_in_progress /\ heard' = heard
  BY DEF Send, ledgerVars
<1> USE DEF RadioInv
<1>2. /\ sends' = sends + 1 /\ sends' \in Nat /\ tx_fifo' \in Seq(Packets)
      /\ pdu' \in [pkt : Packets, chan : Channels] \cup {NoPdu}
      /\ Sorted'
  <2>1. m_addr_channel \in Channels /\ rf_channel' \in Channels /\ sends <= MaxSends
            /\ 0 \in 0..Int16Max
    BY <1>1, MaxSendsAssumption, Int16MaxAssumption DEF RadioTypeOK
  <2> QED
    BY <1>1, <2>1, WriteSorted
<1>3. m_recent_motion' \in Seq(Nat)
  BY <1>1, RingPushType
<1>4. mouse' # NoSend =>
          /\ sends' <= MaxSends
          /\ mouse' \in [at : {"apply", "push"}, motion : Nat, refunds : BOOLEAN,
                         count : Nat, overwritten : BOOLEAN]
          /\ mouse'.at = "push" => mouse'.motion <= Int16Max
  <2>1. sends' <= MaxSends
    BY <1>1, <1>2, MaxSendsAssumption DEF RadioTypeOK
  <2>2. CASE mouse = NoSend
    BY <1>1, <2>2
  <2>3. CASE mouse # NoSend
    <3>1. /\ mouse \in [at : {"apply", "push"}, motion : Nat, refunds : BOOLEAN,
                         count : Nat, overwritten : BOOLEAN]
          /\ mouse.at = "push" => mouse.motion <= Int16Max
      BY <2>3 DEF RadioTypeOK
    <3>2. mouse' = [mouse EXCEPT !.overwritten = TRUE]
      BY <1>1, <2>3
    <3>3. mouse'.at = mouse.at /\ mouse'.motion = mouse.motion
      BY <3>1, <3>2
    <3>4. mouse' \in [at : {"apply", "push"}, motion : Nat, refunds : BOOLEAN,
                      count : Nat, overwritten : BOOLEAN]
      BY <3>1, <3>2
    <3> QED
      BY <2>1, <3>1, <3>3, <3>4
  <2> QED
    BY <2>2, <2>3
<1>5. RadioTypeOK'
  BY <1>1, <1>2, <1>3, <1>4 DEF RadioTypeOK
<1>6. OnChannel'
  <2> SUFFICES ASSUME ~stray' PROVE /\ \A i \in DOMAIN tx_fifo' : tx_fifo'[i].chan = rf_channel'
                                    /\ pdu' # NoPdu => pdu'.chan = pdu'.pkt.chan
                                    /\ rf_channel' = m_addr_channel'
    BY <1>1 DEF OnChannel
  <2>1. /\ m_addr_channel = rf_channel' /\ \A i \in DOMAIN fifo : fifo[i].chan = rf_channel'
        /\ pdu # NoPdu => pdu.chan = pdu.pkt.chan
    BY <1>1 DEF OnChannel
  <2> QED
    BY <1>1, <2>1, WriteOnChannel
<1>7. FlagCleared'
  BY <1>1 DEF FlagCleared
<1> QED
  BY <1>2, <1>5, <1>6, <1>7

\* The input thread takes up the refund; nothing reaches the radio yet.
LEMMA MouseBeginKeeps ==
    ASSUME RadioInv, NEW delta \in Deltas, MouseBegin(delta)
    PROVE  RadioInv'
<1> USE DEF RadioInv
<1>1. /\ sends < MaxSends /\ trip = "no"
      /\ rf_channel' = rf_channel /\ m_addr_channel' = m_addr_channel /\ pdu' = pdu
      /\ m_sync_tx_in_progress' = m_sync_tx_in_progress /\ trip' = trip
      /\ sends' = sends /\ heard' = heard /\ stray' = stray
      /\ tx_fifo' = tx_fifo \/ tx_fifo' = <<>>
      /\ m_recent_motion' = m_recent_motion \/ m_recent_motion' = <<>>
      /\ m_pointer_inflight_count' = m_pointer_inflight_count \/ m_pointer_inflight_count' = 0
  BY DEF MouseBegin, ring_reset
<1>2. tx_fifo' \in Seq(Packets) /\ m_recent_motion' \in Seq(Nat)
  <2>1. <<>> \in Seq(Packets) /\ <<>> \in Seq(Nat)
    OBVIOUS
  <2> QED
    BY <1>1, <2>1 DEF RadioTypeOK
<1>3. /\ m_motion_refund' \in Nat
      /\ mouse' \in [at : {"apply", "push"}, motion : Nat, refunds : BOOLEAN,
                     count : Nat, overwritten : BOOLEAN]
      /\ mouse'.at = "apply"
  <2>1. delta \in Nat /\ m_motion_refund \in Nat
    BY DeltasAssumption, Int16MaxAssumption DEF RadioTypeOK
  <2>2. PICK stale \in BOOLEAN :
            /\ m_motion_refund' = IF stale THEN 0 ELSE m_motion_refund
            /\ mouse' = [at |-> "apply", motion |-> delta + m_motion_refund',
                         refunds |-> m_motion_refund' # 0, count |-> 0, overwritten |-> FALSE]
    BY DEF MouseBegin
  <2>3. m_motion_refund' \in Nat /\ delta + m_motion_refund' \in Nat
    BY <2>1, <2>2
  <2> QED
    BY <2>2, <2>3
<1>4. RadioTypeOK'
  BY <1>1, <1>2, <1>3, MaxSendsAssumption DEF RadioTypeOK
<1>5. Sorted' /\ OnChannel' /\ FlagCleared'
  BY <1>1 DEF Sorted, OnChannel, FlagCleared
<1> QED
  BY <1>4, <1>5

\* The residual that does not fit stays in the pool.
LEMMA MouseApplyKeeps ==
    ASSUME RadioInv, MouseApply
    PROVE  RadioInv'
<1> USE DEF RadioInv
<1>1. /\ mouse # NoSend
      /\ m_motion_refund' = IF mouse.refunds THEN mouse.motion - sat16(mouse.motion)
                            ELSE m_motion_refund
      /\ mouse' = [mouse EXCEPT !.at = "push", !.motion = sat16(mouse.motion),
                                !.count = m_pointer_inflight_count,
                                !.overwritten = FALSE]
      /\ UNCHANGED <<tx_fifo, pdu, rf_channel, m_addr_channel, m_recent_motion,
                     m_pointer_inflight_count, m_sync_tx_in_progress, trip, sends, heard, stray>>
  BY DEF MouseApply, radioVars, ledgerVars
<1>2. /\ mouse \in [at : {"apply", "push"}, motion : Nat, refunds : BOOLEAN,
                    count : Nat, overwritten : BOOLEAN]
      /\ m_motion_refund \in Nat /\ m_pointer_inflight_count \in Nat /\ sends <= MaxSends
  BY <1>1 DEF RadioTypeOK
<1>3. sat16(mouse.motion) \in 0..Int16Max /\ sat16(mouse.motion) <= mouse.motion
  BY <1>2, Saturates
<1>4. m_motion_refund' \in Nat
  BY <1>1, <1>2, <1>3, Int16MaxAssumption
<1>5. /\ mouse' \in [at : {"apply", "push"}, motion : Nat, refunds : BOOLEAN,
                     count : Nat, overwritten : BOOLEAN]
      /\ mouse'.motion <= Int16Max
  <2>1. sat16(mouse.motion) \in Nat /\ sat16(mouse.motion) <= Int16Max
    BY <1>3, Int16MaxAssumption
  <2> QED
    BY <1>1, <1>2, <2>1
<1>6. RadioTypeOK'
  BY <1>1, <1>2, <1>4, <1>5 DEF RadioTypeOK
<1>7. Sorted' /\ OnChannel' /\ FlagCleared'
  BY <1>1 DEF Sorted, OnChannel, FlagCleared
<1> QED
  BY <1>6, <1>7

\* The mouse report is written; within a side trip that makes it stray.
LEMMA MousePushKeeps ==
    ASSUME RadioInv, MousePush
    PROVE  RadioInv'
<1> USE DEF RadioInv
<1>1. /\ mouse # NoSend /\ mouse.at = "push"
      /\ rf_channel' = rf_channel /\ m_addr_channel' = m_addr_channel
      /\ esb_write_payload(tx_fifo, "mouse", mouse.motion, m_addr_channel)
      /\ stray' = (stray \/ trip # "no")
      /\ mouse' = NoSend
      /\ UNCHANGED <<m_motion_refund, m_sync_tx_in_progress, trip, heard>>
  BY DEF MousePush, ledgerVars
<1>2. mouse.motion \in 0..Int16Max /\ mouse.motion \in Nat /\ sends <= MaxSends
  BY <1>1, Int16MaxAssumption DEF RadioTypeOK
<1>3. /\ sends' = sends + 1 /\ sends' \in Nat /\ tx_fifo' \in Seq(Packets)
      /\ pdu' \in [pkt : Packets, chan : Channels] \cup {NoPdu}
      /\ Sorted'
  <2>1. m_addr_channel \in Channels /\ rf_channel' \in Channels /\ "mouse" \in Kinds
    BY <1>1 DEF RadioTypeOK, Kinds
  <2> QED
    BY <1>1, <1>2, <2>1, WriteSorted
<1>4. m_recent_motion' \in Seq(Nat)
  <2>1. PICK record \in Nat : m_recent_motion' = motion_ring_push(m_recent_motion, record)
    BY <1>2, Int16MaxAssumption DEF MousePush
  <2> QED
    BY <2>1, RingPushType DEF RadioTypeOK
<1>5. RadioTypeOK'
  <2>1. m_pointer_inflight_count' \in Nat
    <3>1. mouse.count \in Nat /\ m_pointer_inflight_count \in Nat
      BY <1>1 DEF RadioTypeOK
    <3> QED
      BY <3>1 DEF MousePush
  <2> QED
    BY <1>1, <1>3, <1>4, <2>1 DEF RadioTypeOK
<1>6. OnChannel'
  <2> SUFFICES ASSUME ~stray' PROVE /\ \A i \in DOMAIN tx_fifo' : tx_fifo'[i].chan = rf_channel'
                                    /\ pdu' # NoPdu => pdu'.chan = pdu'.pkt.chan
                                    /\ rf_channel' = m_addr_channel' /\ trip' = "no"
    BY DEF OnChannel
  <2>1. /\ trip = "no" /\ trip' = "no" /\ m_addr_channel = rf_channel'
        /\ \A i \in DOMAIN tx_fifo : tx_fifo[i].chan = rf_channel'
        /\ pdu # NoPdu => pdu.chan = pdu.pkt.chan
    BY <1>1 DEF OnChannel
  <2> QED
    BY <1>1, <2>1, WriteOnChannel
<1>7. FlagCleared'
  BY <1>1 DEF FlagCleared
<1> QED
  BY <1>3, <1>5, <1>6, <1>7

\* An acknowledged packet is no older than what was heard before, and no younger
\* than what the radio takes next.
LEMMA TxAckedKeeps ==
    ASSUME RadioInv, TxAcked
    PROVE  RadioInv' /\ heard' >= heard
<1> USE DEF RadioInv
<1>1. /\ pdu # NoPdu /\ heard' = pdu.pkt.id
      /\ rf_channel' = rf_channel /\ m_addr_channel' = m_addr_channel
      /\ tx_fifo' = IF tx_fifo = <<>> THEN <<>> ELSE Tail(tx_fifo)
      /\ pdu' = IF tx_fifo' = <<>> THEN NoPdu
                ELSE [pkt |-> Head(tx_fifo'), chan |-> rf_channel]
      /\ m_sync_tx_in_progress' = FALSE
      /\ UNCHANGED <<trip, mouse, sends, stray>>
  BY DEF TxAcked, Arrive, OnAir
<1>2. /\ tx_fifo \in Seq(Packets) /\ pdu.pkt \in Packets
      /\ pdu.pkt.id \in Nat /\ heard \in Nat /\ sends \in Nat
      /\ heard <= pdu.pkt.id /\ pdu.pkt.id <= sends
  BY <1>1, PacketIds DEF RadioTypeOK, Sorted
<1>3. /\ tx_fifo' \in Seq(Packets)
      /\ \A i \in DOMAIN tx_fifo' : i + 1 \in DOMAIN tx_fifo /\ tx_fifo'[i] = tx_fifo[i + 1]
      /\ DOMAIN tx_fifo' \subseteq Nat
      /\ Len(tx_fifo) <= 1 => tx_fifo' = <<>>
      /\ tx_fifo' # <<>> => Head(tx_fifo') = tx_fifo'[1] /\ 1 \in DOMAIN tx_fifo'
      /\ \A i \in DOMAIN tx_fifo' : i = 1 \/ 1 < i
  <2>1. CASE tx_fifo = <<>>
    BY <1>1, <2>1
  <2>2. CASE tx_fifo # <<>>
    <3>1. /\ tx_fifo' = Tail(tx_fifo) /\ tx_fifo' \in Seq(Packets)
          /\ Len(tx_fifo') = Len(tx_fifo) - 1 /\ Len(tx_fifo) \in Nat
          /\ \A i \in 1..Len(tx_fifo') : tx_fifo'[i] = tx_fifo[i + 1]
      BY <1>1, <1>2, <2>2
    <3>2. DOMAIN tx_fifo' = 1..Len(tx_fifo') /\ DOMAIN tx_fifo = 1..Len(tx_fifo)
      BY <1>2, <3>1
    <3>3. Len(tx_fifo) <= 1 => tx_fifo' = <<>>
      BY <3>1
    <3> QED
      BY <3>1, <3>2, <3>3
  <2> QED
    BY <2>1, <2>2
<1>4. \A i \in DOMAIN tx_fifo' : tx_fifo'[i] \in Packets /\ tx_fifo'[i].id \in Nat
  BY <1>3, PacketIds
<1>5. pdu' \in [pkt : Packets, chan : Channels] \cup {NoPdu}
  BY <1>1, <1>3, <1>4 DEF RadioTypeOK
<1>6. RadioTypeOK'
  <2>1. m_recent_motion' \in Seq(Nat) /\ m_motion_refund' \in Nat /\ m_pointer_inflight_count' \in Nat
    BY RingConsumeType DEF TxAcked, ringVars, RadioTypeOK
  <2> QED
    BY <1>1, <1>2, <1>3, <1>5, <2>1 DEF RadioTypeOK
<1>7. Sorted'
  <2>1. \A i \in DOMAIN tx_fifo' : heard' <= tx_fifo'[i].id /\ tx_fifo'[i].id <= sends'
    BY <1>1, <1>3 DEF Sorted
  <2>2. \A i, j \in DOMAIN tx_fifo' : i < j => tx_fifo'[i].id < tx_fifo'[j].id
    <3> SUFFICES ASSUME NEW i \in DOMAIN tx_fifo', NEW j \in DOMAIN tx_fifo', i < j
                 PROVE  tx_fifo'[i].id < tx_fifo'[j].id
      OBVIOUS
    <3>1. i + 1 \in DOMAIN tx_fifo /\ j + 1 \in DOMAIN tx_fifo /\ i + 1 < j + 1
      BY <1>3
    <3>2. tx_fifo[i + 1].id < tx_fifo[j + 1].id
      BY <3>1 DEF Sorted
    <3> QED
      BY <1>3, <3>2
  <2>3. pdu' # NoPdu => pdu'.pkt = tx_fifo'[1] /\ 1 \in DOMAIN tx_fifo'
    BY <1>1, <1>3
  <2>4. \A i \in DOMAIN tx_fifo' : 1 \in DOMAIN tx_fifo' => tx_fifo'[1].id <= tx_fifo'[i].id
    <3> SUFFICES ASSUME NEW i \in DOMAIN tx_fifo', 1 \in DOMAIN tx_fifo'
                 PROVE  tx_fifo'[1].id <= tx_fifo'[i].id
      OBVIOUS
    <3>1. tx_fifo'[1].id \in Nat /\ tx_fifo'[i].id \in Nat
      BY <1>4
    <3>2. CASE i = 1
      BY <3>1, <3>2
    <3>3. CASE 1 < i
      <4>1. tx_fifo'[1].id < tx_fifo'[i].id
        BY <2>2, <3>3
      <4> QED
        BY <3>1, <4>1
    <3> QED
      BY <1>3, <3>2, <3>3
  <2> QED
    BY <1>1, <1>2, <2>1, <2>2, <2>3, <2>4 DEF Sorted
<1>8. OnChannel'
  <2> SUFFICES ASSUME ~stray' PROVE OnChannel'
    BY DEF OnChannel
  <2>1. \A i \in DOMAIN tx_fifo' : tx_fifo'[i].chan = rf_channel'
    BY <1>1, <1>3 DEF OnChannel
  <2>2. pdu' # NoPdu => pdu'.chan = pdu'.pkt.chan
    BY <1>1, <1>3, <2>1
  <2>3. trip' = "no" => rf_channel' = m_addr_channel'
    BY <1>1 DEF OnChannel
  <2>4. trip' = "wait" => tx_fifo' = <<>> /\ pdu' = NoPdu
    BY <1>1, <1>3 DEF OnChannel
  <2>5. Len(<<>>) <= 1
    OBVIOUS
  <2> QED
    BY <2>1, <2>2, <2>3, <2>4, <2>5 DEF OnChannel
<1>9. FlagCleared'
  BY <1>1 DEF FlagCleared
<1> QED
  BY <1>1, <1>2, <1>6, <1>7, <1>8, <1>9

\* A packet that failed stays where it was, or everything goes.
LEMMA TxFailedKeeps ==
    ASSUME RadioInv, NEW got, TxFailed(got)
    PROVE  RadioInv' /\ heard' >= heard
<1> USE DEF RadioInv
<1>1. /\ pdu # NoPdu /\ pdu' = NoPdu
      /\ heard' = heard \/ heard' = pdu.pkt.id
      /\ tx_fifo' = tx_fifo \/ tx_fifo' = <<>>
      /\ m_sync_tx_in_progress => tx_fifo' = <<>>
      /\ m_sync_tx_in_progress' = FALSE
      /\ UNCHANGED <<rf_channel, m_addr_channel, trip, mouse, sends, stray>>
  BY DEF TxFailed, Arrive, LeftInFifo, ledgerVars
<1>2. /\ tx_fifo' \in Seq(Packets)
      /\ pdu.pkt.id \in Nat /\ heard \in Nat /\ sends \in Nat
      /\ heard <= pdu.pkt.id /\ pdu.pkt.id <= sends
  <2>1. <<>> \in Seq(Packets)
    OBVIOUS
  <2> QED
    BY <1>1, <2>1, PacketIds DEF RadioTypeOK, Sorted
<1>3. m_recent_motion' \in Seq(Nat) /\ m_motion_refund' \in Nat /\ m_pointer_inflight_count' \in Nat
  <2>1. m_recent_motion \in Seq(Nat) /\ m_motion_refund \in Nat /\ m_pointer_inflight_count \in Nat
    BY DEF RadioTypeOK
  <2>2. CASE motion_ring_consume(TRUE)
    BY <2>1, <2>2, RingConsumeType
  <2>3. CASE ring_reset /\ UNCHANGED m_motion_refund
    BY <2>1, <2>3 DEF ring_reset
  <2>4. CASE ring_reset /\ m_motion_refund' = m_motion_refund
                + (IF m_recent_motion = <<>> THEN 0 ELSE Head(m_recent_motion))
    <3>1. m_recent_motion # <<>> => Head(m_recent_motion) \in Nat
      BY <2>1
    <3> QED
      BY <2>1, <2>4, <3>1 DEF ring_reset
  <2> QED
    BY <2>2, <2>3, <2>4 DEF TxFailed
<1>4. RadioTypeOK'
  BY <1>1, <1>2, <1>3 DEF RadioTypeOK
<1>5. Sorted'
  BY <1>1, <1>2 DEF Sorted
<1>6. OnChannel'
  BY <1>1 DEF OnChannel, RadioTypeOK
<1>7. FlagCleared'
  BY <1>1 DEF FlagCleared
<1> QED
  BY <1>1, <1>2, <1>4, <1>5, <1>6, <1>7

\* The queue is empty when the channel changes.
LEMMA SetChannelKeeps ==
    ASSUME RadioInv, NEW ch \in Channels, esb_transport_set_channel(ch)
    PROVE  RadioInv'
<1> USE DEF RadioInv
<1>1. /\ trip = "no" /\ tx_fifo' = <<>>
      /\ rf_channel' = (IF pdu = NoPdu THEN ch ELSE rf_channel)
      /\ m_addr_channel' = (IF pdu = NoPdu THEN ch ELSE m_addr_channel)
      /\ m_motion_refund' = m_motion_refund \/ m_motion_refund' = 0
      /\ m_recent_motion' = <<>> /\ m_pointer_inflight_count' = 0
      /\ UNCHANGED <<pdu, m_sync_tx_in_progress, trip, mouse, sends, heard, stray>>
  BY DEF esb_transport_set_channel, esb_set_rf_channel, esb_flush_tx_and_reset, ring_reset, ledgerVars
<1>2. <<>> \in Seq(Packets) /\ <<>> \in Seq(Nat)
  OBVIOUS
<1>3. RadioTypeOK'
  BY <1>1, <1>2 DEF RadioTypeOK
<1>4. Sorted' /\ OnChannel' /\ FlagCleared'
  BY <1>1 DEF Sorted, OnChannel, FlagCleared
<1> QED
  BY <1>3, <1>4

\* The side trip begins with an empty queue and an idle radio, or not at all.
LEMMA SideTripKeeps ==
    ASSUME RadioInv, esb_transport_send_blocking
    PROVE  RadioInv'
<1> USE DEF RadioInv
<1>1. /\ trip = "no" /\ active /\ sends < MaxSends
      /\ m_recent_motion' = <<>> /\ m_pointer_inflight_count' = 0
      /\ UNCHANGED <<m_motion_refund, m_addr_channel, mouse, heard, stray>>
  BY DEF esb_transport_send_blocking, esb_flush_tx_and_reset, ring_reset, ledgerVars
<1>2. <<>> \in Seq(Packets) /\ <<>> \in Seq(Nat)
  OBVIOUS
<1>3. CASE pdu # NoPdu
  <2>1. UNCHANGED <<pdu, rf_channel, m_sync_tx_in_progress, trip, sends>> /\ tx_fifo' = <<>>
    BY <1>3 DEF esb_transport_send_blocking, esb_set_rf_channel
  <2>2. RadioTypeOK'
    BY <1>1, <1>2, <2>1 DEF RadioTypeOK
  <2>3. Sorted' /\ OnChannel' /\ FlagCleared'
    BY <1>1, <2>1 DEF Sorted, OnChannel, FlagCleared
  <2> QED
    BY <2>2, <2>3
<1>4. CASE pdu = NoPdu
  <2>1. /\ rf_channel' = Rendezvous /\ m_sync_tx_in_progress' = TRUE /\ trip' = "wait"
        /\ esb_write_payload(<<>>, "sync", 0, Rendezvous)
    BY <1>4 DEF esb_transport_send_blocking, esb_set_rf_channel
  <2>2. /\ sends' = sends + 1 /\ sends' \in Nat /\ tx_fifo' \in Seq(Packets)
        /\ pdu' \in [pkt : Packets, chan : Channels] \cup {NoPdu}
        /\ Sorted'
    <3>1. /\ Rendezvous \in Channels /\ rf_channel' \in Channels /\ "sync" \in Kinds
          /\ 0 \in 0..Int16Max /\ sends <= MaxSends
      BY <1>1, <2>1, RendezvousAssumption, Int16MaxAssumption, MaxSendsAssumption
        DEF Kinds, RadioTypeOK
    <3> QED
      BY <1>1, <2>1, <3>1, WriteSorted
  <2>3. RadioTypeOK'
    BY <1>1, <1>2, <2>1, <2>2, RendezvousAssumption, MaxSendsAssumption DEF RadioTypeOK
  <2>4. /\ \A i \in DOMAIN tx_fifo' : tx_fifo'[i].chan = rf_channel'
        /\ pdu' # NoPdu => pdu'.chan = pdu'.pkt.chan
    <3>1. \A i \in DOMAIN <<>> : <<>>[i].chan = rf_channel'
      OBVIOUS
    <3> QED
      BY <1>4, <2>1, <3>1, WriteOnChannel
  <2>5. Len(tx_fifo') <= 1 /\ pdu' # NoPdu
    <3>1. Writable(<<>>)
      BY <1>1, FifoDepthAssumption DEF Writable
    <3>2. \E pkt : tx_fifo' = Append(<<>>, pkt)
      BY <2>1, <3>1 DEF esb_write_payload
    <3>3. Len(tx_fifo') = 1 /\ Head(tx_fifo') \in Packets
      BY <2>2, <3>2
    <3>4. pdu' = [pkt |-> Head(tx_fifo'), chan |-> rf_channel']
      BY <1>4, <2>1, <3>1 DEF esb_write_payload, OnAir
    <3>5. pdu' \in [pkt : Packets, chan : Channels]
      BY <2>1, <3>3, <3>4, RendezvousAssumption
    <3> QED
      BY <3>3, <3>5, NoPduAssumption
  <2>6. OnChannel' /\ FlagCleared'
    BY <2>1, <2>4, <2>5 DEF OnChannel, FlagCleared
  <2> QED
    BY <2>2, <2>3, <2>6
<1> QED
  BY <1>3, <1>4

\* It ends with the radio idle, unless it was disturbed.
LEMMA SideTripEndKeeps ==
    ASSUME RadioInv, SideTripEnd
    PROVE  RadioInv'
<1> USE DEF RadioInv
<1>1. /\ trip = "wait" /\ trip' = "no" /\ m_sync_tx_in_progress' = FALSE
      /\ rf_channel' = (IF pdu = NoPdu THEN m_addr_channel ELSE rf_channel)
      /\ stray' = (stray \/ (m_sync_tx_in_progress /\ pdu # NoPdu))
      /\ UNCHANGED <<tx_fifo, pdu, m_addr_channel, m_recent_motion,
                     m_pointer_inflight_count, m_motion_refund, mouse, sends, heard>>
  BY DEF SideTripEnd, esb_set_rf_channel, ringVars, ledgerVars
<1>2. RadioTypeOK'
  BY <1>1 DEF RadioTypeOK
<1>3. Sorted' /\ FlagCleared'
  BY <1>1 DEF Sorted, FlagCleared
<1>4. OnChannel'
  <2> SUFFICES ASSUME ~stray' PROVE OnChannel'
    BY DEF OnChannel
  <2>1. pdu = NoPdu
    <3>1. ~stray /\ (m_sync_tx_in_progress => pdu = NoPdu)
      BY <1>1
    <3> QED
      BY <1>1, <3>1 DEF OnChannel
  <2>2. tx_fifo = <<>>
    BY <1>1, <2>1 DEF OnChannel
  <2>3. tx_fifo' = <<>> /\ pdu' = NoPdu /\ rf_channel' = m_addr_channel' /\ trip' = "no"
    BY <1>1, <2>1, <2>2
  <2> QED
    BY <2>3 DEF OnChannel
<1> QED
  BY <1>2, <1>3, <1>4

\* A slot start or stop empties the engine.
LEMMA SlotKeeps ==
    ASSUME RadioInv, NEW on, NEW ch \in Channels, SlotReset(on, ch)
    PROVE  RadioInv'
<1> USE DEF RadioInv
<1>1. /\ tx_fifo' = <<>> /\ pdu' = NoPdu /\ rf_channel' = ch /\ m_addr_channel' = ch
      /\ UNCHANGED <<m_recent_motion, m_pointer_inflight_count, m_motion_refund,
                     m_sync_tx_in_progress, trip, mouse, sends, heard, stray>>
  BY DEF SlotReset, ringVars, ledgerVars
<1>2. <<>> \in Seq(Packets)
  OBVIOUS
<1>3. RadioTypeOK'
  BY <1>1, <1>2 DEF RadioTypeOK
<1>4. Sorted' /\ OnChannel' /\ FlagCleared'
  BY <1>1 DEF Sorted, OnChannel, FlagCleared
<1> QED
  BY <1>3, <1>4

\* A step that leaves the radio, the rings and the side trip alone.
LEMMA IdleKeeps ==
    ASSUME RadioInv,
           UNCHANGED <<tx_fifo, pdu, rf_channel, m_addr_channel, m_recent_motion,
                       m_pointer_inflight_count, m_motion_refund, m_sync_tx_in_progress,
                       trip, mouse, sends, heard, stray>>
    PROVE  RadioInv'
BY DEF RadioInv, RadioTypeOK, Sorted, OnChannel, FlagCleared

----------------------------------------------------------------------------
(* The theorems.                                                            *)

\* Every step keeps the invariant, and no step makes the dongle hear an older
\* packet.
LEMMA StepKeeps ==
    ASSUME RadioInv, [TransportNext]_transportVars
    PROVE  RadioInv' /\ heard' >= heard
<1>0. heard \in Nat /\ <<>> \in Seq(Nat) /\ 0 \in Nat /\ tx_fifo \in {tx_fifo, <<>>}
          /\ m_recent_motion \in Seq(Nat) /\ m_pointer_inflight_count \in Nat
  BY DEF RadioInv, RadioTypeOK
<1>1. ASSUME NEW kind \in {"user", "shell"}, SendQueued(kind) PROVE RadioInv' /\ heard' = heard
  <2>1. kind \in Kinds /\ Send(kind, tx_fifo, m_recent_motion, m_pointer_inflight_count, drift)
    BY <1>1 DEF SendQueued, Kinds
  <2>2. heard' = heard
    BY <2>1 DEF Send, ledgerVars
  <2> QED
    BY <1>0, <2>1, <2>2, SendKeeps
<1>2. ASSUME NEW idle \in BOOLEAN, SendFlushing(idle) PROVE RadioInv' /\ heard' = heard
  <2>1. "user" \in Kinds /\ Send("user", <<>>, <<>>, 0, {}) /\ <<>> \in {tx_fifo, <<>>}
    BY <1>2 DEF SendFlushing, Kinds
  <2>2. heard' = heard
    BY <2>1 DEF Send, ledgerVars
  <2> QED
    BY <1>0, <2>1, <2>2, SendKeeps
<1>3. ASSUME NEW delta \in Deltas, MouseBegin(delta) PROVE RadioInv' /\ heard' = heard
  BY <1>3, MouseBeginKeeps DEF MouseBegin
<1>4. CASE MouseApply
  BY <1>0, <1>4, MouseApplyKeeps DEF MouseApply, ledgerVars
<1>5. CASE MousePush
  BY <1>0, <1>5, MousePushKeeps DEF MousePush, ledgerVars
<1>6. CASE TxAcked
  BY <1>6, TxAckedKeeps
<1>7. ASSUME NEW got \in HeardAnyway, TxFailed(got) PROVE RadioInv' /\ heard' >= heard
  BY <1>7, TxFailedKeeps
<1>8. ASSUME NEW ch \in Channels, esb_transport_set_channel(ch) PROVE RadioInv' /\ heard' = heard
  BY <1>8, SetChannelKeeps DEF esb_transport_set_channel, ledgerVars
<1>9. CASE QuietOver \/ UNCHANGED transportVars
  <2>1. UNCHANGED <<tx_fifo, pdu, rf_channel, m_addr_channel, m_recent_motion,
                    m_pointer_inflight_count, m_motion_refund, m_sync_tx_in_progress,
                    trip, mouse, sends, heard, stray>>
    BY <1>9 DEF QuietOver, transportVars, radioVars, ringVars, ledgerVars
  <2> QED
    BY <1>0, <2>1, IdleKeeps
<1>10. CASE esb_transport_send_blocking
  <2>1. heard' = heard
    BY <1>10 DEF esb_transport_send_blocking, ledgerVars
  <2> QED
    BY <1>0, <1>10, <2>1, SideTripKeeps
<1>11. CASE SideTripEnd
  <2>1. heard' = heard
    BY <1>11 DEF SideTripEnd, ledgerVars
  <2> QED
    BY <1>0, <1>11, <2>1, SideTripEndKeeps
<1>12. CASE SlotStart \/ SlotStop
  <2>1. \E ch \in Channels, on \in BOOLEAN : SlotReset(on, ch)
    BY <1>12, RendezvousAssumption DEF SlotStart, SlotStop, RadioInv, RadioTypeOK
  <2>2. heard' = heard
    BY <2>1 DEF SlotReset, ledgerVars
  <2> QED
    BY <1>0, <2>1, <2>2, SlotKeeps
<1> QED
  BY <1>0, <1>1, <1>2, <1>3, <1>4, <1>5, <1>6, <1>7, <1>8, <1>9, <1>10, <1>11, <1>12
    DEF TransportNext

\* The transport starts with an empty engine on the rendezvous channel.
LEMMA InitKeeps == TransportInit => RadioInv
<1> SUFFICES ASSUME TransportInit PROVE RadioInv
  OBVIOUS
<1>1. <<>> \in Seq(Packets) /\ <<>> \in Seq(Nat)
  OBVIOUS
<1>2. RadioTypeOK
  BY <1>1, RendezvousAssumption DEF TransportInit, RadioTypeOK
<1>3. Sorted /\ OnChannel /\ FlagCleared
  BY DEF TransportInit, Sorted, OnChannel, FlagCleared
<1> QED
  BY <1>2, <1>3 DEF RadioInv

\* The inductive invariant holds throughout.
LEMMA RadioInvariant == TransportSpec => []RadioInv
BY InitKeeps, StepKeeps, PTL DEF TransportSpec

\* The dongle hears packets in the order in which they were written, through
\* failures, retransmissions, flushes and side trips (TX FIFO of esb.c under
\* esb_transport_send).
THEOREM HeardInOrder == TransportSpec => InOrder
<1>1. RadioInv /\ [TransportNext]_transportVars => [heard' >= heard]_transportVars
  BY StepKeeps
<1> QED
  BY <1>1, RadioInvariant, PTL DEF TransportSpec, InOrder

\* Packets leave on the channel they are meant for (esb_transport_set_channel,
\* esb_transport_send_blocking), as long as no side trip was disturbed.
THEOREM SentOnChannel == TransportSpec => []ChannelAsIntended
<1>1. RadioInv => ChannelAsIntended
  BY DEF RadioInv, OnChannel, ChannelAsIntended
<1> QED
  BY <1>1, RadioInvariant, PTL

\* esb_transport_send_blocking always lets traffic through again, and returns
\* the radio to the channel in use unless it was disturbed.
THEOREM SideTripEnds == TransportSpec => []SideTripOver
<1>1. RadioInv => SideTripOver
  BY DEF RadioInv, OnChannel, FlagCleared, SideTripOver
<1> QED
  BY <1>1, RadioInvariant, PTL
----------------------------------------------------------------------------
(* The records of motion and the number of them in flight.                  *)

\* The records are numbered by a prefix of the naturals, so they can be counted.
LEMMA RecordsFinite ==
    ASSUME NEW ring \in Seq(Nat)
    PROVE  IsFiniteSet(MotionRecords(ring)) /\ Cardinality(MotionRecords(ring)) \in Nat
<1>1. IsFiniteSet(1..Len(ring))
  BY FS_Interval
<1>2. MotionRecords(ring) \in SUBSET (1..Len(ring))
  BY DEF MotionRecords
<1>3. IsFiniteSet(MotionRecords(ring))
  BY <1>1, <1>2, FS_Subset
<1> QED
  BY <1>3, FS_CardinalityType

\* An empty ring counts nothing.
LEMMA NoRecords == Cardinality(MotionRecords(<<>>)) = 0
<1>1. MotionRecords(<<>>) = {}
  BY DEF MotionRecords
<1> QED
  BY <1>1, FS_EmptySet

\* A record pushed counts if it has motion.
LEMMA RecordPushed ==
    ASSUME NEW ring \in Seq(Nat), NEW motion \in Nat
    PROVE  Cardinality(MotionRecords(Append(ring, motion)))
              = Cardinality(MotionRecords(ring)) + (IF motion # 0 THEN 1 ELSE 0)
<1> DEFINE longer == Append(ring, motion)
           last == Len(ring) + 1
<1>1. /\ DOMAIN longer = 1..last /\ DOMAIN ring = 1..Len(ring) /\ Len(ring) \in Nat
      /\ longer[last] = motion /\ \A i \in 1..Len(ring) : longer[i] = ring[i]
  BY AppendProperties
<1> HIDE DEF longer
<1>2. last \notin MotionRecords(ring)
  BY <1>1 DEF MotionRecords
<1>3. CASE motion # 0
  <2>1. MotionRecords(longer) = MotionRecords(ring) \cup {last}
    <3>1. \A i : i \in MotionRecords(longer) <=> i \in MotionRecords(ring) \/ i = last
      BY <1>1, <1>3 DEF MotionRecords
    <3> QED
      BY <3>1
  <2> QED
    BY <1>2, <1>3, <2>1, RecordsFinite, FS_AddElement DEF longer
<1>4. CASE motion = 0
  <2>1. MotionRecords(longer) = MotionRecords(ring)
    <3>1. \A i : i \in MotionRecords(longer) <=> i \in MotionRecords(ring)
      BY <1>1, <1>4 DEF MotionRecords
    <3> QED
      BY <3>1
  <2> QED
    BY <1>4, <2>1, RecordsFinite DEF longer
<1> QED
  BY <1>3, <1>4

\* The record consumed no longer counts; the others move down by one.
LEMMA RecordConsumed ==
    ASSUME NEW ring \in Seq(Nat), ring # <<>>
    PROVE  Cardinality(MotionRecords(Tail(ring)))
              = Cardinality(MotionRecords(ring)) - (IF Head(ring) # 0 THEN 1 ELSE 0)
<1> DEFINE rest == Tail(ring)
           older == MotionRecords(ring) \ {1}
           down == [i \in older |-> i - 1]
<1>1. /\ DOMAIN rest = 1..(Len(ring) - 1) /\ DOMAIN ring = 1..Len(ring)
      /\ Len(ring) \in Nat /\ Len(ring) > 0 /\ Head(ring) = ring[1]
      /\ \A i \in 1..(Len(ring) - 1) : rest[i] = ring[i + 1]
  BY HeadTailProperties, EmptySeq
<1> HIDE DEF rest
<1>2. /\ IsFiniteSet(older)
      /\ Cardinality(older) = Cardinality(MotionRecords(ring)) - (IF Head(ring) # 0 THEN 1 ELSE 0)
  <2>1. 1 \in MotionRecords(ring) <=> Head(ring) # 0
    BY <1>1 DEF MotionRecords
  <2> QED
    BY <2>1, RecordsFinite, FS_RemoveElement
<1>3. down \in Bijection(older, MotionRecords(rest))
  <2>0. \A i \in older : i \in Int
    BY <1>1 DEF MotionRecords
  <2>1. down \in [older -> MotionRecords(rest)]
    BY <1>1 DEF MotionRecords
  <2>2. \A i, j \in older : down[i] = down[j] => i = j
    BY <2>0
  <2>3. \A k \in MotionRecords(rest) : \E i \in older : down[i] = k
    <3> SUFFICES ASSUME NEW k \in MotionRecords(rest) PROVE k + 1 \in older /\ down[k + 1] = k
      OBVIOUS
    <3> QED
      BY <1>1 DEF MotionRecords
  <2> HIDE DEF down, older
  <2> QED
    BY <2>1, <2>2, <2>3, Fun_IsBij
<1>4. Cardinality(MotionRecords(rest)) = Cardinality(older)
  BY <1>2, <1>3, FS_Bijection DEF ExistsBijection
<1> QED
  BY <1>2, <1>4 DEF rest

\* As long as nothing has disturbed the records, they are in step: a report
\* under way has read the count that still holds, and a side trip has an empty
\* ring and the radio to itself.
InStep ==
    drift = {} =>
        /\ Len(m_recent_motion) <= Len(tx_fifo)
        /\ m_pointer_inflight_count = Cardinality(MotionRecords(m_recent_motion))
        /\ mouse # NoSend =>
              /\ ~mouse.overwritten /\ ~m_sync_tx_in_progress
              /\ mouse.at = "push" => mouse.count = m_pointer_inflight_count
        /\ m_sync_tx_in_progress => m_recent_motion = <<>>

\* A push and a write that disturb nothing lengthen ring and queue by one.
LEMMA PushInStep ==
    ASSUME NEW ring \in Seq(Nat), NEW fifo \in Seq(Packets), NEW record \in Nat,
           NEW kind, NEW motion, NEW chan,
           Len(ring) <= Len(fifo), Overrun(ring) = {}, Refused(fifo) = {},
           m_recent_motion' = motion_ring_push(ring, record),
           esb_write_payload(fifo, kind, motion, chan)
    PROVE  /\ Len(m_recent_motion') <= Len(tx_fifo')
           /\ Cardinality(MotionRecords(m_recent_motion'))
                = Cardinality(MotionRecords(ring)) + (IF record # 0 THEN 1 ELSE 0)
<1> DEFINE pkt == [id |-> sends', kind |-> kind, motion |-> motion, chan |-> chan]
<1>1. Writable(fifo) /\ Len(ring) < RingSize /\ Len(ring) \in Nat /\ Len(fifo) \in Nat
  BY RingSizeAssumption DEF Overrun, Refused
<1>2. m_recent_motion' = Append(ring, record)
  BY <1>1, RingSizeAssumption DEF motion_ring_push
<1>3. tx_fifo' = Append(fifo, pkt)
  BY <1>1 DEF esb_write_payload
<1> HIDE DEF pkt
<1>4. Len(m_recent_motion') = Len(ring) + 1
  BY <1>2
<1>5. Len(tx_fifo') = Len(fifo) + 1
  BY <1>3
<1> QED
  BY <1>1, <1>2, <1>4, <1>5, RecordPushed

\* An event about the oldest packet takes the oldest record with it.
LEMMA ConsumeInStep ==
    ASSUME RadioTypeOK, NEW failed, motion_ring_consume(failed),
           m_pointer_inflight_count = Cardinality(MotionRecords(m_recent_motion))
    PROVE  /\ m_pointer_inflight_count' = Cardinality(MotionRecords(m_recent_motion'))
           /\ m_recent_motion = <<>> => m_recent_motion' = <<>>
           /\ m_recent_motion # <<>> => Len(m_recent_motion') = Len(m_recent_motion) - 1
<1>1. m_recent_motion \in Seq(Nat) /\ m_pointer_inflight_count \in Nat
  BY DEF RadioTypeOK
<1>2. CASE m_recent_motion = <<>>
  BY <1>2 DEF motion_ring_consume, ringVars
<1>3. CASE m_recent_motion # <<>>
  <2>1. m_recent_motion' = Tail(m_recent_motion)
    BY <1>3 DEF motion_ring_consume
  <2>2. Len(m_recent_motion') = Len(m_recent_motion) - 1
    BY <1>1, <1>3, <2>1
  <2>3. /\ Cardinality(MotionRecords(m_recent_motion'))
             = m_pointer_inflight_count - (IF Head(m_recent_motion) # 0 THEN 1 ELSE 0)
        /\ Cardinality(MotionRecords(m_recent_motion')) \in Nat
    <3>1. m_recent_motion' \in Seq(Nat)
      BY <1>1, <1>3, <2>1
    <3> QED
      BY <1>1, <1>3, <2>1, <3>1, RecordConsumed, RecordsFinite
  <2>4. m_pointer_inflight_count' = Cardinality(MotionRecords(m_recent_motion'))
    BY <1>1, <1>3, <2>3 DEF motion_ring_consume
  <2> QED
    BY <1>3, <2>2, <2>4
<1> QED
  BY <1>2, <1>3

\* A send of the workqueue, onto the queue as it is or a flushed one.
LEMMA SendInStep ==
    ASSUME RadioTypeOK, NEW kind, NEW fifo \in Seq(Packets), NEW ring \in Seq(Nat),
           NEW inflight, NEW since,
           since = {} => /\ Len(ring) <= Len(fifo)
                         /\ inflight = Cardinality(MotionRecords(ring)),
           Send(kind, fifo, ring, inflight, since)
    PROVE  InStep'
<1> SUFFICES ASSUME drift' = {} PROVE InStep'
  BY DEF InStep
<1>1. since = {} /\ CutIn = {} /\ Overrun(ring) = {} /\ Refused(fifo) = {}
  BY DEF Send
<1>2. /\ m_recent_motion' = motion_ring_push(ring, 0) /\ m_pointer_inflight_count' = inflight
      /\ esb_write_payload(fifo, kind, 0, m_addr_channel)
      /\ mouse' = NoSend /\ ~m_sync_tx_in_progress'
  BY <1>1 DEF Send, CutIn
<1>3. /\ Len(m_recent_motion') <= Len(tx_fifo')
      /\ Cardinality(MotionRecords(m_recent_motion')) = Cardinality(MotionRecords(ring)) + 0
  BY <1>1, <1>2, PushInStep
<1>4. Cardinality(MotionRecords(ring)) \in Nat
  BY RecordsFinite
<1> QED
  BY <1>1, <1>2, <1>3, <1>4 DEF InStep

\* A step of the input thread: it takes up the refund, reads the count, and
\* writes both back.
LEMMA MouseInStep ==
    ASSUME RadioInv, InStep,
           (\E delta \in Deltas : MouseBegin(delta)) \/ MouseApply \/ MousePush
    PROVE  InStep'
<1> SUFFICES ASSUME drift' = {} PROVE InStep'
  BY DEF InStep
<1>0. /\ m_recent_motion \in Seq(Nat) /\ tx_fifo \in Seq(Packets)
      /\ m_pointer_inflight_count \in Nat
  BY DEF RadioInv, RadioTypeOK
<1>1. ASSUME NEW delta \in Deltas, MouseBegin(delta) PROVE InStep'
  <2>1. /\ ~m_sync_tx_in_progress' /\ mouse'.at = "apply" /\ ~mouse'.overwritten
    BY <1>1 DEF MouseBegin
  <2>2. CASE esb_tx_full
    <3>1. m_recent_motion' = <<>> /\ m_pointer_inflight_count' = 0 /\ tx_fifo' = <<>>
      BY <1>1, <2>2 DEF MouseBegin, ring_reset
    <3> QED
      BY <2>1, <3>1, NoRecords DEF InStep
  <2>3. CASE ~esb_tx_full
    <3>1. UNCHANGED <<m_recent_motion, m_pointer_inflight_count, tx_fifo, drift>>
      BY <1>1, <2>3 DEF MouseBegin
    <3> QED
      BY <2>1, <3>1 DEF InStep
  <2> QED
    BY <2>2, <2>3
<1>2. CASE MouseApply
  <2>1. /\ UNCHANGED <<m_recent_motion, m_pointer_inflight_count, tx_fifo, drift,
                       m_sync_tx_in_progress>>
        /\ mouse # NoSend
        /\ mouse' = [mouse EXCEPT !.at = "push", !.motion = sat16(mouse.motion),
                                  !.count = m_pointer_inflight_count,
                                  !.overwritten = FALSE]
    BY <1>2 DEF MouseApply, radioVars
  <2>2. mouse \in [at : {"apply", "push"}, motion : Nat, refunds : BOOLEAN,
                   count : Nat, overwritten : BOOLEAN]
    BY <2>1 DEF RadioInv, RadioTypeOK
  <2>3. mouse'.count = m_pointer_inflight_count /\ mouse'.overwritten = FALSE
    BY <2>1, <2>2
  <2> QED
    BY <2>1, <2>3 DEF InStep
<1>3. CASE MousePush
  <2>1. drift = {} /\ Overrun(m_recent_motion) = {} /\ Refused(tx_fifo) = {}
    BY <1>3 DEF MousePush
  <2>2. /\ mouse # NoSend /\ mouse.at = "push" /\ mouse' = NoSend
        /\ m_sync_tx_in_progress' = m_sync_tx_in_progress
        /\ esb_write_payload(tx_fifo, "mouse", mouse.motion, m_addr_channel)
        /\ m_pointer_inflight_count' =
                IF mouse.motion # 0 THEN mouse.count + 1 ELSE m_pointer_inflight_count
    BY <1>3 DEF MousePush
  <2>3. /\ ~mouse.overwritten /\ ~m_sync_tx_in_progress
        /\ mouse.count = m_pointer_inflight_count
        /\ Len(m_recent_motion) <= Len(tx_fifo)
        /\ m_pointer_inflight_count = Cardinality(MotionRecords(m_recent_motion))
    BY <2>1, <2>2 DEF InStep
  <2>4. m_recent_motion' = motion_ring_push(m_recent_motion, mouse.motion) /\ mouse.motion \in Nat
    BY <1>3, <2>2, <2>3 DEF MousePush, RadioInv, RadioTypeOK
  <2>5. /\ Len(m_recent_motion') <= Len(tx_fifo')
        /\ Cardinality(MotionRecords(m_recent_motion'))
              = m_pointer_inflight_count + (IF mouse.motion # 0 THEN 1 ELSE 0)
    BY <1>0, <2>1, <2>2, <2>3, <2>4, PushInStep
  <2>6. m_pointer_inflight_count' = Cardinality(MotionRecords(m_recent_motion'))
    BY <1>0, <2>2, <2>3, <2>5
  <2> QED
    BY <2>2, <2>3, <2>5, <2>6 DEF InStep
<1> QED
  BY <1>1, <1>2, <1>3

\* An acknowledgement takes a packet and its record, a failure the record alone
\* or everything.
LEMMA EventInStep ==
    ASSUME RadioInv, InStep, TxAcked \/ (\E got \in HeardAnyway : TxFailed(got))
    PROVE  InStep'
<1> SUFFICES ASSUME drift' = {} PROVE InStep'
  BY DEF InStep
<1>0. /\ m_recent_motion \in Seq(Nat) /\ tx_fifo \in Seq(Packets) /\ RadioTypeOK
  BY DEF RadioInv, RadioTypeOK
<1>1. CutIn = {} /\ mouse' = mouse /\ m_sync_tx_in_progress' = FALSE
  BY DEF TxAcked, TxFailed
<1>2. mouse' = NoSend
  BY <1>1 DEF CutIn
<1>3. CASE TxAcked
  <2>1. /\ drift = {}
        /\ tx_fifo' = IF tx_fifo = <<>> THEN <<>> ELSE Tail(tx_fifo)
    BY <1>3 DEF TxAcked
  <2>2. /\ Len(m_recent_motion) <= Len(tx_fifo)
        /\ m_pointer_inflight_count = Cardinality(MotionRecords(m_recent_motion))
    BY <2>1 DEF InStep
  <2>3. CASE m_sync_tx_in_progress
    <3>1. m_recent_motion = <<>> /\ UNCHANGED <<m_recent_motion, m_pointer_inflight_count>>
      BY <1>3, <2>1, <2>3 DEF InStep, TxAcked, ringVars
    <3>2. Len(tx_fifo') \in Nat
      BY <1>0, <2>1
    <3>3. Len(m_recent_motion') <= Len(tx_fifo')
      BY <3>1, <3>2
    <3> QED
      BY <1>1, <1>2, <2>2, <3>1, <3>3 DEF InStep
  <2>4. CASE ~m_sync_tx_in_progress
    <3>1. motion_ring_consume(FALSE)
      BY <1>3, <2>4 DEF TxAcked
    <3>2. /\ m_pointer_inflight_count' = Cardinality(MotionRecords(m_recent_motion'))
          /\ m_recent_motion = <<>> => m_recent_motion' = <<>>
          /\ m_recent_motion # <<>> => Len(m_recent_motion') = Len(m_recent_motion) - 1
      BY <1>0, <2>2, <3>1, ConsumeInStep
    <3>3. Len(m_recent_motion') <= Len(tx_fifo')
      <4>1. CASE tx_fifo = <<>>
        BY <1>0, <2>1, <2>2, <3>2, <4>1
      <4>2. CASE tx_fifo # <<>>
        <5>1. Len(tx_fifo') = Len(tx_fifo) - 1 /\ Len(tx_fifo) \in Nat \ {0}
          BY <1>0, <2>1, <4>2
        <5> QED
          BY <1>0, <2>2, <3>2, <5>1
      <4> QED
        BY <4>1, <4>2
    <3> QED
      BY <1>1, <1>2, <3>2, <3>3 DEF InStep
  <2> QED
    BY <2>3, <2>4
<1>4. ASSUME NEW got \in HeardAnyway, TxFailed(got) PROVE InStep'
  <2>1. CASE m_sync_tx_in_progress \/ esb_tx_full
    <3>1. m_recent_motion' = <<>> /\ m_pointer_inflight_count' = 0 /\ tx_fifo' = <<>>
      BY <1>4, <2>1 DEF TxFailed, ring_reset
    <3> QED
      BY <1>1, <1>2, <3>1, NoRecords DEF InStep
  <2>2. CASE ~(m_sync_tx_in_progress \/ esb_tx_full)
    <3>1. motion_ring_consume(TRUE) /\ tx_fifo' = tx_fifo /\ drift = {}
      BY <1>4, <2>2 DEF TxFailed, LeftInFifo
    <3>2. /\ Len(m_recent_motion) <= Len(tx_fifo)
          /\ m_pointer_inflight_count = Cardinality(MotionRecords(m_recent_motion))
      BY <3>1 DEF InStep
    <3>3. /\ m_pointer_inflight_count' = Cardinality(MotionRecords(m_recent_motion'))
          /\ m_recent_motion = <<>> => m_recent_motion' = <<>>
          /\ m_recent_motion # <<>> => Len(m_recent_motion') = Len(m_recent_motion) - 1
      BY <1>0, <3>1, <3>2, ConsumeInStep
    <3>4. Len(m_recent_motion') <= Len(tx_fifo')
      BY <1>0, <3>1, <3>2, <3>3
    <3> QED
      BY <1>1, <1>2, <3>3, <3>4 DEF InStep
  <2> QED
    BY <2>1, <2>2
<1> QED
  BY <1>3, <1>4

\* The calls that flush first of all, the end of a side trip, slot start and stop.
LEMMA FlushInStep ==
    ASSUME RadioInv, InStep,
           \/ \E ch \in Channels : esb_transport_set_channel(ch)
           \/ esb_transport_send_blocking
           \/ SideTripEnd
           \/ \E on \in BOOLEAN, ch \in Channels : SlotReset(on, ch)
    PROVE  InStep'
<1> SUFFICES ASSUME drift' = {} PROVE InStep'
  BY DEF InStep
<1>1. ASSUME NEW ch \in Channels, esb_transport_set_channel(ch) PROVE InStep'
  <2>1. /\ m_recent_motion' = <<>> /\ m_pointer_inflight_count' = 0 /\ tx_fifo' = <<>>
        /\ mouse' = NoSend
    BY <1>1 DEF esb_transport_set_channel, esb_flush_tx_and_reset, ring_reset, CutIn
  <2> QED
    BY <2>1, NoRecords DEF InStep
<1>2. CASE esb_transport_send_blocking
  <2>1. m_recent_motion' = <<>> /\ m_pointer_inflight_count' = 0 /\ mouse' = NoSend
    BY <1>2 DEF esb_transport_send_blocking, esb_flush_tx_and_reset, ring_reset, CutIn
  <2>2. tx_fifo' \in Seq(Packets)
    BY <1>2, SideTripKeeps DEF RadioInv, RadioTypeOK
  <2>3. Len(m_recent_motion') <= Len(tx_fifo')
    BY <2>1, <2>2
  <2> QED
    BY <2>1, <2>3, NoRecords DEF InStep
<1>3. CASE SideTripEnd
  <2>1. /\ UNCHANGED <<m_recent_motion, m_pointer_inflight_count, tx_fifo, mouse, drift>>
        /\ m_sync_tx_in_progress' = FALSE
    BY <1>3 DEF SideTripEnd, ringVars
  <2> QED
    BY <2>1 DEF InStep
<1>4. ASSUME NEW on \in BOOLEAN, NEW ch \in Channels, SlotReset(on, ch) PROVE InStep'
  <2>1. /\ drift = {} /\ m_recent_motion' = <<>> /\ mouse' = NoSend /\ tx_fifo' = <<>>
        /\ UNCHANGED <<m_recent_motion, m_pointer_inflight_count, m_sync_tx_in_progress>>
    BY <1>4 DEF SlotReset, ringVars, CutIn
  <2> QED
    BY <2>1 DEF InStep
<1> QED
  BY <1>1, <1>2, <1>3, <1>4

\* Every step keeps the records in step.
LEMMA StepInStep ==
    ASSUME RadioInv, InStep, [TransportNext]_transportVars
    PROVE  InStep'
<1>0. /\ RadioTypeOK /\ m_recent_motion \in Seq(Nat) /\ tx_fifo \in Seq(Packets)
      /\ m_addr_channel \in Channels /\ <<>> \in Seq(Nat) /\ <<>> \in Seq(Packets)
  BY DEF RadioInv, RadioTypeOK
<1>1. ASSUME NEW kind \in {"user", "shell"}, SendQueued(kind) PROVE InStep'
  <2>1. Send(kind, tx_fifo, m_recent_motion, m_pointer_inflight_count, drift)
    BY <1>1 DEF SendQueued
  <2>2. drift = {} => /\ Len(m_recent_motion) <= Len(tx_fifo)
                      /\ m_pointer_inflight_count = Cardinality(MotionRecords(m_recent_motion))
    BY DEF InStep
  <2> QED
    BY <1>0, <2>1, <2>2, SendInStep
<1>2. ASSUME NEW idle \in BOOLEAN, SendFlushing(idle) PROVE InStep'
  <2>1. Send("user", <<>>, <<>>, 0, {}) /\ Len(<<>>) <= Len(<<>>)
    BY <1>2 DEF SendFlushing
  <2> QED
    BY <1>0, <2>1, NoRecords, SendInStep
<1>3. CASE (\E delta \in Deltas : MouseBegin(delta)) \/ MouseApply \/ MousePush
  BY <1>3, MouseInStep
<1>4. CASE TxAcked \/ (\E got \in HeardAnyway : TxFailed(got))
  BY <1>4, EventInStep
<1>5. CASE QuietOver \/ UNCHANGED transportVars
  <2>1. UNCHANGED <<m_recent_motion, m_pointer_inflight_count, tx_fifo, mouse, drift,
                    m_sync_tx_in_progress>>
    BY <1>5 DEF QuietOver, transportVars, radioVars, ringVars
  <2> QED
    BY <2>1 DEF InStep
<1>6. CASE \/ \E ch \in Channels : esb_transport_set_channel(ch)
           \/ esb_transport_send_blocking
           \/ SideTripEnd
  BY <1>6, FlushInStep
<1>7. CASE SlotStart \/ SlotStop
  <2>1. \E on \in BOOLEAN, ch \in Channels : SlotReset(on, ch)
    BY <1>0, <1>7, RendezvousAssumption DEF SlotStart, SlotStop
  <2> QED
    BY <2>1, FlushInStep
<1> QED
  BY <1>1, <1>2, <1>3, <1>4, <1>5, <1>6, <1>7 DEF TransportNext

\* Nothing is recorded at first.
LEMMA InitInStep == TransportInit => InStep
BY NoRecords DEF TransportInit, InStep

\* The motion ring stays in step with the engine's queue (motion_ring_push,
\* motion_ring_consume, esb_flush_tx_and_reset) until a report is cut into, the
\* ring overruns or a slot change loses packets: there are never more records
\* than packets, and the in-flight count that back-pressure looks at is the
\* number of records with motion.
THEOREM RecordsInStep == TransportSpec => []BookkeepingInStep
<1>1. InStep => BookkeepingInStep
  BY DEF InStep, BookkeepingInStep
<1>2. TransportSpec => []InStep
  BY InitInStep, StepInStep, RadioInvariant, PTL DEF TransportSpec
<1> QED
  BY <1>1, <1>2, PTL

----------------------------------------------------------------------------
(* The rest of the type invariant.                                          *)

Motions == 0..Int16Max

\* What TransportTypeOK adds to the types the radio's argument needs: the bound
\* of the queue, the 16 bits of a record, the bound on sends, the ledger.
BoundsOK ==
    /\ Len(tx_fifo) <= FifoDepth
    /\ m_recent_motion \in Seq(Motions)
    /\ sends <= MaxSends + 1
    /\ moved \in Nat /\ arrived \in Nat
    /\ drift \subseteq {"cut_in", "overrun", "slot"}

FlagsOK == active \in BOOLEAN /\ quiet \in BOOLEAN

\* A record is a 16-bit number.
LEMMA PushInRange ==
    ASSUME NEW ring \in Seq(Motions), NEW motion \in Motions
    PROVE  motion_ring_push(ring, motion) \in Seq(Motions)
<1> DEFINE alias == Len(ring) + 1 - RingSize
<1> HIDE DEF Motions
<1>1. CASE alias > 0
  <2>1. alias \in 1..Len(ring)
    BY <1>1, RingSizeAssumption
  <2>2. [ring EXCEPT ![alias] = motion] \in Seq(Motions)
    BY <2>1
  <2> QED
    BY <1>1, <2>2 DEF motion_ring_push
<1>2. CASE ~(alias > 0)
  BY <1>2 DEF motion_ring_push
<1> QED
  BY <1>1, <1>2

\* What motion_ring_consume leaves are older records.
LEMMA ConsumeInRange ==
    ASSUME m_recent_motion \in Seq(Motions), NEW failed, motion_ring_consume(failed)
    PROVE  m_recent_motion' \in Seq(Motions)
<1> HIDE DEF Motions
<1>1. CASE m_recent_motion = <<>>
  BY <1>1 DEF motion_ring_consume, ringVars
<1>2. CASE m_recent_motion # <<>>
  <2>1. Tail(m_recent_motion) \in Seq(Motions)
    BY <1>2
  <2> QED
    BY <1>2, <2>1 DEF motion_ring_consume
<1> QED
  BY <1>1, <1>2

\* esb_write_payload refuses what does not fit.
LEMMA WriteFits ==
    ASSUME NEW fifo \in Seq(Packets), Len(fifo) <= FifoDepth, NEW kind, NEW motion, NEW chan,
           esb_write_payload(fifo, kind, motion, chan)
    PROVE  Len(tx_fifo') <= FifoDepth
<1> DEFINE pkt == [id |-> sends', kind |-> kind, motion |-> motion, chan |-> chan]
<1>1. CASE ~Writable(fifo)
  BY <1>1 DEF esb_write_payload
<1>2. CASE Writable(fifo)
  <2>1. tx_fifo' = Append(fifo, pkt)
    BY <1>2 DEF esb_write_payload
  <2> HIDE DEF pkt
  <2>2. Len(tx_fifo') = Len(fifo) + 1 /\ Len(fifo) \in Nat
    BY <2>1
  <2> QED
    BY <1>2, <2>2, FifoDepthAssumption DEF Writable
<1> QED
  BY <1>1, <1>2

\* A packet has motion, and the dongle adds it once.
LEMMA ArriveInRange ==
    ASSUME RadioTypeOK, BoundsOK, pdu # NoPdu, Arrive(pdu.pkt)
    PROVE  moved' \in Nat /\ arrived' \in Nat
<1>1. pdu.pkt.motion \in Nat
  <2>1. pdu.pkt \in Packets
    BY DEF RadioTypeOK
  <2> QED
    BY <2>1, Int16MaxAssumption DEF Packets
<1> QED
  BY <1>1 DEF BoundsOK, Arrive

\* A send of the workqueue.
LEMMA SendInRange ==
    ASSUME RadioInv, BoundsOK, NEW kind, NEW fifo \in {tx_fifo, <<>>},
           NEW ring \in {m_recent_motion, <<>>}, NEW inflight, NEW since \in {drift, {}},
           Send(kind, fifo, ring, inflight, since)
    PROVE  BoundsOK'
<1>1. fifo \in Seq(Packets) /\ Len(fifo) <= FifoDepth /\ ring \in Seq(Motions) /\ 0 \in Motions
  <2>1. /\ <<>> \in Seq(Packets) /\ Len(<<>>) = 0 /\ <<>> \in Seq(Motions)
        /\ 0 <= FifoDepth /\ 0 \in Motions
    BY FifoDepthAssumption, Int16MaxAssumption DEF Motions
  <2>2. tx_fifo \in Seq(Packets) /\ Len(tx_fifo) <= FifoDepth /\ m_recent_motion \in Seq(Motions)
    BY DEF RadioInv, RadioTypeOK, BoundsOK
  <2> HIDE DEF Motions
  <2> QED
    BY <2>1, <2>2
<1>2. Len(tx_fifo') <= FifoDepth
  BY <1>1, WriteFits DEF Send
<1>3. m_recent_motion' \in Seq(Motions)
  BY <1>1, PushInRange DEF Send
<1>4. sends' <= MaxSends + 1
  <2>1. sends \in Nat /\ sends < MaxSends /\ sends' = sends + 1
    BY DEF RadioInv, RadioTypeOK, Send, esb_write_payload
  <2> QED
    BY <2>1, MaxSendsAssumption
<1>5. drift' \subseteq {"cut_in", "overrun", "slot"}
  BY DEF Send, CutIn, Overrun, Refused, BoundsOK
<1> QED
  BY <1>2, <1>3, <1>4, <1>5 DEF BoundsOK, Send, ledgerVars

\* A step of the input thread.
LEMMA MouseInRange ==
    ASSUME RadioInv, BoundsOK,
           (\E delta \in Deltas : MouseBegin(delta)) \/ MouseApply \/ MousePush
    PROVE  BoundsOK'
<1>0. tx_fifo \in Seq(Packets) /\ m_recent_motion \in Seq(Motions) /\ sends \in Nat
  BY DEF RadioInv, RadioTypeOK, BoundsOK
<1>1. ASSUME NEW delta \in Deltas, MouseBegin(delta) PROVE BoundsOK'
  <2>1. /\ sends' = sends /\ arrived' = arrived /\ moved' = moved + delta
        /\ drift' = drift \/ drift' = {}
        /\ tx_fifo' = tx_fifo \/ tx_fifo' = <<>>
        /\ m_recent_motion' = m_recent_motion \/ m_recent_motion' = <<>>
    BY <1>1 DEF MouseBegin, ring_reset
  <2>2. m_recent_motion' \in Seq(Motions)
    <3>1. <<>> \in Seq(Motions)
      OBVIOUS
    <3> HIDE DEF Motions
    <3> QED
      BY <1>0, <2>1, <3>1
  <2>3. Len(tx_fifo') <= FifoDepth
    BY <2>1, FifoDepthAssumption DEF BoundsOK
  <2>4. moved' \in Nat
    <3>1. delta \in Nat
      BY DeltasAssumption, Int16MaxAssumption
    <3> QED
      BY <2>1, <3>1 DEF BoundsOK
  <2> QED
    BY <2>1, <2>2, <2>3, <2>4 DEF BoundsOK
<1>2. CASE MouseApply
  BY <1>2 DEF MouseApply, radioVars, ledgerVars, BoundsOK
<1>3. CASE MousePush
  <2>1. mouse # NoSend /\ mouse.motion \in Motions /\ sends <= MaxSends
    BY <1>3, Int16MaxAssumption DEF MousePush, RadioInv, RadioTypeOK, Motions
  <2>2. Len(tx_fifo') <= FifoDepth
    BY <1>0, <1>3, WriteFits DEF MousePush, BoundsOK
  <2>3. m_recent_motion' \in Seq(Motions)
    <3>1. \E record \in Motions : m_recent_motion' = motion_ring_push(m_recent_motion, record)
      BY <1>3, <2>1 DEF MousePush, Motions
    <3> QED
      BY <1>0, <3>1, PushInRange
  <2>4. sends' <= MaxSends + 1
    <3>1. sends' = sends + 1
      BY <1>3 DEF MousePush, esb_write_payload
    <3> QED
      BY <1>0, <2>1, <3>1, MaxSendsAssumption
  <2>5. drift' \subseteq {"cut_in", "overrun", "slot"}
    BY <1>3 DEF MousePush, Overrun, Refused, BoundsOK
  <2> QED
    BY <1>3, <2>2, <2>3, <2>4, <2>5 DEF MousePush, ledgerVars, BoundsOK
<1> QED
  BY <1>1, <1>2, <1>3

\* An event of the radio.
LEMMA EventInRange ==
    ASSUME RadioInv, BoundsOK, TxAcked \/ (\E got \in HeardAnyway : TxFailed(got))
    PROVE  BoundsOK'
<1>0. /\ tx_fifo \in Seq(Packets) /\ m_recent_motion \in Seq(Motions)
      /\ <<>> \in Seq(Motions) /\ RadioTypeOK
  BY DEF RadioInv, RadioTypeOK, BoundsOK
<1>1. CASE TxAcked
  <2>1. moved' \in Nat /\ arrived' \in Nat
    BY <1>0, <1>1, ArriveInRange DEF TxAcked
  <2>2. Len(tx_fifo') <= FifoDepth
    <3>1. CASE tx_fifo = <<>>
      BY <1>1, <3>1 DEF TxAcked, BoundsOK
    <3>2. CASE tx_fifo # <<>>
      <4>1. Len(Tail(tx_fifo)) = Len(tx_fifo) - 1 /\ Len(tx_fifo) \in Nat
        BY <1>0, <3>2
      <4> QED
        BY <1>1, <3>2, <4>1, FifoDepthAssumption DEF TxAcked, BoundsOK
    <3> QED
      BY <3>1, <3>2
  <2>3. m_recent_motion' \in Seq(Motions)
    BY <1>0, <1>1, ConsumeInRange DEF TxAcked, ringVars
  <2>4. drift' \subseteq {"cut_in", "overrun", "slot"} /\ sends' = sends
    BY <1>1 DEF TxAcked, CutIn, BoundsOK
  <2> QED
    BY <2>1, <2>2, <2>3, <2>4 DEF BoundsOK
<1>2. ASSUME NEW got \in HeardAnyway, TxFailed(got) PROVE BoundsOK'
  <2>1. moved' \in Nat /\ arrived' \in Nat
    <3>1. CASE Arrive(pdu.pkt)
      BY <1>0, <1>2, <3>1, ArriveInRange DEF TxFailed
    <3>2. CASE UNCHANGED ledgerVars
      BY <3>2 DEF ledgerVars, BoundsOK
    <3> QED
      BY <1>2, <3>1, <3>2 DEF TxFailed
  <2>2. Len(tx_fifo') <= FifoDepth
    <3>1. tx_fifo' = tx_fifo \/ tx_fifo' = <<>>
      BY <1>2 DEF TxFailed, LeftInFifo
    <3> QED
      BY <3>1, FifoDepthAssumption DEF BoundsOK
  <2>3. m_recent_motion' \in Seq(Motions)
    <3>1. m_recent_motion' = <<>> \/ motion_ring_consume(TRUE)
      BY <1>2 DEF TxFailed, ring_reset
    <3> QED
      BY <1>0, <3>1, ConsumeInRange
  <2>4. drift' \subseteq {"cut_in", "overrun", "slot"} /\ sends' = sends
    BY <1>2 DEF TxFailed, CutIn, BoundsOK
  <2> QED
    BY <2>1, <2>2, <2>3, <2>4 DEF BoundsOK
<1> QED
  BY <1>1, <1>2

\* The calls that flush first of all, the end of a side trip, slot start and stop.
LEMMA FlushInRange ==
    ASSUME RadioInv, BoundsOK,
           \/ \E ch \in Channels : esb_transport_set_channel(ch)
           \/ esb_transport_send_blocking
           \/ SideTripEnd
           \/ \E on \in BOOLEAN, ch \in Channels : SlotReset(on, ch)
    PROVE  BoundsOK'
<1>0. <<>> \in Seq(Motions) /\ <<>> \in Seq(Packets) /\ Len(<<>>) = 0 /\ Len(<<>>) <= FifoDepth
  BY FifoDepthAssumption
<1>1. drift' \subseteq {"cut_in", "overrun", "slot"} /\ moved' = moved /\ arrived' = arrived
  BY DEF esb_transport_set_channel, esb_transport_send_blocking, SideTripEnd, SlotReset,
         esb_flush_tx_and_reset, CutIn, BoundsOK, ledgerVars
<1>2. ASSUME NEW ch \in Channels, esb_transport_set_channel(ch) PROVE BoundsOK'
  BY <1>0, <1>1, <1>2 DEF esb_transport_set_channel, esb_flush_tx_and_reset, ring_reset, BoundsOK
<1>3. CASE esb_transport_send_blocking
  <2>1. m_recent_motion' \in Seq(Motions)
    BY <1>0, <1>3 DEF esb_transport_send_blocking, esb_flush_tx_and_reset, ring_reset
  <2>2. Len(tx_fifo') <= FifoDepth
    BY <1>0, <1>3, WriteFits DEF esb_transport_send_blocking
  <2>3. sends' <= MaxSends + 1
    <3>1. sends < MaxSends /\ (sends' = sends \/ sends' = sends + 1) /\ sends \in Nat
      BY <1>3 DEF esb_transport_send_blocking, esb_write_payload, RadioInv, RadioTypeOK
    <3> QED
      BY <3>1, MaxSendsAssumption
  <2> QED
    BY <1>1, <2>1, <2>2, <2>3 DEF BoundsOK
<1>4. CASE SideTripEnd
  BY <1>1, <1>4 DEF SideTripEnd, ringVars, BoundsOK
<1>5. ASSUME NEW on \in BOOLEAN, NEW ch \in Channels, SlotReset(on, ch) PROVE BoundsOK'
  BY <1>0, <1>1, <1>5 DEF SlotReset, ringVars, BoundsOK
<1> QED
  BY <1>2, <1>3, <1>4, <1>5

\* Every step stays within the bounds.
LEMMA StepInRange ==
    ASSUME RadioInv, BoundsOK, [TransportNext]_transportVars
    PROVE  BoundsOK'
<1>1. ASSUME NEW kind \in {"user", "shell"}, SendQueued(kind) PROVE BoundsOK'
  BY <1>1, SendInRange DEF SendQueued
<1>2. ASSUME NEW idle \in BOOLEAN, SendFlushing(idle) PROVE BoundsOK'
  BY <1>2, SendInRange DEF SendFlushing
<1>3. CASE (\E delta \in Deltas : MouseBegin(delta)) \/ MouseApply \/ MousePush
  BY <1>3, MouseInRange
<1>4. CASE TxAcked \/ (\E got \in HeardAnyway : TxFailed(got))
  BY <1>4, EventInRange
<1>5. CASE QuietOver \/ UNCHANGED transportVars
  BY <1>5 DEF QuietOver, transportVars, radioVars, ringVars, ledgerVars, BoundsOK
<1>6. CASE \/ \E ch \in Channels : esb_transport_set_channel(ch)
           \/ esb_transport_send_blocking
           \/ SideTripEnd
  BY <1>6, FlushInRange
<1>7. CASE SlotStart \/ SlotStop
  <2>1. \E on \in BOOLEAN, ch \in Channels : SlotReset(on, ch)
    BY <1>7, RendezvousAssumption DEF SlotStart, SlotStop, RadioInv, RadioTypeOK
  <2> QED
    BY <2>1, FlushInRange
<1> QED
  BY <1>1, <1>2, <1>3, <1>4, <1>5, <1>6, <1>7 DEF TransportNext

\* The flags of the slot and of the quiet window are Booleans.
LEMMA StepFlags ==
    ASSUME FlagsOK, [TransportNext]_transportVars
    PROVE  FlagsOK'
BY DEF FlagsOK, TransportNext, transportVars, SendQueued, SendFlushing, Send, MouseBegin,
       MouseApply, MousePush, TxAcked, TxFailed, esb_transport_set_channel, QuietOver,
       esb_transport_send_blocking, SideTripEnd, SlotStart, SlotStop, SlotReset

\* Type correctness of the transport: the queue never exceeds the engine's
\* FIFO, and every motion record and every packet holds 16 bits.
THEOREM TransportTypes == TransportSpec => []TransportTypeOK
<1>1. TransportInit => BoundsOK /\ FlagsOK
  <2>1. TransportInit => FlagsOK
    BY DEF TransportInit, FlagsOK
  <2>2. <<>> \in Seq(Motions) /\ Len(<<>>) <= FifoDepth /\ 0 <= MaxSends + 1
    BY FifoDepthAssumption, MaxSendsAssumption
  <2> QED
    BY <2>1, <2>2 DEF TransportInit, BoundsOK
<1>2. TransportSpec => [](BoundsOK /\ FlagsOK)
  BY <1>1, StepInRange, StepFlags, RadioInvariant, PTL DEF TransportSpec
<1>3. ASSUME RadioInv, BoundsOK, FlagsOK PROVE TransportTypeOK
  <2>1. sends \in 0..(MaxSends + 1) /\ heard \in 0..sends
    BY <1>3, MaxSendsAssumption DEF RadioInv, RadioTypeOK, Sorted, BoundsOK
  <2>2. m_recent_motion \in Seq(0..Int16Max)
    BY <1>3 DEF BoundsOK, Motions
  <2>3. mouse \in [at : {"apply", "push"}, motion : Nat, refunds : BOOLEAN,
                   count : Nat, overwritten : BOOLEAN] \cup {NoSend}
    BY <1>3 DEF RadioInv, RadioTypeOK
  <2> QED
    BY <1>3, <2>1, <2>2, <2>3, Zenon DEF RadioInv, RadioTypeOK, BoundsOK, FlagsOK, TransportTypeOK
<1> QED
  BY <1>2, <1>3, RadioInvariant, PTL
=============================================================================
