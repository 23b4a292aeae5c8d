---------------------------- MODULE EsbProtocol ----------------------------
(***************************************************************************)
(* The pairing part of the wire protocol (include/zmk_esb/protocol.h): the *)
(* packets a keyboard transmits, the replies a dongle puts into an         *)
(* acknowledgement, and the pipes they travel on.                          *)
(***************************************************************************)
EXTENDS Naturals

CONSTANTS
    DongleIds,      \* FICR device ids of dongles
    KeyboardIds,    \* FICR device ids of keyboards
    NoId,           \* six zero bytes: no device
    NoPkt           \* no packet

ASSUME NoIdAssumption == NoId \notin DongleIds \cup KeyboardIds

PIPE_PAIRING == 0
PIPE_DATA    == 1
Pipes == {PIPE_PAIRING, PIPE_DATA}

\* A packet is its type and the device id it carries (NoId if it has none).
Pkt(type, id) == [type |-> type, device_id |-> id]

\* What a dongle can put into an ACK payload.
RxPackets ==
    {Pkt(t, d) : t \in {"PAIR_REQ", "VERIFY_RESP"}, d \in DongleIds}
        \cup {Pkt(t, NoId) : t \in {"DISCONNECT", "RESYNC"}}

ASSUME NoPktAssumption == NoPkt \notin RxPackets

\* What a keyboard can transmit.
TxPackets ==
    {Pkt(t, k) : t \in {"BEACON", "PAIR_RESP", "VERIFY_REQ"}, k \in KeyboardIds}
        \cup {Pkt(t, NoId) : t \in {"HID_REPORT", "DISCONNECT"}}

\* Only beacons use the pairing pipe; PAIR_RESP goes out on the data pipe.
PipeOf(pkt) == IF pkt.type = "BEACON" THEN PIPE_PAIRING ELSE PIPE_DATA
=============================================================================
