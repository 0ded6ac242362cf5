--------------------------------- MODULE TxMux ---------------------------------
(***************************************************************************)
(* The transmit path of the FPGA, clock by clock: register replies         *)
(* (LAN_RD_REG), image packets (LAN_TX_FREAME), ARP and ping ask           *)
(* LAN_TX_MUX for the line; what the first two send goes through the       *)
(* payload FIFO to lan_tx, which puts it into a UDP frame.                 *)
(*                                                                         *)
(* Every register steps at every clock, so Next is the conjunction of the  *)
(* steps of the blocks.  A byte is its source, its place and the place of  *)
(* the last byte of its frame; the header of a UDP frame is one byte, at   *)
(* place 0.  The line is ready at every clock, as LAN_TX_MUX assumes.      *)
(***************************************************************************)
EXTENDS Naturals, Sequences

CONSTANTS
    ReplySize,            \* payload bytes of a reply
    DataSizes,            \* of image packets
    ArpSize, IcmpSize,    \* place of the last byte of these frames
    ProgFull,             \* threshold of the payload FIFO
    DelayClocks,          \* P2P_DELAY
    DoneClocks,           \* how long wr_done stays up
    None

Sender == {"reply", "data", "arp", "icmp"}

\* What can be on the line; "stale" is what an empty FIFO gives.
Bytes == [of : Sender \cup {"stale"}, at : Nat, size : Nat, last : BOOLEAN]

ASSUME TxAssumption ==
    /\ {ReplySize, ArpSize, IcmpSize, DelayClocks, DoneClocks} \subseteq Nat \ {0}
    /\ ProgFull \in Nat
    /\ DataSizes \subseteq 1 .. ProgFull - 1
    /\ None \notin Bytes

VARIABLES
    state,      \* LAN_TX_MUX: who has the line, and so whose ACK is up
    last,       \* wr_last_pack_num_o
    port,       \* DES_PORT_o
    din,        \* tx_fifo_din_o while tx_fifo_wr_en_o
    axis,       \* tx_axis_fifo: the byte on the line
    txDone,     \* tx_data_done
    reply,      \* LAN_RD_REG
    data,       \* LAN_TX_FREAME
    arp,        \* LAN_TX_ARP
    icmp,       \* LAN_RX_TX_ICMP
    fifo,       \* fifo_lan_tx
    lan,        \* lan_tx
    prev,       \* history: the byte that was on the line before
    unsent,     \* history: an image packet is asked for and not yet sent
    rushed      \* history: an ARP request came in the clock in which the answer to the last one ends

muxVars == <<state, last, port, din, axis, txDone>>
sourceVars == <<reply, data, arp, icmp>>
vars == <<muxVars, sourceVars, fifo, lan, prev, unsent, rushed>>

Byte(s, i, n) == [of |-> s, at |-> i, size |-> n, last |-> FALSE]

\* The two flip-flops in which a source looks for the rising edge of its ACK.
Sampled(b, s) == [b EXCEPT !.r0 = (state = s), !.r1 = b.r0]

Rises(b) == b.r0 /\ ~b.r1
-----------------------------------------------------------------------------
(***************************************************************************)
(* LAN_TX_MUX.                                                             *)
(***************************************************************************)
\* Variant: a UDP source is let in while wr_done is still up.
GrantEarly ==
    CASE reply.req -> "reply"
      [] ~reply.req /\ data.req -> "data"
      [] ~reply.req /\ ~data.req /\ arp.req -> "arp"
      [] ~reply.req /\ ~data.req /\ ~arp.req /\ icmp.req -> "icmp"
      [] OTHER -> "idle"

\* Reply, data, ARP, ping; the first two only while wr_done is down.
Grant ==
    LET udp(b) == b.req /\ ~lan.done
    IN  CASE udp(reply) -> "reply"
          [] ~udp(reply) /\ udp(data) -> "data"
          [] ~udp(reply) /\ ~udp(data) /\ arp.req -> "arp"
          [] ~udp(reply) /\ ~udp(data) /\ ~arp.req /\ icmp.req -> "icmp"
          [] OTHER -> "idle"

\* Variant: tx_data_done stays up from the last packet.
IdleKeepsDone ==
    /\ state = "idle"
    /\ state' = Grant
    /\ UNCHANGED <<last, port, din, axis, txDone>>

\* S_IDLE; the outputs keep what they had.
Idle ==
    /\ state = "idle"
    /\ state' = Grant
    /\ txDone' = (txDone /\ state' # "data")
    /\ UNCHANGED <<last, port, din, axis>>

\* Variant: the line is given up when the request falls.
CarryWhileRequested(s, b, size) ==
    /\ state = s
    /\ last' = size
    /\ port' = s
    /\ din' = b.out
    /\ axis' = lan.out
    /\ state' = IF b.req THEN s ELSE "idle"

\* What S_RD_REG and S_TX_DATA have in common.
Carry(s, b, size) ==
    /\ state = s
    /\ last' = size
    /\ port' = s
    /\ din' = b.out
    /\ axis' = lan.out
    /\ state' = IF lan.done THEN "idle" ELSE s

\* S_ARP and S_ICMP.
Pass(s, e) ==
    /\ state = s
    /\ axis' = e.out
    /\ state' = IF e.req THEN s ELSE "idle"
    /\ UNCHANGED <<last, port, din, txDone>>

Mux ==
    \/ Idle
    \/ Carry("reply", reply, ReplySize) /\ UNCHANGED txDone
    \/ Carry("data", data, data.size) /\ txDone' = (txDone \/ lan.done)
    \/ Pass("arp", arp)
    \/ Pass("icmp", icmp)
-----------------------------------------------------------------------------
(***************************************************************************)
(* The sources.                                                            *)
(***************************************************************************)
\* LAN_RD_REG: a read that comes in another state than 0 is not seen.
Reply ==
    LET now == Sampled(reply, "reply")
    IN  \/ /\ reply.fsm = 0
           /\ \E valid \in BOOLEAN : reply' = [now EXCEPT !.req = valid, !.fsm = IF valid THEN 1 ELSE 0]
        \/ /\ reply.fsm = 1
           /\ reply' = [now EXCEPT !.fsm = IF Rises(reply) THEN 2 ELSE 1]
        \/ /\ reply.fsm = 2
           /\ reply.cnt < ReplySize
           /\ reply' = [now EXCEPT !.cnt = @ + 1, !.out = Byte("reply", reply.cnt + 1, ReplySize)]
        \/ /\ reply.fsm = 2
           /\ reply.cnt = ReplySize
           /\ reply' = [now EXCEPT !.cnt = 0, !.out = None, !.fsm = 0, !.req = FALSE]

\* LAN_TX_FREAME, states 0 to 3; there may be no scan or not yet a packet's worth of samples.
Data ==
    LET now == Sampled(data, "data")
        more == Len(fifo) < ProgFull /\ data.cnt < data.size
    IN  \/ /\ data.fsm = 0
           /\ \/ data' = [now EXCEPT !.req = FALSE]
              \/ \E n \in DataSizes : data' = [now EXCEPT !.req = TRUE, !.size = n, !.fsm = 1]
        \/ /\ data.fsm = 1
           /\ data' = [now EXCEPT !.fsm = IF Rises(data) THEN 2 ELSE 1]
        \/ /\ data.fsm = 2
           /\ more
           /\ data' = [now EXCEPT !.cnt = @ + 1, !.out = Byte("data", data.cnt + 1, data.size)]
        \/ /\ data.fsm = 2
           /\ ~more
           /\ data' = [now EXCEPT !.cnt = 0, !.out = None, !.fsm = 3]
        \/ /\ data.fsm = 3
           /\ data' = [now EXCEPT !.req = FALSE, !.fsm = IF txDone THEN 0 ELSE 3]

\* The frames that ARP and ping bring along.
Brought(e, s, n) == [Sampled(e, s) EXCEPT !.cnt = @ + 1, !.out = [Byte(s, e.cnt, n) EXCEPT !.last = e.cnt = n]]

\* LAN_TX_ARP is idle with its last byte, and its request falls in the clock after it.
Arp ==
    LET now == Sampled(arp, "arp")
    IN  \/ /\ arp.fsm = "idle"
           /\ \E enable \in BOOLEAN :
                /\ arp' = [now EXCEPT !.cnt = 0, !.out = None, !.req = enable,
                                      !.fsm = IF enable THEN "wait" ELSE "idle"]
                /\ rushed' = (rushed \/ (enable /\ arp.req))
        \/ /\ arp.fsm = "wait"
           /\ arp' = [now EXCEPT !.fsm = IF Rises(arp) THEN "send" ELSE "wait"]
           /\ UNCHANGED rushed
        \/ /\ arp.fsm = "send"
           /\ arp' = [Brought(arp, "arp", ArpSize) EXCEPT !.fsm = IF arp.cnt = ArpSize THEN "idle" ELSE "send"]
           /\ UNCHANGED rushed

\* LAN_RX_TX_ICMP: one state machine receives a ping and answers it.
Icmp ==
    LET now == Sampled(icmp, "icmp")
    IN  \/ /\ icmp.fsm = "idle"
           /\ icmp' \in {now, [now EXCEPT !.req = TRUE, !.fsm = "wait"]}
        \/ /\ icmp.fsm = "wait"
           /\ icmp' = [now EXCEPT !.fsm = IF Rises(icmp) THEN "send" ELSE "wait"]
        \/ /\ icmp.fsm = "send"
           /\ icmp.cnt <= IcmpSize
           /\ icmp' = Brought(icmp, "icmp", IcmpSize)
        \/ /\ icmp.fsm = "send"
           /\ icmp.cnt > IcmpSize
           /\ icmp' = [now EXCEPT !.cnt = 0, !.out = None, !.req = FALSE, !.fsm = "idle"]
-----------------------------------------------------------------------------
(***************************************************************************)
(* The payload FIFO and lan_tx.                                            *)
(***************************************************************************)
\* An empty FIFO gives the byte it gave last, and lan_tx does not look.
FifoRead == IF fifo = <<>> THEN Byte("stale", 0, 0) ELSE Head(fifo)

Fifo ==
    LET rest == IF lan.sta = "packet" /\ fifo # <<>> THEN Tail(fifo) ELSE fifo
    IN  fifo' = IF din = None THEN rest ELSE Append(rest, din)

\* A reply starts when it is complete, an image packet with its first byte.
Starts ==
    \/ state = "reply" /\ Len(fifo) >= last /\ last # 0
    \/ state = "data" /\ Len(fifo) > 0

LanTx ==
    \/ lan.sta = "idle" /\ lan' = [lan EXCEPT !.sta = IF Starts THEN "start" ELSE "idle"]
    \/ lan.sta = "start" /\ lan' = [lan EXCEPT !.sta = "wait", !.words = last]
    \/ lan.sta = "wait" /\ lan' = IF lan.clk = 1 THEN [lan EXCEPT !.sta = "head", !.clk = 0]
                                  ELSE [lan EXCEPT !.clk = @ + 1]
    \/ lan.sta = "head" /\ lan' = [lan EXCEPT !.sta = "packet", !.out = Byte(port, 0, lan.words)]
    \/ /\ lan.sta = "packet"
       /\ lan' = [lan EXCEPT !.cnt = @ + 1,
                             !.out = [FifoRead EXCEPT !.last = lan.cnt + 1 = lan.words],
                             !.sta = IF lan.cnt < lan.words - 1 THEN "packet" ELSE "delay"]
    \/ lan.sta = "delay" /\ lan' = IF lan.clk = DelayClocks
                                   THEN [lan EXCEPT !.sta = "end", !.clk = 0, !.cnt = 0, !.out = None]
                                   ELSE [lan EXCEPT !.clk = @ + 1, !.cnt = 0, !.out = None]
    \/ lan.sta = "end" /\ lan' = [lan EXCEPT !.sta = "done", !.done = TRUE, !.words = 0]
    \/ lan.sta = "done" /\ lan' = IF lan.clk + 1 < DoneClocks THEN [lan EXCEPT !.clk = @ + 1]
                                  ELSE [lan EXCEPT !.sta = "idle", !.clk = 0, !.done = FALSE]
-----------------------------------------------------------------------------
Sent(s) == axis # None /\ axis.of = s /\ axis.last

History ==
    /\ prev' = IF axis = None THEN prev ELSE axis
    /\ unsent' = ((unsent /\ ~Sent("data")) \/ (data.fsm = 0 /\ data'.fsm = 1))

Init ==
    /\ state = "idle"
    /\ last = 0
    /\ port = None
    /\ din = None
    /\ axis = None
    /\ txDone = FALSE
    /\ reply = [fsm |-> 0, req |-> FALSE, cnt |-> 0, out |-> None, r0 |-> FALSE, r1 |-> FALSE]
    /\ data = [fsm |-> 0, req |-> FALSE, cnt |-> 0, out |-> None, size |-> 0, r0 |-> FALSE, r1 |-> FALSE]
    /\ arp = [fsm |-> "idle", req |-> FALSE, cnt |-> 0, out |-> None, r0 |-> TRUE, r1 |-> TRUE]
    /\ icmp = [fsm |-> "idle", req |-> FALSE, cnt |-> 0, out |-> None, r0 |-> FALSE, r1 |-> FALSE]
    /\ fifo = <<>>
    /\ lan = [sta |-> "idle", cnt |-> 0, words |-> 0, clk |-> 0, out |-> None, done |-> FALSE]
    /\ prev = None
    /\ unsent = FALSE
    /\ rushed = FALSE

\* One clock.
Next == Mux /\ Reply /\ Data /\ Arp /\ Icmp /\ Fifo /\ LanTx /\ History

Spec == Init /\ [][Next]_vars /\ WF_vars(Next)
-----------------------------------------------------------------------------
Out == Bytes \cup {None}

Asks(F) == [fsm : F, req : BOOLEAN, cnt : Nat, out : Out, r0 : BOOLEAN, r1 : BOOLEAN]

TypeOK ==
    /\ state \in Sender \cup {"idle"}
    /\ last \in Nat
    /\ port \in {None, "reply", "data"}
    /\ {din, axis, prev} \subseteq Out
    /\ {txDone, unsent, rushed} \subseteq BOOLEAN
    /\ reply \in Asks(0 .. 2)
    /\ data \in [fsm : 0 .. 3, req : BOOLEAN, cnt : Nat, out : Out, size : Nat,
                 r0 : BOOLEAN, r1 : BOOLEAN]
    /\ {arp, icmp} \subseteq Asks({"idle", "wait", "send"})
    /\ fifo \in Seq(Bytes)
    /\ lan \in [sta : {"idle", "start", "wait", "head", "packet", "delay", "end", "done"},
                cnt : Nat, words : Nat, clk : Nat, out : Out, done : BOOLEAN]

\* What goes out on the line is whole frames: each has the bytes of one source, all of
\* them, in order, under a header with the source's port and size.
PacketsAreWhole ==
    axis # None =>
        /\ axis.at = 0 => prev = None \/ prev.last
        /\ axis.at > 0 => prev = [axis EXCEPT !.at = @ - 1, !.last = FALSE]
        /\ axis.last <=> axis.at = axis.size

\* The packetizer goes on to its next packet only when the last one is on the line:
\* the tx_data_done it waits for is never that of an earlier packet.
DoneMeansSent == data.fsm = 0 => ~unsent

\* The mux is free and no reply is waiting.
DataTurn == state = "idle" /\ ~lan.done /\ ~reply.req

\* A reply that is asked for goes out, whatever else is asked for, and so does an image
\* packet unless replies take every turn; if no ARP request rushes in.
RequestsAreServed ==
    /\ reply.req ~> Sent("reply") \/ rushed
    /\ []<>DataTurn => (unsent ~> Sent("data") \/ rushed)

\* LAN_TX_MUX.v:93: image packets go on competing for the line: one that is asked for
\* finds the line free in the end.
DataCompetes == data.req ~> state = "idle"
=============================================================================
