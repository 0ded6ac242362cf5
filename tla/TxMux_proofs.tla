----------------------------- MODULE TxMux_proofs -----------------------------
(***************************************************************************)
(* The transmit path, for every size of a reply, of an image packet and of *)
(* the frames of ARP and ping, and for every length of the pauses: what is *)
(* on the line is whole frames, and the packetizer goes on when its packet *)
(* is on the line.                                                         *)
(***************************************************************************)
EXTENDS TxMux, SequenceTheorems, TLAPS

LastByte(s, n) == [Byte(s, n, n) EXCEPT !.last = TRUE]

\* The newest byte the line has seen, and that it is the last of its frame.
Newest == IF axis = None THEN prev ELSE axis

Rests == Newest = None \/ Newest.last

\* A source without the line is silent, and its ACK was not up for one clock only.
ReplyQuiet ==
    /\ reply.fsm # 2 /\ (reply.req <=> reply.fsm = 1)
    /\ reply.cnt = 0 /\ reply.out = None
    /\ reply.r0 => reply.r1

DataQuiet ==
    /\ data.fsm # 2 /\ (data.req <=> data.fsm = 1)
    /\ data.cnt = 0 /\ data.out = None
    /\ data.r0 => data.r1
    /\ data.fsm = 3 => txDone /\ ~unsent

ArpQuiet ==
    /\ arp.fsm # "send" /\ (arp.req <=> arp.fsm = "wait")
    /\ arp.fsm = "wait" => arp.cnt = 0
    /\ arp.out = None
    /\ arp.r0 => arp.r1

IcmpQuiet ==
    /\ icmp.fsm # "send" /\ (icmp.req <=> icmp.fsm = "wait")
    /\ icmp.cnt = 0 /\ icmp.out = None
    /\ icmp.r0 => icmp.r1

\* lan_tx has nothing to send, and nothing is on its way to it.
LanQuiet ==
    /\ lan.sta \in {"idle", "done"} /\ (lan.done <=> lan.sta = "done")
    /\ lan.sta = "idle" => lan.clk = 0
    /\ lan.cnt = 0 /\ lan.out = None
    /\ fifo = <<>> /\ din = None

\* ARP and ping put their bytes on the line themselves.
Puts(e, s, n) ==
    /\ e.cnt = 0 => e.out = None /\ Rests
    /\ e.cnt = 1 => Rests
    /\ e.cnt > 0 => e.out = [Byte(s, e.cnt - 1, n) EXCEPT !.last = e.cnt - 1 = n]
    /\ e.cnt > 1 => axis = Byte(s, e.cnt - 2, n)

ArpHasLine ==
    \/ /\ arp.fsm = "wait" /\ arp.req
       /\ arp.cnt = 0 /\ arp.out = None /\ Rests
       /\ ~(arp.r0 /\ arp.r1)
    \/ /\ arp.r0 /\ arp.r1
       /\ \/ arp.fsm = "send" /\ arp.req /\ arp.cnt <= ArpSize /\ Puts(arp, "arp", ArpSize)
          \/ arp.fsm = "idle" /\ arp.req /\ arp.cnt = ArpSize + 1 /\ Puts(arp, "arp", ArpSize)
          \/ /\ arp.fsm # "send" /\ (arp.req <=> arp.fsm = "wait")
             /\ arp.cnt = 0 /\ arp.out = None /\ Rests

IcmpHasLine ==
    \/ /\ icmp.fsm = "wait" /\ icmp.req
       /\ icmp.cnt = 0 /\ icmp.out = None /\ Rests
       /\ ~(icmp.r0 /\ icmp.r1)
    \/ /\ icmp.r0 /\ icmp.r1
       /\ \/ icmp.fsm = "send" /\ icmp.req /\ icmp.cnt <= IcmpSize + 1 /\ Puts(icmp, "icmp", IcmpSize)
          \/ icmp.fsm = "idle" /\ ~icmp.req /\ icmp.cnt = 0 /\ icmp.out = None /\ Rests

\* A UDP source b has the line and has not seen its ACK rise yet.
Waits(b) ==
    /\ b.fsm = 1 /\ b.req /\ b.cnt = 0 /\ b.out = None
    /\ ~(b.r0 /\ b.r1)
    /\ LanQuiet /\ lan.sta = "idle" /\ Rests

\* Where lan_tx is in a frame of s with n bytes, and what it has put on the line.
LanCarries(s, n) ==
    /\ (lan.done <=> lan.sta = "done")
    /\ lan.sta \in {"wait", "head", "packet", "delay"} => lan.words = n
    /\ lan.sta \notin {"wait", "delay"} => lan.clk = 0
    /\ lan.sta = "wait" => lan.clk \in 0 .. 1
    /\ lan.sta = "delay" => lan.clk \in 0 .. DelayClocks
    /\ lan.sta # "packet" /\ ~(lan.sta = "delay" /\ lan.clk = 0) =>
            lan.cnt = 0 /\ lan.out = None /\ Rests
    /\ lan.sta = "packet" =>
            /\ lan.cnt < n
            /\ lan.out = Byte(s, lan.cnt, n)
            /\ IF lan.cnt = 0 THEN Rests ELSE axis = Byte(s, lan.cnt - 1, n)
    /\ lan.sta = "delay" /\ lan.clk = 0 => lan.out = LastByte(s, n) /\ axis = Byte(s, n - 1, n)
    /\ lan.sta = "delay" /\ lan.clk = 1 => axis = LastByte(s, n)

Held(x) == IF x = None THEN 0 ELSE 1

\* Of the n bytes of b, p went into the payload FIFO, one more may be in din and
\* one in the source: they leave the source one per clock, without a gap.
Fills(b, s, n) ==
    LET p == lan.cnt + Len(fifo)
        q == p + Held(din)
    IN  /\ \A i \in 1 .. Len(fifo) : fifo[i] = Byte(s, lan.cnt + i, n)
        /\ p <= n
        /\ din # None => p < n /\ din = Byte(s, p + 1, n)
        /\ p > 0 /\ p < n => din # None
        /\ b.out # None => q < n /\ b.out = Byte(s, q + 1, n)
        /\ q > 0 /\ q < n => b.out # None
        /\ b.fsm = 2 => b.cnt = q + Held(b.out) /\ (b.cnt > 0 => b.out # None)
        /\ b.fsm # 2 => b.cnt = 0 /\ q = n
        /\ lan.sta # "idle" => Len(fifo) > 0

\* Everything was read from the FIFO.
Drained(b) == fifo = <<>> /\ din = None /\ b.out = None /\ b.fsm # 2 /\ b.cnt = 0

Sends(b, s, n) ==
    /\ b.r0 /\ b.r1
    /\ last = n /\ port = s
    /\ LanCarries(s, n)
    /\ IF lan.sta \in {"delay", "end", "done"} THEN Drained(b) ELSE Fills(b, s, n)

ReplyHasLine ==
    \/ Waits(reply)
    \/ Sends(reply, "reply", ReplySize) /\ (reply.req <=> reply.fsm # 0)

DataHasLine ==
    /\ ~txDone /\ data.fsm # 0 /\ data.size \in DataSizes
    /\ \/ Waits(data)
       \/ /\ Sends(data, "data", data.size)
          /\ data.fsm # 1
          /\ lan.sta \in {"end", "done"} \/ (lan.sta = "delay" /\ lan.clk > 1) => ~unsent

HasLine ==
    /\ state = "reply" => ReplyHasLine
    /\ state = "data" => DataHasLine
    /\ state = "arp" => ArpHasLine
    /\ state = "icmp" => IcmpHasLine
    /\ state = "idle" => axis = None /\ Rests

OthersQuiet ==
    /\ state # "reply" => ReplyQuiet
    /\ state # "data" => DataQuiet
    /\ state # "arp" => ArpQuiet
    /\ state # "icmp" => IcmpQuiet
    /\ state \notin {"reply", "data"} => LanQuiet

Inv ==
    /\ TypeOK
    /\ HasLine
    /\ OthersQuiet
    /\ data.fsm = 1 => data.size \in DataSizes
    /\ DoneMeansSent
    /\ PacketsAreWhole
-----------------------------------------------------------------------------
(***************************************************************************)
(* Bytes, and the steps of the blocks one by one.                          *)
(***************************************************************************)
\* The constants are numbers.
LEMMA Constants ==
    /\ ReplySize \in Nat /\ ReplySize > 0 /\ ArpSize \in Nat /\ ArpSize > 0
    /\ IcmpSize \in Nat /\ IcmpSize > 0 /\ DelayClocks \in Nat /\ DelayClocks > 0
    /\ DoneClocks \in Nat /\ DoneClocks > 0 /\ ProgFull \in Nat
    /\ \A n \in DataSizes : n \in Nat /\ n > 0 /\ n < ProgFull
BY TxAssumption

\* What a byte is made of.
LEMMA ByteFields ==
    ASSUME NEW s \in Sender \cup {"stale"}, NEW i \in Nat, NEW n \in Nat
    PROVE  /\ Byte(s, i, n) \in Bytes /\ Byte(s, i, n) # None
           /\ Byte(s, i, n).of = s /\ Byte(s, i, n).at = i /\ Byte(s, i, n).size = n
           /\ Byte(s, i, n).last = FALSE
<1>1. Byte(s, i, n) \in Bytes
  BY DEF Byte, Bytes
<1>2. QED
  BY <1>1, TxAssumption DEF Byte

\* A byte with its flag set is a byte of the same place.
LEMMA FlagFields ==
    ASSUME NEW s \in Sender \cup {"stale"}, NEW i \in Nat, NEW n \in Nat, NEW f \in BOOLEAN
    PROVE  /\ [Byte(s, i, n) EXCEPT !.last = f] \in Bytes
           /\ [Byte(s, i, n) EXCEPT !.last = f] # None
           /\ [Byte(s, i, n) EXCEPT !.last = f].of = s
           /\ [Byte(s, i, n) EXCEPT !.last = f].at = i
           /\ [Byte(s, i, n) EXCEPT !.last = f].size = n
           /\ [Byte(s, i, n) EXCEPT !.last = f].last = f
           /\ ~f => [Byte(s, i, n) EXCEPT !.last = f] = Byte(s, i, n)
<1> DEFINE b == [of |-> s, at |-> i, size |-> n, last |-> f]
<1>1. [Byte(s, i, n) EXCEPT !.last = f] = b
  BY DEF Byte
<1>2. b \in Bytes /\ b # None
  <2>1. b \in Bytes
    BY DEF Bytes
  <2>2. QED
    BY <2>1, TxAssumption
<1>3. b.of = s /\ b.at = i /\ b.size = n /\ b.last = f
  OBVIOUS
<1>4. ASSUME ~f PROVE b = Byte(s, i, n)
  <2>1. f = FALSE
    BY <1>4
  <2>2. QED
    BY <2>1 DEF Byte
<1>5. QED
  BY <1>1, <1>2, <1>3, <1>4

\* The byte before another one of the same frame.
Before(b) == [b EXCEPT !.at = @ - 1, !.last = FALSE]

LEMMA ByteBefore ==
    ASSUME NEW s \in Sender, NEW i \in Nat, NEW k \in Nat, k = i - 1, NEW n \in Nat,
           NEW f \in BOOLEAN, NEW b, b = [Byte(s, i, n) EXCEPT !.last = f]
    PROVE  Before(b) = Byte(s, k, n)
<1>1. b = [of |-> s, at |-> i, size |-> n, last |-> f]
  <2>1. [Byte(s, i, n) EXCEPT !.last = f] = [of |-> s, at |-> i, size |-> n, last |-> f]
    BY DEF Byte
  <2>2. QED
    BY <2>1
<1>2. PICK c : c = [b EXCEPT !.at = k]
  OBVIOUS
<1>3. c = [of |-> s, at |-> k, size |-> n, last |-> f]
  <2>1. [b EXCEPT !.at = k] = [of |-> s, at |-> k, size |-> n, last |-> f]
    BY ONLY <1>1
  <2>2. QED
    BY <1>2, <2>1
<1>4. [c EXCEPT !.last = FALSE] = Byte(s, k, n)
  <2>1. PICK z : z = FALSE
    OBVIOUS
  <2>2. [c EXCEPT !.last = z] = [of |-> s, at |-> k, size |-> n, last |-> z]
    BY ONLY <1>3
  <2>3. QED
    BY <2>1, <2>2 DEF Byte
<1>5. b.at - 1 = k
  BY <1>1
<1>6. [b EXCEPT !.at = k, !.last = FALSE] = [c EXCEPT !.last = FALSE]
  BY ONLY <1>2
<1>7. QED
  BY ONLY <1>4, <1>5, <1>6 DEF Before

\* What the history remembers.
LEMMA HistoryStep ==
    ASSUME History
    PROVE  /\ prev' = Newest
           /\ axis' = None => Newest' = Newest
           /\ axis' # None => Newest' = axis'
BY DEF History, Newest

\* LAN_TX_MUX, by who has the line.
LEMMA MuxStep ==
    ASSUME TypeOK, Mux
    PROVE  /\ state = "idle" =>
                /\ state' = Grant
                /\ txDone' = (txDone /\ state' # "data")
                /\ UNCHANGED <<last, port, din, axis>>
           /\ state = "reply" =>
                /\ last' = ReplySize /\ port' = "reply" /\ din' = reply.out /\ axis' = lan.out
                /\ state' = IF lan.done THEN "idle" ELSE "reply"
                /\ txDone' = txDone
           /\ state = "data" =>
                /\ last' = data.size /\ port' = "data" /\ din' = data.out /\ axis' = lan.out
                /\ state' = IF lan.done THEN "idle" ELSE "data"
                /\ txDone' = (txDone \/ lan.done)
           /\ state = "arp" =>
                /\ axis' = arp.out
                /\ state' = IF arp.req THEN "arp" ELSE "idle"
                /\ UNCHANGED <<last, port, din, txDone>>
           /\ state = "icmp" =>
                /\ axis' = icmp.out
                /\ state' = IF icmp.req THEN "icmp" ELSE "idle"
                /\ UNCHANGED <<last, port, din, txDone>>
BY DEF Mux, Idle, Carry, Pass

\* To whom the line is given.
LEMMA GrantIs ==
    ASSUME TypeOK
    PROVE  /\ Grant \in Sender \cup {"idle"}
           /\ Grant = "reply" => reply.req /\ ~lan.done
           /\ Grant = "data" => data.req /\ ~lan.done
           /\ Grant = "arp" => arp.req
           /\ Grant = "icmp" => icmp.req
<1>1. reply.req \in BOOLEAN /\ data.req \in BOOLEAN /\ arp.req \in BOOLEAN /\ icmp.req \in BOOLEAN
      /\ lan.done \in BOOLEAN
  BY DEF TypeOK, Asks
<1>2. QED
  BY <1>1 DEF Grant, Sender

\* What a source is made of after an assignment to some of its registers.
Is(x, F, b, f, q, c, o) ==
    /\ x \in Asks(F)
    /\ x.fsm = f /\ x.req = q /\ x.cnt = c /\ x.out = o /\ x.r0 = b.r0 /\ x.r1 = b.r1

LEMMA Updates ==
    ASSUME NEW F, NEW b \in Asks(F), NEW f \in F, NEW q \in BOOLEAN, NEW c \in Nat, NEW o \in Out
    PROVE  /\ Is([b EXCEPT !.fsm = f], F, b, f, b.req, b.cnt, b.out)
           /\ Is([b EXCEPT !.req = q, !.fsm = f], F, b, f, q, b.cnt, b.out)
           /\ Is([b EXCEPT !.cnt = c, !.out = o], F, b, b.fsm, b.req, c, o)
           /\ Is([b EXCEPT !.cnt = c, !.out = o, !.fsm = f, !.req = q], F, b, f, q, c, o)
           /\ Is([b EXCEPT !.cnt = c, !.out = o, !.req = q, !.fsm = f], F, b, f, q, c, o)
<1>1. Is([b EXCEPT !.fsm = f], F, b, f, b.req, b.cnt, b.out)
  BY DEF Is, Asks
<1>2. Is([b EXCEPT !.req = q, !.fsm = f], F, b, f, q, b.cnt, b.out)
  BY DEF Is, Asks
<1>3. Is([b EXCEPT !.cnt = c, !.out = o], F, b, b.fsm, b.req, c, o)
  BY DEF Is, Asks
<1>4. Is([b EXCEPT !.cnt = c, !.out = o, !.fsm = f, !.req = q], F, b, f, q, c, o)
  BY DEF Is, Asks
<1>5. Is([b EXCEPT !.cnt = c, !.out = o, !.req = q, !.fsm = f], F, b, f, q, c, o)
  BY DEF Is, Asks
<1>6. QED
  BY <1>1, <1>2, <1>3, <1>4, <1>5

\* The two flip-flops of an ACK.
LEMMA SampledIs ==
    ASSUME NEW F, NEW b \in Asks(F), NEW s
    PROVE  /\ Sampled(b, s) \in Asks(F)
           /\ Sampled(b, s).r0 <=> state = s
           /\ Sampled(b, s).r1 = b.r0
           /\ Sampled(b, s).fsm = b.fsm /\ Sampled(b, s).req = b.req
           /\ Sampled(b, s).cnt = b.cnt /\ Sampled(b, s).out = b.out
<1>1. (state = s) \in BOOLEAN
  OBVIOUS
<1>2. PICK x \in BOOLEAN : x = (state = s)
  BY <1>1
<1>3. Sampled(b, s) = [b EXCEPT !.r0 = x, !.r1 = b.r0]
  BY <1>2 DEF Sampled
<1>4. QED
  BY <1>2, <1>3 DEF Asks

\* LAN_RD_REG.
LEMMA ReplyStep ==
    ASSUME TypeOK, Reply
    PROVE  /\ reply' \in Asks(0 .. 2)
           /\ reply'.r0 <=> state = "reply"
           /\ reply'.r1 = reply.r0
           /\ reply.fsm = 0 =>
                /\ reply'.fsm \in 0 .. 1 /\ (reply'.req <=> reply'.fsm = 1)
                /\ reply'.cnt = reply.cnt /\ reply'.out = reply.out
           /\ reply.fsm = 1 =>
                /\ reply'.fsm = (IF Rises(reply) THEN 2 ELSE 1)
                /\ reply'.req = reply.req /\ reply'.cnt = reply.cnt /\ reply'.out = reply.out
           /\ reply.fsm = 2 => reply.cnt <= ReplySize
           /\ reply.fsm = 2 /\ reply.cnt < ReplySize =>
                /\ reply'.fsm = 2 /\ reply'.req = reply.req /\ reply'.cnt = reply.cnt + 1
                /\ reply'.out = Byte("reply", reply.cnt + 1, ReplySize)
           /\ reply.fsm = 2 /\ reply.cnt = ReplySize =>
                /\ reply'.fsm = 0 /\ ~reply'.req /\ reply'.cnt = 0 /\ reply'.out = None
<1> DEFINE now == Sampled(reply, "reply")
           next == Byte("reply", reply.cnt + 1, ReplySize)
<1>1. /\ reply \in Asks(0 .. 2) /\ ReplySize \in Nat
      /\ reply.fsm \in 0 .. 2 /\ reply.cnt \in Nat
  BY Constants DEF TypeOK, Asks
<1>2. /\ now \in Asks(0 .. 2) /\ (now.r0 <=> state = "reply") /\ now.r1 = reply.r0
      /\ now.fsm = reply.fsm /\ now.req = reply.req /\ now.cnt = reply.cnt /\ now.out = reply.out
  BY <1>1, SampledIs
<1>3. next \in Out /\ None \in Out /\ reply.cnt + 1 \in Nat
  <2>1. reply.cnt + 1 \in Nat /\ "reply" \in Sender \cup {"stale"}
    BY <1>1 DEF Sender
  <2>2. QED
    BY <1>1, <2>1, ByteFields DEF Out
<1>4. 0 \in 0 .. 2 /\ 1 \in 0 .. 2 /\ 2 \in 0 .. 2 /\ FALSE \in BOOLEAN /\ 0 \in Nat
  OBVIOUS
<1>5. CASE reply.fsm = 0
  <2>1. reply.fsm # 1 /\ reply.fsm # 2
    BY <1>5
  <2>2. PICK v \in BOOLEAN : reply' = [now EXCEPT !.req = v, !.fsm = IF v THEN 1 ELSE 0]
    BY <1>5, <2>1, Zenon DEF Reply
  <2> HIDE DEF now, next
  <2>3. PICK f \in 0 .. 2 : f = IF v THEN 1 ELSE 0
    BY <1>4
  <2>4. reply' = [now EXCEPT !.req = v, !.fsm = f]
    BY <2>2, <2>3
  <2>5. Is(reply', 0 .. 2, now, f, v, now.cnt, now.out)
    BY <1>2, <1>3, <1>4, <2>4, Updates
  <2>6. QED
    BY <1>2, <1>5, <2>3, <2>5 DEF Is
<1>6. CASE reply.fsm = 1
  <2>1. reply' = [now EXCEPT !.fsm = IF Rises(reply) THEN 2 ELSE 1]
    BY <1>6 DEF Reply
  <2> HIDE DEF now, next
  <2>2. PICK f \in 0 .. 2 : f = IF Rises(reply) THEN 2 ELSE 1
    BY <1>4
  <2>3. reply' = [now EXCEPT !.fsm = f]
    BY <2>1, <2>2
  <2>4. Is(reply', 0 .. 2, now, f, now.req, now.cnt, now.out)
    BY <1>2, <1>3, <1>4, <2>3, Updates
  <2>5. QED
    BY <1>2, <1>6, <2>2, <2>4 DEF Is
<1>7. CASE reply.fsm = 2 /\ reply.cnt < ReplySize
  <2>1. reply' = [now EXCEPT !.cnt = now.cnt + 1, !.out = next]
    BY <1>1, <1>7 DEF Reply
  <2> HIDE DEF now, next
  <2>2. Is(reply', 0 .. 2, now, now.fsm, now.req, now.cnt + 1, next)
    BY <1>2, <1>3, <2>1, Updates DEF Asks
  <2>3. QED
    BY <1>1, <1>2, <1>7, <2>2 DEF Is, next
<1>8. CASE reply.fsm = 2 /\ reply.cnt = ReplySize
  <2>1. reply' = [now EXCEPT !.cnt = 0, !.out = None, !.fsm = 0, !.req = FALSE]
    BY <1>1, <1>8 DEF Reply
  <2> HIDE DEF now, next
  <2>2. Is(reply', 0 .. 2, now, 0, FALSE, 0, None)
    BY <1>2, <1>3, <1>4, <2>1, Updates
  <2>3. QED
    BY <1>1, <1>2, <1>8, <2>2 DEF Is
<1>9. reply.fsm = 2 => reply.cnt < ReplySize \/ reply.cnt = ReplySize
  BY <1>1 DEF Reply
<1>10. QED
  BY <1>1, <1>5, <1>6, <1>7, <1>8, <1>9

\* LAN_TX_FREAME has one register more, the size of its packet.
LEMMA DataStep ==
    ASSUME TypeOK, Data
    PROVE  /\ data' \in [fsm : 0 .. 3, req : BOOLEAN, cnt : Nat, out : Out, size : Nat,
                         r0 : BOOLEAN, r1 : BOOLEAN]
           /\ data'.r0 <=> state = "data"
           /\ data'.r1 = data.r0
           /\ data.fsm = 0 =>
                /\ \/ data'.fsm = 0 /\ ~data'.req
                   \/ data'.fsm = 1 /\ data'.req /\ data'.size \in DataSizes
                /\ data'.cnt = data.cnt /\ data'.out = data.out
           /\ data.fsm # 0 => data'.size = data.size
           /\ data.fsm = 1 =>
                /\ data'.fsm = (IF Rises(data) THEN 2 ELSE 1)
                /\ data'.req = data.req /\ data'.cnt = data.cnt /\ data'.out = data.out
           /\ data.fsm = 2 /\ Len(fifo) < ProgFull /\ data.cnt < data.size =>
                /\ data'.fsm = 2 /\ data'.cnt = data.cnt + 1
                /\ data'.out = Byte("data", data.cnt + 1, data.size)
           /\ data.fsm = 2 /\ ~(Len(fifo) < ProgFull /\ data.cnt < data.size) =>
                /\ data'.fsm = 3 /\ data'.cnt = 0 /\ data'.out = None
           /\ data.fsm = 3 =>
                /\ data'.fsm = (IF txDone THEN 0 ELSE 3) /\ ~data'.req
                /\ data'.cnt = data.cnt /\ data'.out = data.out
<1> DEFINE R == [fsm : 0 .. 3, req : BOOLEAN, cnt : Nat, out : Out, size : Nat,
                 r0 : BOOLEAN, r1 : BOOLEAN]
           now == Sampled(data, "data")
           next == Byte("data", data.cnt + 1, data.size)
           more == Len(fifo) < ProgFull /\ data.cnt < data.size
<1>1. /\ data \in R /\ data.fsm \in 0 .. 3 /\ data.cnt \in Nat /\ data.size \in Nat
      /\ txDone \in BOOLEAN
  BY DEF TypeOK
<1>2. /\ now \in R /\ (now.r0 <=> state = "data") /\ now.r1 = data.r0
      /\ now.fsm = data.fsm /\ now.req = data.req /\ now.cnt = data.cnt /\ now.out = data.out
      /\ now.size = data.size
  <2>1. (state = "data") \in BOOLEAN
    OBVIOUS
  <2>2. PICK x \in BOOLEAN : x = (state = "data")
    BY <2>1
  <2>3. now = [data EXCEPT !.r0 = x, !.r1 = data.r0]
    BY <2>2 DEF Sampled
  <2> HIDE DEF now
  <2>4. QED
    BY <1>1, <2>2, <2>3
<1>3. next \in Out /\ None \in Out /\ data.cnt + 1 \in Nat
  <2>1. data.cnt + 1 \in Nat /\ "data" \in Sender \cup {"stale"}
    BY <1>1 DEF Sender
  <2>2. QED
    BY <1>1, <2>1, ByteFields DEF Out
<1>4. ASSUME NEW b \in R, NEW f \in 0 .. 3, NEW q \in BOOLEAN, NEW c \in Nat, NEW o \in Out
      PROVE  /\ [b EXCEPT !.req = q] \in R
             /\ [b EXCEPT !.fsm = f] \in R
             /\ [b EXCEPT !.cnt = c, !.out = o] \in R
             /\ [b EXCEPT !.cnt = c, !.out = o, !.fsm = f] \in R
             /\ [b EXCEPT !.req = q, !.fsm = f] \in R
  OBVIOUS
<1>5. /\ 0 \in 0 .. 3 /\ 1 \in 0 .. 3 /\ 2 \in 0 .. 3 /\ 3 \in 0 .. 3
      /\ TRUE \in BOOLEAN /\ FALSE \in BOOLEAN /\ 0 \in Nat
      /\ \A n \in DataSizes : n \in Nat
  BY Constants
<1>6. CASE data.fsm = 0
  <2>1. data.fsm # 1 /\ data.fsm # 2 /\ data.fsm # 3
    BY <1>6
  <2>2. \/ data' = [now EXCEPT !.req = FALSE]
        \/ \E n \in DataSizes : data' = [now EXCEPT !.req = TRUE, !.size = n, !.fsm = 1]
    BY <1>6, <2>1, Zenon DEF Data
  <2>3. CASE data' = [now EXCEPT !.req = FALSE]
    <3> HIDE DEF now, next
    <3>1. data' \in R
      <4>1. PICK q \in BOOLEAN : q = FALSE
        BY <1>5
      <4>2. data' = [now EXCEPT !.req = q]
        BY <2>3, <4>1
      <4>3. QED
        BY <1>2, <1>3, <1>4, <1>5, <4>2
    <3>2. QED
      BY <1>2, <1>6, <2>3, <3>1
  <2>4. CASE \E n \in DataSizes : data' = [now EXCEPT !.req = TRUE, !.size = n, !.fsm = 1]
    <3>1. PICK n \in DataSizes : data' = [now EXCEPT !.req = TRUE, !.size = n, !.fsm = 1]
      BY <2>4
    <3> HIDE DEF now, next
    <3>2. data' \in R
      <4>1. PICK q \in BOOLEAN, f \in 0 .. 3 : q = TRUE /\ f = 1
        BY <1>5
      <4>2. data' = [now EXCEPT !.req = q, !.size = n, !.fsm = f] /\ n \in Nat
        BY <1>5, <3>1, <4>1
      <4>3. PICK b \in R : b = now
        BY <1>2
      <4>4. [b EXCEPT !.req = q, !.size = n, !.fsm = f] \in R
        BY <4>2
      <4>5. QED
        BY <4>2, <4>3, <4>4
    <3>3. QED
      BY <1>2, <1>6, <3>1, <3>2
  <2>5. QED
    BY <2>2, <2>3, <2>4
<1>7. CASE data.fsm = 1
  <2>1. data' = [now EXCEPT !.fsm = IF Rises(data) THEN 2 ELSE 1]
    BY <1>7 DEF Data
  <2> HIDE DEF now, next
  <2>2. PICK f \in 0 .. 3 : f = IF Rises(data) THEN 2 ELSE 1
    BY <1>5
  <2>3. data' = [now EXCEPT !.fsm = f]
    BY <2>1, <2>2
  <2>4. data' \in R
    BY <1>2, <1>3, <1>4, <1>5, <2>3
  <2>5. QED
    BY <1>2, <1>7, <2>2, <2>3, <2>4
<1>8. CASE data.fsm = 2 /\ more
  <2>1. data' = [now EXCEPT !.cnt = now.cnt + 1, !.out = next]
    BY <1>8 DEF Data
  <2> HIDE DEF now, next
  <2>2. data' \in R
    BY <1>2, <1>3, <1>4, <1>5, <2>1
  <2>3. QED
    BY <1>1, <1>2, <1>8, <2>1, <2>2 DEF next
<1>9. CASE data.fsm = 2 /\ ~more
  <2>1. data' = [now EXCEPT !.cnt = 0, !.out = None, !.fsm = 3]
    BY <1>9 DEF Data
  <2> HIDE DEF now, next
  <2>2. data' \in R
    BY <1>2, <1>3, <1>4, <1>5, <2>1
  <2>3. QED
    BY <1>1, <1>2, <1>9, <2>1, <2>2
<1>10. CASE data.fsm = 3
  <2>1. data' = [now EXCEPT !.req = FALSE, !.fsm = IF txDone THEN 0 ELSE 3]
    BY <1>10 DEF Data
  <2> HIDE DEF now, next
  <2>2. PICK f \in 0 .. 3 : f = IF txDone THEN 0 ELSE 3
    BY <1>5
  <2>3. data' = [now EXCEPT !.req = FALSE, !.fsm = f]
    BY <2>1, <2>2
  <2>4. data' \in R
    <3>1. PICK q \in BOOLEAN : q = FALSE
      BY <1>5
    <3>2. data' = [now EXCEPT !.req = q, !.fsm = f]
      BY <2>3, <3>1
    <3>3. QED
      BY <1>2, <1>3, <1>4, <1>5, <3>2
  <2>5. QED
    BY <1>2, <1>10, <2>2, <2>3, <2>4
<1>11. QED
  BY <1>1, <1>6, <1>7, <1>8, <1>9, <1>10

\* A frame that is brought along goes on by a byte.
LEMMA BroughtIs ==
    ASSUME NEW F, NEW e \in Asks(F), NEW s \in Sender, NEW n \in Nat
    PROVE  /\ Brought(e, s, n) \in Asks(F)
           /\ Brought(e, s, n).r0 <=> state = s
           /\ Brought(e, s, n).r1 = e.r0
           /\ Brought(e, s, n).fsm = e.fsm /\ Brought(e, s, n).req = e.req
           /\ Brought(e, s, n).cnt = e.cnt + 1
           /\ Brought(e, s, n).out = [Byte(s, e.cnt, n) EXCEPT !.last = e.cnt = n]
<1> DEFINE now == Sampled(e, s)
<1>1. e.fsm \in F /\ e.cnt \in Nat /\ e.req \in BOOLEAN /\ e.cnt + 1 \in Nat
  BY DEF Asks
<1>2. /\ now \in Asks(F) /\ (now.r0 <=> state = s) /\ now.r1 = e.r0
      /\ now.fsm = e.fsm /\ now.req = e.req /\ now.cnt = e.cnt /\ now.out = e.out
  BY SampledIs
<1>3. PICK o : o = [Byte(s, e.cnt, n) EXCEPT !.last = e.cnt = n]
  OBVIOUS
<1>4. o \in Out
  <2>1. PICK f \in BOOLEAN : f = (e.cnt = n)
    OBVIOUS
  <2>2. [Byte(s, e.cnt, n) EXCEPT !.last = f] \in Bytes
    BY <1>1, FlagFields
  <2>3. QED
    BY <1>3, <2>1, <2>2 DEF Out
<1>5. Brought(e, s, n) = [now EXCEPT !.cnt = now.cnt + 1, !.out = o]
  BY <1>3 DEF Brought
<1> HIDE DEF now
<1>6. PICK c \in Nat : c = now.cnt + 1
  BY <1>1, <1>2
<1>7. Brought(e, s, n) = [now EXCEPT !.cnt = c, !.out = o]
  BY <1>5, <1>6
<1>8. Is(Brought(e, s, n), F, now, now.fsm, now.req, c, o)
  <2>1. now.fsm \in F /\ now.req \in BOOLEAN
    BY <1>1, <1>2
  <2>2. Is([now EXCEPT !.cnt = c, !.out = o], F, now, now.fsm, now.req, c, o)
    BY <1>2, <1>4, <2>1, Updates
  <2>3. QED
    BY <1>7, <2>2
<1>9. QED
  BY <1>1, <1>2, <1>3, <1>6, <1>8 DEF Is

\* LAN_TX_ARP.
LEMMA ArpStep ==
    ASSUME TypeOK, Arp
    PROVE  /\ arp' \in Asks({"idle", "wait", "send"}) /\ rushed' \in BOOLEAN
           /\ arp'.r0 <=> state = "arp"
           /\ arp'.r1 = arp.r0
           /\ arp.fsm = "idle" =>
                /\ arp'.fsm \in {"idle", "wait"} /\ (arp'.req <=> arp'.fsm = "wait")
                /\ arp'.cnt = 0 /\ arp'.out = None
           /\ arp.fsm = "wait" =>
                /\ arp'.fsm = (IF Rises(arp) THEN "send" ELSE "wait")
                /\ arp'.req = arp.req /\ arp'.cnt = arp.cnt /\ arp'.out = arp.out
           /\ arp.fsm = "send" =>
                /\ arp'.fsm = (IF arp.cnt = ArpSize THEN "idle" ELSE "send")
                /\ arp'.req = arp.req /\ arp'.cnt = arp.cnt + 1
                /\ arp'.out = [Byte("arp", arp.cnt, ArpSize) EXCEPT !.last = arp.cnt = ArpSize]
<1> DEFINE F == {"idle", "wait", "send"}
           now == Sampled(arp, "arp")
           next == Brought(arp, "arp", ArpSize)
<1>1. /\ arp \in Asks(F) /\ ArpSize \in Nat /\ rushed \in BOOLEAN /\ "arp" \in Sender
      /\ arp.fsm \in F /\ arp.cnt \in Nat /\ arp.req \in BOOLEAN
  BY Constants DEF TypeOK, Asks, Sender
<1>2. /\ now \in Asks(F) /\ (now.r0 <=> state = "arp") /\ now.r1 = arp.r0
      /\ now.fsm = arp.fsm /\ now.req = arp.req /\ now.cnt = arp.cnt /\ now.out = arp.out
  BY <1>1, SampledIs
<1>3. /\ next \in Asks(F) /\ (next.r0 <=> state = "arp") /\ next.r1 = arp.r0
      /\ next.fsm = arp.fsm /\ next.req = arp.req /\ next.cnt = arp.cnt + 1
      /\ next.out = [Byte("arp", arp.cnt, ArpSize) EXCEPT !.last = arp.cnt = ArpSize]
  BY <1>1, BroughtIs
<1>4. PICK z \in Nat, o \in Out, t \in BOOLEAN : z = 0 /\ o = None
  BY DEF Out
<1>5. CASE arp.fsm = "idle"
  <2>1. arp.fsm # "wait" /\ arp.fsm # "send"
    BY <1>5
  <2>2. PICK v \in BOOLEAN :
          /\ arp' = [now EXCEPT !.cnt = 0, !.out = None, !.req = v,
                                !.fsm = IF v THEN "wait" ELSE "idle"]
          /\ rushed' = (rushed \/ (v /\ arp.req))
    BY <1>5, <2>1, Zenon DEF Arp
  <2> HIDE DEF now, next
  <2>3. PICK f \in F : f = IF v THEN "wait" ELSE "idle"
    OBVIOUS
  <2>4. arp' = [now EXCEPT !.cnt = z, !.out = o, !.req = v, !.fsm = f]
    BY <1>4, <2>2, <2>3
  <2>5. Is(arp', F, now, f, v, z, o)
    <3>1. Is([now EXCEPT !.cnt = z, !.out = o, !.req = v, !.fsm = f], F, now, f, v, z, o)
      <4>1. /\ now \in Asks(F) /\ f \in F /\ v \in BOOLEAN /\ z \in Nat /\ o \in Out
        BY <1>2, <1>4, <2>2, <2>3
      <4> HIDE DEF F
      <4>2. QED
        BY ONLY <4>1, Updates
    <3>2. QED
      BY <2>4, <3>1
  <2>6. QED
    BY <1>1, <1>2, <1>4, <1>5, <2>2, <2>3, <2>5 DEF Is
<1>6. CASE arp.fsm = "wait"
  <2>1. arp' = [now EXCEPT !.fsm = IF Rises(arp) THEN "send" ELSE "wait"] /\ rushed' = rushed
    BY <1>6 DEF Arp
  <2> HIDE DEF now, next
  <2>2. PICK f \in F : f = IF Rises(arp) THEN "send" ELSE "wait"
    OBVIOUS
  <2>3. arp' = [now EXCEPT !.fsm = f]
    BY <2>1, <2>2
  <2>4. Is(arp', F, now, f, now.req, now.cnt, now.out)
    BY <1>2, <1>4, <2>3, Updates
  <2>5. QED
    BY <1>1, <1>2, <1>6, <2>1, <2>2, <2>4 DEF Is
<1>7. CASE arp.fsm = "send"
  <2>1. /\ arp' = [next EXCEPT !.fsm = IF arp.cnt = ArpSize THEN "idle" ELSE "send"]
        /\ rushed' = rushed
    BY <1>7 DEF Arp
  <2> HIDE DEF now, next
  <2>2. PICK f \in F : f = IF arp.cnt = ArpSize THEN "idle" ELSE "send"
    OBVIOUS
  <2>3. arp' = [next EXCEPT !.fsm = f]
    BY <2>1, <2>2
  <2>4. Is(arp', F, next, f, next.req, next.cnt, next.out)
    BY <1>3, <1>4, <2>3, Updates
  <2>5. QED
    BY <1>1, <1>3, <1>7, <2>1, <2>2, <2>4 DEF Is
<1>8. QED
  BY <1>1, <1>5, <1>6, <1>7

\* LAN_RX_TX_ICMP.
LEMMA IcmpStep ==
    ASSUME TypeOK, Icmp
    PROVE  /\ icmp' \in Asks({"idle", "wait", "send"})
           /\ icmp'.r0 <=> state = "icmp"
           /\ icmp'.r1 = icmp.r0
           /\ icmp.fsm = "idle" =>
                /\ \/ icmp'.fsm = "idle" /\ icmp'.req = icmp.req
                   \/ icmp'.fsm = "wait" /\ icmp'.req
                /\ icmp'.cnt = icmp.cnt /\ icmp'.out = icmp.out
           /\ icmp.fsm = "wait" =>
                /\ icmp'.fsm = (IF Rises(icmp) THEN "send" ELSE "wait")
                /\ icmp'.req = icmp.req /\ icmp'.cnt = icmp.cnt /\ icmp'.out = icmp.out
           /\ icmp.fsm = "send" /\ icmp.cnt <= IcmpSize =>
                /\ icmp'.fsm = "send" /\ icmp'.req = icmp.req /\ icmp'.cnt = icmp.cnt + 1
                /\ icmp'.out = [Byte("icmp", icmp.cnt, IcmpSize) EXCEPT !.last = icmp.cnt = IcmpSize]
           /\ icmp.fsm = "send" /\ icmp.cnt > IcmpSize =>
                /\ icmp'.fsm = "idle" /\ ~icmp'.req /\ icmp'.cnt = 0 /\ icmp'.out = None
<1> DEFINE F == {"idle", "wait", "send"}
           now == Sampled(icmp, "icmp")
           next == Brought(icmp, "icmp", IcmpSize)
<1>1. /\ icmp \in Asks(F) /\ IcmpSize \in Nat /\ "icmp" \in Sender
      /\ icmp.fsm \in F /\ icmp.cnt \in Nat /\ icmp.req \in BOOLEAN
  BY Constants DEF TypeOK, Asks, Sender
<1>2. /\ now \in Asks(F) /\ (now.r0 <=> state = "icmp") /\ now.r1 = icmp.r0
      /\ now.fsm = icmp.fsm /\ now.req = icmp.req /\ now.cnt = icmp.cnt /\ now.out = icmp.out
  BY <1>1, SampledIs
<1>3. /\ next \in Asks(F) /\ (next.r0 <=> state = "icmp") /\ next.r1 = icmp.r0
      /\ next.fsm = icmp.fsm /\ next.req = icmp.req /\ next.cnt = icmp.cnt + 1
      /\ next.out = [Byte("icmp", icmp.cnt, IcmpSize) EXCEPT !.last = icmp.cnt = IcmpSize]
  BY <1>1, BroughtIs
<1>4. PICK t \in BOOLEAN, u \in BOOLEAN, w \in F, i \in F, z \in Nat, o \in Out :
        t = TRUE /\ u = FALSE /\ w = "wait" /\ i = "idle" /\ z = 0 /\ o = None
  BY DEF Out
<1>5. CASE icmp.fsm = "idle"
  <2>1. icmp' = now \/ icmp' = [now EXCEPT !.req = t, !.fsm = w]
    BY <1>4, <1>5 DEF Icmp
  <2> HIDE DEF now, next
  <2>2. CASE icmp' = now
    BY <1>1, <1>2, <1>5, <2>2
  <2>3. CASE icmp' = [now EXCEPT !.req = t, !.fsm = w]
    <3>1. Is(icmp', F, now, w, t, now.cnt, now.out)
      BY <1>2, <1>4, <2>3, Updates
    <3>2. QED
      BY <1>1, <1>2, <1>4, <1>5, <3>1 DEF Is
  <2>4. QED
    BY <2>1, <2>2, <2>3
<1>6. CASE icmp.fsm = "wait"
  <2>1. icmp' = [now EXCEPT !.fsm = IF Rises(icmp) THEN "send" ELSE "wait"]
    BY <1>6 DEF Icmp
  <2> HIDE DEF now, next
  <2>2. PICK f \in F : f = IF Rises(icmp) THEN "send" ELSE "wait"
    OBVIOUS
  <2>3. icmp' = [now EXCEPT !.fsm = f]
    BY <2>1, <2>2
  <2>4. Is(icmp', F, now, f, now.req, now.cnt, now.out)
    BY <1>2, <1>4, <2>3, Updates
  <2>5. QED
    BY <1>1, <1>2, <1>6, <2>2, <2>4 DEF Is
<1>7. CASE icmp.fsm = "send" /\ icmp.cnt <= IcmpSize
  <2>1. icmp' = next
    BY <1>1, <1>7 DEF Icmp
  <2> HIDE DEF now, next
  <2>2. QED
    BY <1>1, <1>3, <1>7, <2>1
<1>8. CASE icmp.fsm = "send" /\ icmp.cnt > IcmpSize
  <2>1. icmp' = [now EXCEPT !.cnt = z, !.out = o, !.req = u, !.fsm = i]
    <3>1. icmp' = [now EXCEPT !.cnt = 0, !.out = None, !.req = FALSE, !.fsm = "idle"]
      BY <1>1, <1>8 DEF Icmp
    <3> HIDE DEF now
    <3>2. QED
      BY <1>4, <3>1
  <2> HIDE DEF now, next
  <2>2. Is(icmp', F, now, i, u, z, o)
    BY <1>2, <1>4, <2>1, Updates
  <2>3. QED
    BY <1>1, <1>2, <1>4, <1>8, <2>2 DEF Is
<1>9. QED
  BY <1>1, <1>5, <1>6, <1>7, <1>8
-----------------------------------------------------------------------------
(***************************************************************************)
(* lan_tx and the payload FIFO.                                            *)
(***************************************************************************)
Stage == {"idle", "start", "wait", "head", "packet", "delay", "end", "done"}

Lan == [sta : Stage, cnt : Nat, words : Nat, clk : Nat, out : Out, done : BOOLEAN]

LanIs(x, a, c, w, k, o, d) ==
    x \in Lan /\ x.sta = a /\ x.cnt = c /\ x.words = w /\ x.clk = k /\ x.out = o /\ x.done = d

\* What lan_tx is made of after an assignment to some of its registers.
LEMMA LanUpdates ==
    ASSUME NEW b \in Lan, NEW a \in Stage, NEW c \in Nat, NEW w \in Nat, NEW k \in Nat,
           NEW o \in Out, NEW d \in BOOLEAN
    PROVE  /\ LanIs([b EXCEPT !.sta = a], a, b.cnt, b.words, b.clk, b.out, b.done)
           /\ LanIs([b EXCEPT !.clk = k], b.sta, b.cnt, b.words, k, b.out, b.done)
           /\ LanIs([b EXCEPT !.sta = a, !.words = w], a, b.cnt, w, b.clk, b.out, b.done)
           /\ LanIs([b EXCEPT !.sta = a, !.clk = k], a, b.cnt, b.words, k, b.out, b.done)
           /\ LanIs([b EXCEPT !.sta = a, !.out = o], a, b.cnt, b.words, b.clk, o, b.done)
           /\ LanIs([b EXCEPT !.cnt = c, !.out = o, !.sta = a], a, c, b.words, b.clk, o, b.done)
           /\ LanIs([b EXCEPT !.clk = k, !.cnt = c, !.out = o], b.sta, c, b.words, k, o, b.done)
           /\ LanIs([b EXCEPT !.sta = a, !.clk = k, !.cnt = c, !.out = o], a, c, b.words, k, o, b.done)
           /\ LanIs([b EXCEPT !.sta = a, !.done = d, !.words = w], a, b.cnt, w, b.clk, b.out, d)
           /\ LanIs([b EXCEPT !.sta = a, !.clk = k, !.done = d], a, b.cnt, b.words, k, b.out, d)
<1>1. LanIs([b EXCEPT !.sta = a], a, b.cnt, b.words, b.clk, b.out, b.done)
  BY DEF Lan, LanIs
<1>2. LanIs([b EXCEPT !.clk = k], b.sta, b.cnt, b.words, k, b.out, b.done)
  BY DEF Lan, LanIs
<1>3. LanIs([b EXCEPT !.sta = a, !.words = w], a, b.cnt, w, b.clk, b.out, b.done)
  BY DEF Lan, LanIs
<1>4. LanIs([b EXCEPT !.sta = a, !.clk = k], a, b.cnt, b.words, k, b.out, b.done)
  BY DEF Lan, LanIs
<1>5. LanIs([b EXCEPT !.sta = a, !.out = o], a, b.cnt, b.words, b.clk, o, b.done)
  BY DEF Lan, LanIs
<1>6. LanIs([b EXCEPT !.cnt = c, !.out = o, !.sta = a], a, c, b.words, b.clk, o, b.done)
  BY DEF Lan, LanIs
<1>7. LanIs([b EXCEPT !.clk = k, !.cnt = c, !.out = o], b.sta, c, b.words, k, o, b.done)
  BY DEF Lan, LanIs
<1>8. LanIs([b EXCEPT !.sta = a, !.clk = k, !.cnt = c, !.out = o], a, c, b.words, k, o, b.done)
  BY DEF Lan, LanIs
<1>9. LanIs([b EXCEPT !.sta = a, !.done = d, !.words = w], a, b.cnt, w, b.clk, b.out, d)
  BY DEF Lan, LanIs
<1>10. LanIs([b EXCEPT !.sta = a, !.clk = k, !.done = d], a, b.cnt, b.words, k, b.out, d)
  BY DEF Lan, LanIs
<1>11. QED
  BY <1>1, <1>2, <1>3, <1>4, <1>5, <1>6, <1>7, <1>8, <1>9, <1>10

\* lan_tx, by its state.
LEMMA LanStep ==
    ASSUME TypeOK, LanTx, lan.sta = "head" => port \in Sender
    PROVE  /\ lan' \in Lan
           /\ lan.sta = "idle" =>
                LanIs(lan', IF Starts THEN "start" ELSE "idle",
                      lan.cnt, lan.words, lan.clk, lan.out, lan.done)
           /\ lan.sta = "start" =>
                LanIs(lan', "wait", lan.cnt, last, lan.clk, lan.out, lan.done)
           /\ lan.sta = "wait" /\ lan.clk = 1 =>
                LanIs(lan', "head", lan.cnt, lan.words, 0, lan.out, lan.done)
           /\ lan.sta = "wait" /\ lan.clk # 1 =>
                LanIs(lan', "wait", lan.cnt, lan.words, lan.clk + 1, lan.out, lan.done)
           /\ lan.sta = "head" =>
                LanIs(lan', "packet", lan.cnt, lan.words, lan.clk, Byte(port, 0, lan.words), lan.done)
           /\ lan.sta = "packet" =>
                LanIs(lan', IF lan.cnt < lan.words - 1 THEN "packet" ELSE "delay",
                      lan.cnt + 1, lan.words, lan.clk,
                      [FifoRead EXCEPT !.last = lan.cnt + 1 = lan.words], lan.done)
           /\ lan.sta = "delay" =>
                LanIs(lan', IF lan.clk = DelayClocks THEN "end" ELSE "delay", 0, lan.words,
                      IF lan.clk = DelayClocks THEN 0 ELSE lan.clk + 1, None, lan.done)
           /\ lan.sta = "end" =>
                LanIs(lan', "done", lan.cnt, 0, lan.clk, lan.out, TRUE)
           /\ lan.sta = "done" =>
                \/ LanIs(lan', "done", lan.cnt, lan.words, lan.clk + 1, lan.out, lan.done)
                \/ LanIs(lan', "idle", lan.cnt, lan.words, 0, lan.out, FALSE)
<1>1. /\ lan \in Lan /\ lan.sta \in Stage /\ lan.cnt \in Nat /\ lan.words \in Nat
      /\ lan.clk \in Nat /\ lan.out \in Out /\ lan.done \in BOOLEAN /\ last \in Nat
  BY DEF TypeOK, Lan, Stage
<1>2. PICK z \in Nat, o \in Out, t \in BOOLEAN, u \in BOOLEAN :
        z = 0 /\ o = None /\ t = TRUE /\ u = FALSE
  BY DEF Out
<1>3. PICK i \in Stage, s \in Stage, w \in Stage, h \in Stage, p \in Stage, d \in Stage,
           e \in Stage, f \in Stage :
        /\ i = "idle" /\ s = "start" /\ w = "wait" /\ h = "head"
        /\ p = "packet" /\ d = "delay" /\ e = "end" /\ f = "done"
  BY DEF Stage
<1>4. CASE lan.sta = "idle"
  <2>1. PICK a \in Stage : a = IF Starts THEN "start" ELSE "idle"
    BY DEF Stage
  <2>2. lan' = [lan EXCEPT !.sta = a]
    BY <1>4, <2>1 DEF LanTx
  <2>3. LanIs(lan', a, lan.cnt, lan.words, lan.clk, lan.out, lan.done)
    BY <1>1, <2>1, <2>2, LanUpdates
  <2>4. QED
    BY <1>4, <2>1, <2>3 DEF LanIs
<1>5. CASE lan.sta = "start"
  <2>1. lan' = [lan EXCEPT !.sta = w, !.words = last]
    BY <1>3, <1>5 DEF LanTx
  <2>2. LanIs(lan', w, lan.cnt, last, lan.clk, lan.out, lan.done)
    BY <1>1, <1>3, <2>1, LanUpdates
  <2>3. QED
    BY <1>3, <1>5, <2>2 DEF LanIs
<1>6. CASE lan.sta = "wait"
  <2>1. CASE lan.clk = 1
    <3>1. lan' = [lan EXCEPT !.sta = h, !.clk = z]
      BY <1>2, <1>3, <1>6, <2>1 DEF LanTx
    <3>2. LanIs(lan', h, lan.cnt, lan.words, z, lan.out, lan.done)
      BY <1>1, <1>2, <1>3, <3>1, LanUpdates
    <3>3. QED
      BY <1>2, <1>3, <1>6, <2>1, <3>2 DEF LanIs
  <2>2. CASE lan.clk # 1
    <3>1. PICK k \in Nat : k = lan.clk + 1
      BY <1>1
    <3>2. lan' = [lan EXCEPT !.clk = k]
      BY <1>6, <2>2, <3>1 DEF LanTx
    <3>3. LanIs(lan', lan.sta, lan.cnt, lan.words, k, lan.out, lan.done)
      BY <1>1, <1>2, <3>1, <3>2, LanUpdates
    <3>4. QED
      BY <1>6, <2>2, <3>1, <3>3 DEF LanIs
  <2>3. QED
    BY <2>1, <2>2
<1>7. CASE lan.sta = "head"
  <2>1. PICK b \in Out : b = Byte(port, 0, lan.words)
    <3>1. port \in Sender \cup {"stale"}
      BY <1>7
    <3>2. Byte(port, 0, lan.words) \in Bytes
      BY <1>1, <3>1, ByteFields
    <3>3. QED
      BY <3>2 DEF Out
  <2>2. lan' = [lan EXCEPT !.sta = p, !.out = b]
    BY <1>3, <1>7, <2>1 DEF LanTx
  <2>3. LanIs(lan', p, lan.cnt, lan.words, lan.clk, b, lan.done)
    BY <1>1, <1>3, <2>1, <2>2, LanUpdates
  <2>4. QED
    BY <1>3, <1>7, <2>1, <2>3 DEF LanIs
<1>8. CASE lan.sta = "packet"
  <2>1. PICK b \in Out : b = [FifoRead EXCEPT !.last = lan.cnt + 1 = lan.words]
    <3>1. FifoRead \in Bytes
      <4>1. Byte("stale", 0, 0) \in Bytes
        BY ByteFields
      <4>2. fifo \in Seq(Bytes)
        BY DEF TypeOK
      <4>3. QED
        BY <4>1, <4>2 DEF FifoRead
    <3>2. PICK x \in BOOLEAN : x = (lan.cnt + 1 = lan.words)
      OBVIOUS
    <3>3. [FifoRead EXCEPT !.last = x] \in Bytes
      BY <3>1 DEF Bytes
    <3>4. QED
      BY <3>2, <3>3 DEF Out
  <2>2. PICK a \in Stage, k \in Nat :
          a = (IF lan.cnt < lan.words - 1 THEN "packet" ELSE "delay") /\ k = lan.cnt + 1
    BY <1>1 DEF Stage
  <2>3. lan' = [lan EXCEPT !.cnt = k, !.out = b, !.sta = a]
    BY <1>8, <2>1, <2>2 DEF LanTx
  <2>4. LanIs(lan', a, k, lan.words, lan.clk, b, lan.done)
    BY <1>1, <2>1, <2>2, <2>3, LanUpdates
  <2>5. QED
    BY <1>8, <2>1, <2>2, <2>4 DEF LanIs
<1>9. CASE lan.sta = "delay"
  <2>1. CASE lan.clk = DelayClocks
    <3>1. lan' = [lan EXCEPT !.sta = e, !.clk = z, !.cnt = z, !.out = o]
      BY <1>2, <1>3, <1>9, <2>1 DEF LanTx
    <3>2. LanIs(lan', e, z, lan.words, z, o, lan.done)
      BY <1>1, <1>2, <1>3, <3>1, LanUpdates
    <3>3. QED
      BY <1>2, <1>3, <1>9, <2>1, <3>2 DEF LanIs
  <2>2. CASE lan.clk # DelayClocks
    <3>1. PICK k \in Nat : k = lan.clk + 1
      BY <1>1
    <3>2. lan' = [lan EXCEPT !.clk = k, !.cnt = z, !.out = o]
      BY <1>2, <1>9, <2>2, <3>1 DEF LanTx
    <3>3. LanIs(lan', lan.sta, z, lan.words, k, o, lan.done)
      BY <1>1, <1>2, <3>1, <3>2, LanUpdates
    <3>4. QED
      BY <1>2, <1>9, <2>2, <3>1, <3>3 DEF LanIs
  <2>3. QED
    BY <2>1, <2>2
<1>10. CASE lan.sta = "end"
  <2>1. lan' = [lan EXCEPT !.sta = f, !.done = t, !.words = z]
    BY <1>2, <1>3, <1>10 DEF LanTx
  <2>2. LanIs(lan', f, lan.cnt, z, lan.clk, lan.out, t)
    BY <1>1, <1>2, <1>3, <2>1, LanUpdates
  <2>3. QED
    BY <1>2, <1>3, <1>10, <2>2 DEF LanIs
<1>11. CASE lan.sta = "done"
  <2>1. PICK k \in Nat : k = lan.clk + 1
    BY <1>1
  <2>2. lan' = [lan EXCEPT !.clk = k] \/ lan' = [lan EXCEPT !.sta = i, !.clk = z, !.done = u]
    BY <1>2, <1>3, <1>11, <2>1 DEF LanTx
  <2>3. CASE lan' = [lan EXCEPT !.clk = k]
    <3>1. LanIs(lan', lan.sta, lan.cnt, lan.words, k, lan.out, lan.done)
      BY <1>1, <1>2, <2>1, <2>3, LanUpdates
    <3>2. QED
      BY <1>11, <2>1, <3>1 DEF LanIs
  <2>4. CASE lan' = [lan EXCEPT !.sta = i, !.clk = z, !.done = u]
    <3>1. LanIs(lan', i, lan.cnt, lan.words, z, lan.out, u)
      BY <1>1, <1>2, <1>3, <2>4, LanUpdates
    <3>2. QED
      BY <1>2, <1>3, <1>11, <3>1 DEF LanIs
  <2>5. QED
    BY <2>2, <2>3, <2>4
<1>12. QED
  BY <1>1, <1>4, <1>5, <1>6, <1>7, <1>8, <1>9, <1>10, <1>11 DEF Stage

\* How many bytes lan_tx takes from the payload FIFO in this clock.
Taken == IF lan.sta = "packet" /\ fifo # <<>> THEN 1 ELSE 0

\* The FIFO keeps the order of its bytes.
LEMMA FifoStep ==
    ASSUME TypeOK, Fifo
    PROVE  /\ fifo' \in Seq(Bytes)
           /\ Len(fifo) \in Nat /\ Taken \in 0 .. 1 /\ Taken <= Len(fifo)
           /\ Len(fifo') = Len(fifo) - Taken + Held(din)
           /\ \A i \in 1 .. Len(fifo) - Taken : fifo'[i] = fifo[i + Taken]
           /\ din # None => fifo'[Len(fifo) - Taken + 1] = din
<1> DEFINE rest == IF lan.sta = "packet" /\ fifo # <<>> THEN Tail(fifo) ELSE fifo
<1>1. /\ fifo \in Seq(Bytes) /\ Len(fifo) \in Nat
      /\ din # None => din \in Bytes
  BY LenProperties DEF TypeOK, Out
<1>2. fifo # <<>> => Len(fifo) > 0
  BY <1>1, EmptySeq
<1>3. /\ rest \in Seq(Bytes) /\ Len(rest) = Len(fifo) - Taken
      /\ \A i \in 1 .. Len(fifo) - Taken : rest[i] = fifo[i + Taken]
  <2>1. CASE lan.sta = "packet" /\ fifo # <<>>
    <3>1. rest = Tail(fifo) /\ Taken = 1
      BY <2>1 DEF Taken
    <3>2. /\ Tail(fifo) \in Seq(Bytes) /\ Len(Tail(fifo)) = Len(fifo) - 1
          /\ \A i \in 1 .. Len(fifo) - 1 : Tail(fifo)[i] = fifo[i + 1]
      BY <1>1, <2>1, HeadTailProperties
    <3>3. QED
      BY <3>1, <3>2
  <2>2. CASE ~(lan.sta = "packet" /\ fifo # <<>>)
    <3>1. rest = fifo /\ Taken = 0
      BY <2>2 DEF Taken
    <3>2. QED
      BY <1>1, <3>1
  <2>3. QED
    BY <2>1, <2>2
<1>4. Taken \in 0 .. 1 /\ Taken <= Len(fifo)
  BY <1>1, <1>2 DEF Taken
<1>5. fifo' = IF din = None THEN rest ELSE Append(rest, din)
  BY DEF Fifo
<1> HIDE DEF rest
<1>6. CASE din = None
  BY <1>1, <1>3, <1>4, <1>5, <1>6 DEF Held
<1>7. CASE din # None
  <2>1. /\ Append(rest, din) \in Seq(Bytes) /\ Len(Append(rest, din)) = Len(rest) + 1
        /\ \A i \in 1 .. Len(rest) : Append(rest, din)[i] = rest[i]
        /\ Append(rest, din)[Len(rest) + 1] = din
    BY <1>1, <1>3, <1>7, AppendProperties
  <2>2. Held(din) = 1 /\ fifo' = Append(rest, din)
    BY <1>5, <1>7 DEF Held
  <2>3. QED
    BY <1>1, <1>3, <1>4, <2>1, <2>2
<1>8. QED
  BY <1>6, <1>7

\* A source that has seen its ACK rise gives its n bytes one per clock, and then none.
Gives(b, c, s, n) ==
    /\ b.fsm = 2 /\ b.cnt < n =>
            c.fsm = 2 /\ c.cnt = b.cnt + 1 /\ c.out = Byte(s, b.cnt + 1, n)
    /\ b.fsm = 2 /\ b.cnt = n => c.fsm # 2 /\ c.cnt = 0 /\ c.out = None
    /\ b.fsm # 2 => c.fsm # 2 /\ c.cnt = b.cnt /\ c.out = b.out

\* What is read from the FIFO is the next byte of the frame.
LEMMA ReadIs ==
    ASSUME TypeOK, NEW b, NEW s, NEW n \in Nat, Fills(b, s, n), lan.sta = "packet"
    PROVE  FifoRead = Byte(s, lan.cnt + 1, n) /\ Taken = 1 /\ fifo # <<>>
<1>1. fifo \in Seq(Bytes) /\ Len(fifo) \in Nat /\ Len(fifo) > 0
  BY LenProperties DEF TypeOK, Fills
<1>2. fifo # <<>>
  BY <1>1, EmptySeq
<1>3. Head(fifo) = fifo[1]
  BY <1>1, <1>2, HeadTailProperties
<1>4. fifo[1] = Byte(s, lan.cnt + 1, n)
  BY <1>1 DEF Fills
<1>5. QED
  BY <1>2, <1>3, <1>4 DEF FifoRead, Taken

\* From the source through din into the FIFO no byte is lost, doubled or overtaken, and
\* none is missing when lan_tx reads it.
LEMMA FillStep ==
    ASSUME TypeOK, Fifo, NEW b, NEW c, NEW s \in Sender, NEW n \in Nat, n > 0,
           b.cnt \in Nat, Fills(b, s, n), Gives(b, c, s, n), din' = b.out,
           lan.sta \notin {"delay", "end", "done"},
           lan.sta = "idle" => lan'.sta = "idle" \/ Len(fifo) > 0,
           lan'.cnt = IF lan.sta = "packet" THEN lan.cnt + 1 ELSE lan.cnt
    PROVE  IF lan.sta = "packet" /\ lan.cnt + 1 = n
           THEN fifo' = <<>> /\ din' = None /\ c.out = None /\ c.fsm # 2 /\ c.cnt = 0
           ELSE Fills(c, s, n)'
<1> DEFINE p == lan.cnt + Len(fifo)
           q == p + Held(din)
           P == lan'.cnt + Len(fifo')
           Q == P + Held(din')
<1>1. /\ fifo' \in Seq(Bytes) /\ Len(fifo) \in Nat /\ Taken \in 0 .. 1 /\ Taken <= Len(fifo)
      /\ Len(fifo') = Len(fifo) - Taken + Held(din)
      /\ \A i \in 1 .. Len(fifo) - Taken : fifo'[i] = fifo[i + Taken]
      /\ din # None => fifo'[Len(fifo) - Taken + 1] = din
  BY FifoStep
<1>2. lan.cnt \in Nat /\ lan'.cnt = lan.cnt + Taken /\ Len(fifo') \in Nat
  <2>1. lan.cnt \in Nat
    BY DEF TypeOK
  <2>2. lan'.cnt = lan.cnt + Taken
    <3>1. lan.sta = "packet" => Taken = 1
      BY ReadIs
    <3>2. lan.sta # "packet" => Taken = 0
      BY DEF Taken
    <3>3. QED
      BY <2>1, <3>1, <3>2
  <2>3. QED
    BY <1>1, <2>1, <2>2, LenProperties
<1>3. /\ Held(din) \in 0 .. 1 /\ (din # None <=> Held(din) = 1)
      /\ Held(b.out) \in 0 .. 1 /\ (b.out # None <=> Held(b.out) = 1)
      /\ Held(c.out) \in 0 .. 1 /\ (c.out # None <=> Held(c.out) = 1)
      /\ Held(din') = Held(b.out)
  BY DEF Held
<1>4. p \in Nat /\ q \in Nat /\ P = q /\ Q = q + Held(b.out)
  <2>1. p \in Nat
    BY <1>1, <1>2
  <2>2. q \in Nat
    BY <1>3, <2>1
  <2>3. P = q
    BY <1>1, <1>2, <1>3
  <2>4. Q = P + Held(b.out)
    BY <1>3
  <2>5. QED
    BY <2>1, <2>2, <2>3, <2>4
<1>5. /\ p <= n
      /\ din # None => p < n /\ din = Byte(s, p + 1, n)
      /\ p > 0 /\ p < n => din # None
      /\ b.out # None => q < n /\ b.out = Byte(s, q + 1, n)
      /\ q > 0 /\ q < n => b.out # None
      /\ b.fsm = 2 => b.cnt = q + Held(b.out) /\ (b.cnt > 0 => b.out # None)
      /\ b.fsm # 2 => b.cnt = 0 /\ q = n
  BY DEF Fills
<1>6. \A i \in 1 .. Len(fifo') : fifo'[i] = Byte(s, lan'.cnt + i, n)
  <2>1. TAKE i \in 1 .. Len(fifo')
  <2>2. i \in Nat /\ i > 0 /\ i <= Len(fifo')
    BY <1>2
  <2>3. CASE i <= Len(fifo) - Taken
    <3>1. i \in 1 .. Len(fifo) - Taken /\ i + Taken \in 1 .. Len(fifo)
      BY <1>1, <2>2, <2>3
    <3>2. fifo'[i] = fifo[i + Taken]
      BY <1>1, <3>1
    <3>3. fifo[i + Taken] = Byte(s, lan.cnt + (i + Taken), n)
      BY <3>1 DEF Fills
    <3>4. lan.cnt + (i + Taken) = lan'.cnt + i
      BY <1>1, <1>2, <2>2
    <3>5. QED
      BY <3>2, <3>3, <3>4
  <2>4. CASE i > Len(fifo) - Taken
    <3>1. Held(din) = 1 /\ i = Len(fifo) - Taken + 1
      BY <1>1, <1>3, <2>2, <2>4
    <3>2. fifo'[i] = Byte(s, p + 1, n)
      BY <1>1, <1>3, <1>5, <3>1
    <3>3. p + 1 = lan'.cnt + i
      BY <1>1, <1>2, <3>1
    <3>4. QED
      BY <3>2, <3>3
  <2>5. QED
    BY <1>1, <2>2, <2>3, <2>4
<1> HIDE DEF p, q, P, Q
<1>7. P <= n /\ Q <= n
  BY <1>3, <1>4, <1>5
<1>8. din' # None => P < n /\ din' = Byte(s, P + 1, n)
  BY <1>4, <1>5
<1>9. P > 0 /\ P < n => din' # None
  BY <1>4, <1>5
<1>10. b.fsm = 2 => b.cnt = Q
  BY <1>4, <1>5
<1>11. c.out # None => Q < n /\ c.out = Byte(s, Q + 1, n)
  <2>1. CASE b.fsm = 2 /\ b.cnt < n
    BY <1>10, <2>1 DEF Gives
  <2>2. CASE b.fsm = 2 /\ b.cnt = n
    BY <2>2 DEF Gives
  <2>3. CASE b.fsm # 2
    <3>1. c.out = b.out /\ q = n
      BY <1>5, <2>3 DEF Gives
    <3>2. b.out = None
      BY <1>5, <3>1
    <3>3. QED
      BY <3>1, <3>2
  <2>4. QED
    BY <1>4, <1>7, <1>10, <2>1, <2>2, <2>3
<1>12. ASSUME Q < n
       PROVE  b.fsm = 2 /\ c.fsm = 2 /\ c.cnt = Q + 1 /\ c.out = Byte(s, Q + 1, n) /\ c.out # None
  <2>1. b.fsm = 2
    BY <1>3, <1>4, <1>5, <1>12
  <2>2. b.cnt = Q /\ b.cnt < n
    BY <1>10, <1>12, <2>1
  <2>3. c.fsm = 2 /\ c.cnt = Q + 1 /\ c.out = Byte(s, Q + 1, n)
    BY <2>1, <2>2 DEF Gives
  <2>4. Byte(s, Q + 1, n) # None
    <3>1. Q + 1 \in Nat /\ s \in Sender \cup {"stale"}
      <4>1. Q \in Nat
        BY <1>3, <1>4
      <4>2. QED
        BY <4>1
    <3>2. Byte(s, Q + 1, n) \in Bytes
      BY <3>1 DEF Byte, Bytes
    <3>3. QED
      BY <3>2, TxAssumption
  <2>5. QED
    BY <2>1, <2>3, <2>4
<1>13. ASSUME Q = n PROVE c.fsm # 2 /\ c.cnt = 0 /\ c.out = None
  <2>1. CASE b.fsm = 2
    BY <1>10, <1>13, <2>1 DEF Gives
  <2>2. CASE b.fsm # 2
    <3>1. q = n /\ b.out = None /\ b.cnt = 0
      BY <1>5, <2>2
    <3>2. QED
      BY <2>2, <3>1 DEF Gives
  <2>3. QED
    BY <2>1, <2>2
<1>14. Q < n \/ Q = n
  BY <1>3, <1>4, <1>7
<1>15. CASE lan.sta = "packet" /\ lan.cnt + 1 = n
  <2>1. Len(fifo) > 0 /\ Taken = 1
    BY <1>15, ReadIs DEF Fills
  <2>2. p = n /\ Len(fifo) = 1
    <3>1. p = lan.cnt + Len(fifo) /\ p <= n
      BY <1>5 DEF p
    <3>2. PICK k \in Nat : k = Len(fifo)
      BY <1>1
    <3>3. k > 0 /\ lan.cnt + k <= n /\ lan.cnt + 1 = n
      BY <1>15, <2>1, <3>1, <3>2
    <3>4. k = 1 /\ lan.cnt + k = n
      BY <1>2, <3>3
    <3>5. QED
      BY <3>1, <3>2, <3>4
  <2>3. din = None /\ q = n /\ b.out = None
    BY <1>2, <1>3, <1>4, <1>5, <2>2 DEF p, q
  <2>4. Len(fifo') = 0 /\ din' = None /\ Q = n
    BY <1>1, <1>3, <1>4, <2>1, <2>2, <2>3
  <2>5. fifo' = <<>>
    BY <1>1, <2>4, EmptySeq
  <2>6. QED
    BY <1>13, <1>15, <2>4, <2>5
<1>16. CASE ~(lan.sta = "packet" /\ lan.cnt + 1 = n)
  <2>1. lan'.sta # "idle" => Len(fifo') > 0
    <3>1. CASE lan.sta = "idle"
      <4>1. Taken = 0
        BY <3>1 DEF Taken
      <4>2. QED
        BY <1>1, <1>3, <3>1, <4>1
    <3>2. CASE lan.sta = "packet"
      <4>1. Taken = 1 /\ Len(fifo) > 0
        BY <3>2, ReadIs DEF Fills
      <4>2. CASE Len(fifo) > 1
        BY <1>1, <1>3, <4>1, <4>2
      <4>3. CASE Len(fifo) = 1
        <5>1. p > 0 /\ p < n
          BY <1>1, <1>2, <1>5, <1>16, <3>2, <4>3 DEF p
        <5>2. Held(din) = 1
          BY <1>3, <1>5, <5>1
        <5>3. QED
          BY <1>1, <4>1, <4>3, <5>2
      <4>4. Len(fifo) > 1 \/ Len(fifo) = 1
        <5>1. PICK k \in Nat : k = Len(fifo)
          BY <1>1
        <5>2. k > 0
          BY <4>1, <5>1
        <5>3. k > 1 \/ k = 1
          BY <5>2
        <5>4. QED
          BY <5>1, <5>3
      <4>5. QED
        BY <4>2, <4>3, <4>4
    <3>3. CASE lan.sta \notin {"idle", "packet"}
      <4>1. Taken = 0 /\ Len(fifo) > 0
        BY <3>3 DEF Taken, Fills
      <4>2. QED
        BY <1>1, <1>3, <4>1
    <3>4. QED
      BY <3>1, <3>2, <3>3
  <2>2. Q > 0 /\ Q < n => c.out # None
    BY <1>12
  <2>3. /\ c.fsm = 2 => c.cnt = Q + Held(c.out) /\ (c.cnt > 0 => c.out # None)
        /\ c.fsm # 2 => c.cnt = 0 /\ Q = n
    <3>1. Q \in Nat
      BY <1>3, <1>4
    <3>2. QED
      BY <1>3, <1>12, <1>13, <1>14, <3>1
  <2>4. Fills(c, s, n)'
    BY <1>6, <1>7, <1>8, <1>9, <1>11, <2>1, <2>2, <2>3 DEF Fills, P, Q
  <2>5. QED
    BY <1>16, <2>4
<1>17. QED
  BY <1>15, <1>16

\* A line that carries nothing stays between two frames, and one that carries the last
\* byte of a frame comes there.
LEMMA RestsStep ==
    ASSUME History
    PROVE  /\ axis' = None /\ Rests => Rests'
           /\ axis' # None /\ axis'.last => Rests'
<1>1. /\ axis' = None => Newest' = Newest
      /\ axis' # None => Newest' = axis'
  BY HistoryStep
<1>2. Rests' <=> Newest' = None \/ Newest'.last
  BY DEF Rests
<1>3. QED
  BY <1>1, <1>2 DEF Rests

\* lan_tx goes through its states with a frame of n bytes and puts them on the line in order.
LEMMA LanCarriesStep ==
    ASSUME TypeOK, LanTx, History, axis' = lan.out,
           NEW s \in {"reply", "data"}, NEW n \in Nat, n > 0,
           port = s, last = n, ~lan.done, LanCarries(s, n),
           lan.sta = "packet" => FifoRead = Byte(s, lan.cnt + 1, n)
    PROVE  LanCarries(s, n)'
<1>1. /\ lan.cnt \in Nat /\ lan.clk \in Nat /\ lan.words \in Nat /\ lan.sta \in Stage
      /\ s \in Sender \cup {"stale"} /\ lan.done = FALSE
  BY DEF TypeOK, Sender, Stage
<1>2. port \in Sender
  BY DEF Sender
<1>3. /\ axis' = None /\ Rests => Rests'
      /\ axis' # None /\ axis'.last => Rests'
  BY RestsStep
<1>4. /\ (lan.done <=> lan.sta = "done")
      /\ lan.sta \in {"wait", "head", "packet", "delay"} => lan.words = n
      /\ lan.sta \notin {"wait", "delay"} => lan.clk = 0
      /\ lan.sta = "wait" => lan.clk \in 0 .. 1
      /\ lan.sta = "delay" => lan.clk \in 0 .. DelayClocks
      /\ lan.sta # "packet" /\ ~(lan.sta = "delay" /\ lan.clk = 0) =>
            lan.cnt = 0 /\ lan.out = None /\ Rests
      /\ lan.sta = "packet" =>
            /\ lan.cnt < n
            /\ lan.out = Byte(s, lan.cnt, n)
            /\ IF lan.cnt = 0 THEN Rests ELSE axis = Byte(s, lan.cnt - 1, n)
      /\ lan.sta = "delay" /\ lan.clk = 0 => lan.out = LastByte(s, n) /\ axis = Byte(s, n - 1, n)
      /\ lan.sta = "delay" /\ lan.clk = 1 => axis = LastByte(s, n)
  BY DEF LanCarries
<1> DEFINE Between == lan'.cnt = 0 /\ lan'.out = None /\ Rests' /\ (lan'.done <=> lan'.sta = "done")
<1>5. CASE lan.sta = "idle"
  <2>1. LanIs(lan', IF Starts THEN "start" ELSE "idle", lan.cnt, lan.words, lan.clk, lan.out, lan.done)
    BY <1>2, <1>5, LanStep
  <2>2. Between /\ lan'.sta \in {"idle", "start"} /\ lan'.clk = 0
    BY <1>1, <1>3, <1>4, <1>5, <2>1 DEF LanIs
  <2>3. QED
    BY <2>2 DEF LanCarries
<1>6. CASE lan.sta = "start"
  <2>1. LanIs(lan', "wait", lan.cnt, last, lan.clk, lan.out, lan.done)
    BY <1>2, <1>6, LanStep
  <2>2. Between /\ lan'.sta = "wait" /\ lan'.clk = 0 /\ lan'.words = n
    BY <1>1, <1>3, <1>4, <1>6, <2>1 DEF LanIs
  <2>3. QED
    BY <2>2 DEF LanCarries
<1>7. CASE lan.sta = "wait"
  <2>1. CASE lan.clk = 1
    <3>1. LanIs(lan', "head", lan.cnt, lan.words, 0, lan.out, lan.done)
      BY <1>2, <1>7, <2>1, LanStep
    <3>2. Between /\ lan'.sta = "head" /\ lan'.clk = 0 /\ lan'.words = n
      BY <1>1, <1>3, <1>4, <1>7, <3>1 DEF LanIs
    <3>3. QED
      BY <3>2 DEF LanCarries
  <2>2. CASE lan.clk # 1
    <3>1. LanIs(lan', "wait", lan.cnt, lan.words, lan.clk + 1, lan.out, lan.done)
      BY <1>2, <1>7, <2>2, LanStep
    <3>2. lan.clk = 0
      BY <1>4, <1>7, <2>2
    <3>3. Between /\ lan'.sta = "wait" /\ lan'.clk = 1 /\ lan'.words = n
      BY <1>1, <1>3, <1>4, <1>7, <3>1, <3>2 DEF LanIs
    <3>4. QED
      BY <3>3 DEF LanCarries
  <2>3. QED
    BY <2>1, <2>2
<1>8. CASE lan.sta = "head"
  <2>1. LanIs(lan', "packet", lan.cnt, lan.words, lan.clk, Byte(port, 0, lan.words), lan.done)
    BY <1>2, <1>8, LanStep
  <2>2. /\ lan'.sta = "packet" /\ lan'.clk = 0 /\ lan'.words = n /\ lan'.cnt = 0
        /\ lan'.out = Byte(s, 0, n) /\ Rests' /\ lan'.done = FALSE
    BY <1>1, <1>3, <1>4, <1>8, <2>1 DEF LanIs
  <2>3. QED
    BY <2>2 DEF LanCarries
<1>9. CASE lan.sta = "packet"
  <2>1. LanIs(lan', IF lan.cnt < lan.words - 1 THEN "packet" ELSE "delay",
              lan.cnt + 1, lan.words, lan.clk,
              [FifoRead EXCEPT !.last = lan.cnt + 1 = lan.words], lan.done)
    BY <1>2, <1>9, LanStep
  <2>2. /\ lan'.clk = 0 /\ lan'.words = n /\ lan'.cnt = lan.cnt + 1 /\ lan'.done = FALSE
        /\ axis' = Byte(s, lan.cnt, n)
        /\ lan'.sta = IF lan.cnt < n - 1 THEN "packet" ELSE "delay"
        /\ lan'.out = [Byte(s, lan.cnt + 1, n) EXCEPT !.last = lan.cnt + 1 = n]
    BY <1>1, <1>4, <1>9, <2>1 DEF LanIs
  <2>3. lan.cnt < n /\ lan.cnt + 1 \in Nat /\ lan.cnt + 1 - 1 = lan.cnt /\ lan.cnt + 1 # 0
    BY <1>1, <1>4, <1>9
  <2>4. CASE lan.cnt < n - 1
    <3>1. lan'.sta = "packet" /\ lan'.cnt < n /\ ~(lan.cnt + 1 = n)
      BY <1>1, <2>2, <2>3, <2>4
    <3>2. lan'.out = Byte(s, lan.cnt + 1, n)
      <4>1. PICK f \in BOOLEAN : f = (lan.cnt + 1 = n)
        OBVIOUS
      <4>2. ~f /\ lan'.out = [Byte(s, lan.cnt + 1, n) EXCEPT !.last = f]
        BY <2>2, <3>1, <4>1
      <4>3. QED
        BY <1>1, <2>3, <4>2, FlagFields
    <3>3. axis' = Byte(s, lan'.cnt - 1, n) /\ lan'.cnt # 0 /\ lan'.out = Byte(s, lan'.cnt, n)
      <4>1. lan'.cnt - 1 = lan.cnt /\ lan'.cnt # 0
        <5>1. PICK k \in Nat : k = lan.cnt
          BY <1>1
        <5>2. PICK m : m = lan'.cnt
          OBVIOUS
        <5>3. m = k + 1
          BY <2>2, <5>1, <5>2
        <5>4. m - 1 = k /\ m # 0
          BY <5>1, <5>3
        <5>5. QED
          BY <5>1, <5>2, <5>4
      <4>2. axis' = Byte(s, lan'.cnt - 1, n)
        BY <2>2, <4>1
      <4>3. lan'.out = Byte(s, lan'.cnt, n)
        BY <2>2, <3>2
      <4>4. QED
        BY <4>1, <4>2, <4>3
    <3>4. /\ lan'.clk = 0 /\ lan'.words = n /\ lan'.done = FALSE
          /\ lan'.sta = "packet" /\ lan'.cnt < n
      BY <2>2, <3>1
    <3>5. QED
      BY <3>3, <3>4 DEF LanCarries
  <2>5. CASE ~(lan.cnt < n - 1)
    <3>1. lan'.sta = "delay" /\ lan.cnt = n - 1 /\ lan.cnt + 1 = n
      BY <1>1, <2>2, <2>3, <2>5
    <3>2. lan'.out = LastByte(s, n) /\ axis' = Byte(s, n - 1, n)
      <4>1. (lan.cnt + 1 = n) = TRUE
        BY <3>1
      <4>2. lan'.out = [Byte(s, n, n) EXCEPT !.last = TRUE]
        BY <2>2, <3>1, <4>1
      <4>3. QED
        BY <2>2, <3>1, <4>2 DEF LastByte
    <3>3. 0 \in 0 .. DelayClocks
      BY Constants
    <3>4. QED
      BY <2>2, <3>1, <3>2, <3>3 DEF LanCarries
  <2>6. QED
    BY <2>4, <2>5
<1>10. CASE lan.sta = "delay"
  <2>1. LanIs(lan', IF lan.clk = DelayClocks THEN "end" ELSE "delay", 0, lan.words,
              IF lan.clk = DelayClocks THEN 0 ELSE lan.clk + 1, None, lan.done)
    BY <1>2, <1>10, LanStep
  <2>2. /\ lan'.cnt = 0 /\ lan'.out = None /\ lan'.done = FALSE /\ lan'.words = n
        /\ lan'.sta = IF lan.clk = DelayClocks THEN "end" ELSE "delay"
        /\ lan'.clk = IF lan.clk = DelayClocks THEN 0 ELSE lan.clk + 1
    BY <1>1, <1>4, <1>10, <2>1 DEF LanIs
  <2>3. DelayClocks \in Nat /\ DelayClocks > 0 /\ lan.clk \in 0 .. DelayClocks
    BY <1>4, <1>10, Constants
  <2>4. CASE lan.clk = 0
    <3>1. lan'.sta = "delay" /\ lan'.clk = 1
      BY <2>2, <2>3, <2>4
    <3>2. axis' = LastByte(s, n) /\ axis' # None /\ axis'.last
      <4>1. axis' = LastByte(s, n)
        BY <1>4, <1>10, <2>4
      <4>2. LastByte(s, n) # None /\ LastByte(s, n).last = TRUE
        <5>1. PICK f \in BOOLEAN : f = TRUE
          OBVIOUS
        <5>2. /\ [Byte(s, n, n) EXCEPT !.last = f] # None
              /\ [Byte(s, n, n) EXCEPT !.last = f].last = f
          BY <1>1, FlagFields
        <5>3. LastByte(s, n) = [Byte(s, n, n) EXCEPT !.last = f]
          BY <5>1 DEF LastByte
        <5>4. QED
          BY <5>1, <5>2, <5>3
      <4>3. QED
        BY <4>1, <4>2
    <3>3. Rests'
      BY <1>3, <3>2
    <3>4. 1 \in 0 .. DelayClocks
      BY <2>3
    <3>5. QED
      BY <2>2, <3>1, <3>2, <3>3, <3>4 DEF LanCarries
  <2>5. CASE lan.clk # 0
    <3>1. Rests'
      BY <1>3, <1>4, <1>10, <2>5
    <3>2. CASE lan.clk = DelayClocks
      <4>1. lan'.sta = "end" /\ lan'.clk = 0
        BY <2>2, <3>2
      <4>2. QED
        BY <2>2, <3>1, <4>1 DEF LanCarries
    <3>3. CASE lan.clk # DelayClocks
      <4>1. lan'.sta = "delay" /\ lan'.clk \in 0 .. DelayClocks /\ lan'.clk # 0 /\ lan'.clk # 1
        BY <2>2, <2>3, <2>5, <3>3
      <4>2. QED
        BY <2>2, <3>1, <4>1 DEF LanCarries
    <3>4. QED
      BY <3>2, <3>3
  <2>6. QED
    BY <2>4, <2>5
<1>11. CASE lan.sta = "end"
  <2>1. LanIs(lan', "done", lan.cnt, 0, lan.clk, lan.out, TRUE)
    BY <1>2, <1>11, LanStep
  <2>2. Between /\ lan'.sta = "done" /\ lan'.clk = 0
    BY <1>1, <1>3, <1>4, <1>11, <2>1 DEF LanIs
  <2>3. QED
    BY <2>2 DEF LanCarries
<1>12. lan.sta # "done"
  BY <1>4
<1>13. QED
  BY <1>1, <1>5, <1>6, <1>7, <1>8, <1>9, <1>10, <1>11, <1>12 DEF Stage

\* A UDP source has its ACK for more than one clock: it gives its bytes, and the FIFO and
\* lan_tx carry them, until lan_tx is done.
LEMMA SendsStep ==
    ASSUME TypeOK, Fifo, LanTx, History, axis' = lan.out,
           NEW b, NEW c, NEW s \in {"reply", "data"}, NEW n \in Nat, n > 0, b.cnt \in Nat,
           state = s, port' = s, last' = n, din' = b.out, c.r0, c.r1,
           Gives(b, c, s, n), Sends(b, s, n), ~lan.done
    PROVE  Sends(c, s, n)'
<1>1. /\ s \in Sender /\ lan.cnt \in Nat /\ lan.sta \in Stage
      /\ fifo \in Seq(Bytes) /\ Len(fifo) \in Nat
  BY LenProperties DEF TypeOK, Sender, Stage
<1>2. /\ last = n /\ port = s /\ LanCarries(s, n)
      /\ IF lan.sta \in {"delay", "end", "done"} THEN Drained(b) ELSE Fills(b, s, n)
  BY DEF Sends
<1>3. lan.sta # "done"
  BY <1>2 DEF LanCarries
<1>4. LanCarries(s, n)'
  <2>1. lan.sta = "packet" => FifoRead = Byte(s, lan.cnt + 1, n)
    BY <1>2, ReadIs
  <2>2. QED
    BY <1>2, <2>1, LanCarriesStep
<1>5. CASE lan.sta \in {"delay", "end"}
  <2>1. Drained(b)
    BY <1>2, <1>5
  <2>2. Drained(c)'
    <3>1. fifo' = <<>>
      BY <1>5, <2>1 DEF Drained, Fifo
    <3>2. din' = None /\ c.out = None /\ c.fsm # 2 /\ c.cnt = 0
      BY <2>1 DEF Drained, Gives
    <3>3. QED
      BY <3>1, <3>2 DEF Drained
  <2>3. lan'.sta \in {"delay", "end", "done"}
    BY <1>1, <1>2, <1>5, LanStep DEF LanIs
  <2>4. QED
    BY <1>4, <2>2, <2>3 DEF Sends
<1>6. CASE lan.sta \notin {"delay", "end", "done"}
  <2>1. Fills(b, s, n)
    BY <1>2, <1>6
  <2>2. lan.sta = "idle" => /\ lan'.cnt = lan.cnt
                            /\ lan'.sta \in {"idle", "start"}
                            /\ lan'.sta = "idle" \/ Len(fifo) > 0
    <3>1. SUFFICES ASSUME lan.sta = "idle"
                   PROVE  /\ lan'.cnt = lan.cnt
                          /\ lan'.sta \in {"idle", "start"}
                          /\ lan'.sta = "idle" \/ Len(fifo) > 0
      OBVIOUS
    <3>2. LanIs(lan', IF Starts THEN "start" ELSE "idle", lan.cnt, lan.words, lan.clk, lan.out, lan.done)
      BY <1>1, <1>2, <3>1, LanStep
    <3>3. Starts => Len(fifo) > 0
      BY <1>1, <1>2 DEF Starts
    <3>4. QED
      BY <3>2, <3>3 DEF LanIs
  <2>3. lan.sta = "packet" => /\ lan'.cnt = lan.cnt + 1
                              /\ lan'.sta = IF lan.cnt + 1 = n THEN "delay" ELSE "packet"
    <3>1. SUFFICES ASSUME lan.sta = "packet"
                   PROVE  /\ lan'.cnt = lan.cnt + 1
                          /\ lan'.sta = IF lan.cnt + 1 = n THEN "delay" ELSE "packet"
      OBVIOUS
    <3>2. LanIs(lan', IF lan.cnt < lan.words - 1 THEN "packet" ELSE "delay",
                lan.cnt + 1, lan.words, lan.clk,
                [FifoRead EXCEPT !.last = lan.cnt + 1 = lan.words], lan.done)
      BY <1>1, <1>2, <3>1, LanStep
    <3>3. lan.words = n /\ lan.cnt < n
      BY <1>2, <3>1 DEF LanCarries
    <3>4. lan'.cnt = lan.cnt + 1 /\ lan'.sta = IF lan.cnt < n - 1 THEN "packet" ELSE "delay"
      BY <3>2, <3>3 DEF LanIs
    <3>5. (lan.cnt < n - 1) <=> ~(lan.cnt + 1 = n)
      <4>1. PICK k \in Nat : k = lan.cnt
        BY <1>1
      <4>2. k < n
        BY <3>3, <4>1
      <4>3. (k < n - 1) <=> ~(k + 1 = n)
        BY <4>2
      <4>4. QED
        BY <4>1, <4>3
    <3>6. QED
      BY <3>4, <3>5
  <2>4. lan.sta \in {"start", "wait", "head"} =>
            lan'.cnt = lan.cnt /\ lan'.sta \in {"wait", "head", "packet"}
    <3>1. CASE lan.sta = "start"
      BY <1>1, <1>2, <3>1, LanStep DEF LanIs
    <3>2. CASE lan.sta = "wait"
      BY <1>1, <1>2, <3>2, LanStep DEF LanIs
    <3>3. CASE lan.sta = "head"
      BY <1>1, <1>2, <3>3, LanStep DEF LanIs
    <3>4. QED
      BY <3>1, <3>2, <3>3
  <2>5. lan'.cnt = IF lan.sta = "packet" THEN lan.cnt + 1 ELSE lan.cnt
    BY <1>1, <1>6, <2>2, <2>3, <2>4 DEF Stage
  <2>6. IF lan.sta = "packet" /\ lan.cnt + 1 = n
        THEN fifo' = <<>> /\ din' = None /\ c.out = None /\ c.fsm # 2 /\ c.cnt = 0
        ELSE Fills(c, s, n)'
    BY <1>1, <1>6, <2>1, <2>2, <2>5, FillStep
  <2>7. CASE lan.sta = "packet" /\ lan.cnt + 1 = n
    <3>1. lan'.sta = "delay" /\ Drained(c)'
      BY <2>3, <2>6, <2>7 DEF Drained
    <3>2. QED
      BY <1>4, <3>1 DEF Sends
  <2>8. CASE ~(lan.sta = "packet" /\ lan.cnt + 1 = n)
    <3>1. lan'.sta \notin {"delay", "end", "done"}
      BY <1>1, <1>6, <2>2, <2>3, <2>4, <2>8 DEF Stage
    <3>2. QED
      BY <1>4, <2>6, <2>8, <3>1 DEF Sends
  <2>9. QED
    BY <2>7, <2>8
<1>7. QED
  BY <1>3, <1>5, <1>6

\* A UDP source that has just got the line waits for its ACK to rise, and starts to send then.
LEMMA WaitsStep ==
    ASSUME TypeOK, Fifo, LanTx, History, axis' = lan.out,
           NEW b, NEW c, NEW s \in {"reply", "data"}, NEW n \in Nat, n > 0,
           state = s, port' = s, last' = n, din' = b.out, Waits(b),
           b.r0 \in BOOLEAN, b.r1 \in BOOLEAN, c.r0, c.r1 = b.r0,
           c.fsm = IF Rises(b) THEN 2 ELSE 1, c.req = b.req, c.cnt = b.cnt, c.out = b.out
    PROVE  ~lan.done /\ (IF Rises(b) THEN c.fsm = 2 /\ Sends(c, s, n)' ELSE Waits(c)')
<1>1. /\ b.fsm = 1 /\ b.req /\ b.cnt = 0 /\ b.out = None /\ ~(b.r0 /\ b.r1) /\ Rests
      /\ lan.sta = "idle" /\ ~lan.done /\ lan.clk = 0 /\ lan.cnt = 0 /\ lan.out = None
      /\ fifo = <<>> /\ din = None
  BY DEF Waits, LanQuiet
<1>2. Len(fifo) = 0 /\ last \in Nat
  BY <1>1, EmptySeq DEF TypeOK
<1>3. ~Starts
  BY <1>2 DEF Starts
<1>4. /\ lan'.sta = "idle" /\ ~lan'.done /\ lan'.clk = 0 /\ lan'.cnt = 0 /\ lan'.out = None
  BY <1>1, <1>3, LanStep DEF LanIs
<1>5. fifo' = <<>> /\ din' = None
  BY <1>1 DEF Fifo
<1>6. Rests'
  BY <1>1, RestsStep
<1>7. CASE Rises(b)
  <2>1. c.fsm = 2 /\ c.cnt = 0 /\ c.out = None /\ c.r0 /\ c.r1
    BY <1>1, <1>7 DEF Rises
  <2>2. LanCarries(s, n)'
    BY <1>4, <1>6 DEF LanCarries
  <2>3. Fills(c, s, n)'
    <3>1. Len(fifo') = 0
      BY <1>5, EmptySeq
    <3>2. Held(din') = 0 /\ Held(c.out) = 0
      BY <1>5, <2>1 DEF Held
    <3>3. lan'.cnt + Len(fifo') = 0
      BY <1>4, <3>1
    <3>4. QED
      BY <1>4, <1>5, <2>1, <3>1, <3>2, <3>3 DEF Fills
  <2>4. QED
    BY <1>1, <1>4, <1>7, <2>1, <2>2, <2>3 DEF Sends
<1>8. CASE ~Rises(b)
  <2>1. c.fsm = 1 /\ c.req /\ c.cnt = 0 /\ c.out = None /\ ~(c.r0 /\ c.r1)
    BY <1>1, <1>8 DEF Rises
  <2>2. QED
    BY <1>1, <1>4, <1>5, <1>6, <1>8, <2>1 DEF Waits, LanQuiet
<1>9. QED
  BY <1>7, <1>8
-----------------------------------------------------------------------------
(***************************************************************************)
(* Who does not send.                                                      *)
(***************************************************************************)
\* lan_tx stays without a frame when nothing comes to it.
LEMMA LanQuietStep ==
    ASSUME TypeOK, Fifo, LanTx, LanQuiet, din' = None, lan.sta = "idle" => ~Starts
    PROVE  LanQuiet' /\ (~lan.done => lan'.sta = "idle")
<1>1. /\ lan.sta \in {"idle", "done"} /\ (lan.done <=> lan.sta = "done")
      /\ lan.sta = "idle" => lan.clk = 0
      /\ lan.cnt = 0 /\ lan.out = None /\ fifo = <<>> /\ din = None
  BY DEF LanQuiet
<1>2. fifo' = <<>>
  BY <1>1 DEF Fifo
<1>3. CASE lan.sta = "idle"
  <2>1. LanIs(lan', "idle", lan.cnt, lan.words, lan.clk, lan.out, lan.done)
    BY <1>3, LanStep
  <2>2. QED
    BY <1>1, <1>2, <1>3, <2>1 DEF LanIs, LanQuiet
<1>4. CASE lan.sta = "done"
  <2>1. \/ LanIs(lan', "done", lan.cnt, lan.words, lan.clk + 1, lan.out, lan.done)
        \/ LanIs(lan', "idle", lan.cnt, lan.words, 0, lan.out, FALSE)
    BY <1>4, LanStep
  <2>2. QED
    BY <1>1, <1>2, <1>4, <2>1 DEF LanIs, LanQuiet
<1>5. QED
  BY <1>1, <1>3, <1>4

\* A reply is not sent without the line, and one that is asked for goes on being asked for.
LEMMA ReplyQuietStep ==
    ASSUME TypeOK, Reply, reply.fsm # 2, reply.req <=> reply.fsm = 1,
           reply.cnt = 0, reply.out = None, reply.r0 => reply.r1, state = "reply" => reply.r0
    PROVE  /\ ReplyQuiet'
           /\ reply.req => reply'.fsm = 1
           /\ state # "reply" => ~reply'.r0
<1>1. /\ reply.fsm \in 0 .. 2 /\ reply.r0 \in BOOLEAN /\ reply.r1 \in BOOLEAN
      /\ reply.req \in BOOLEAN
  BY DEF TypeOK, Asks
<1>2. ~Rises(reply)
  BY <1>1 DEF Rises
<1>3. /\ reply'.r0 <=> state = "reply"
      /\ reply'.r1 = reply.r0
      /\ reply.fsm = 0 =>
            /\ reply'.fsm \in 0 .. 1 /\ (reply'.req <=> reply'.fsm = 1)
            /\ reply'.cnt = reply.cnt /\ reply'.out = reply.out
      /\ reply.fsm = 1 =>
            /\ reply'.fsm = (IF Rises(reply) THEN 2 ELSE 1)
            /\ reply'.req = reply.req /\ reply'.cnt = reply.cnt /\ reply'.out = reply.out
  BY ReplyStep
<1>4. CASE reply.fsm = 0
  BY <1>1, <1>3, <1>4 DEF ReplyQuiet
<1>5. CASE reply.fsm = 1
  BY <1>1, <1>2, <1>3, <1>5 DEF ReplyQuiet
<1>6. QED
  BY <1>1, <1>4, <1>5

\* Nor is an image packet; and the packetizer does not wait for a tx_data_done that has come.
LEMMA DataQuietStep ==
    ASSUME TypeOK, Data, History, state # "data", DataQuiet
    PROVE  /\ DataQuiet' /\ data'.fsm # 3
           /\ data.req => data'.fsm = 1
           /\ ~data'.r0
<1>1. /\ data.fsm \in 0 .. 3 /\ data.r0 \in BOOLEAN /\ data.r1 \in BOOLEAN
      /\ data.req \in BOOLEAN
  BY DEF TypeOK
<1>2. ~Rises(data)
  BY <1>1 DEF Rises, DataQuiet
<1>3. /\ data'.r0 <=> state = "data"
      /\ data'.r1 = data.r0
      /\ data.fsm = 0 =>
            /\ \/ data'.fsm = 0 /\ ~data'.req
               \/ data'.fsm = 1 /\ data'.req /\ data'.size \in DataSizes
            /\ data'.cnt = data.cnt /\ data'.out = data.out
      /\ data.fsm = 1 =>
            /\ data'.fsm = (IF Rises(data) THEN 2 ELSE 1)
            /\ data'.req = data.req /\ data'.cnt = data.cnt /\ data'.out = data.out
      /\ data.fsm = 3 =>
            /\ data'.fsm = (IF txDone THEN 0 ELSE 3) /\ ~data'.req
            /\ data'.cnt = data.cnt /\ data'.out = data.out
  BY DataStep
<1>4. CASE data.fsm = 0
  BY <1>3, <1>4 DEF DataQuiet
<1>5. CASE data.fsm = 1
  BY <1>2, <1>3, <1>5 DEF DataQuiet
<1>6. CASE data.fsm = 3
  BY <1>3, <1>6 DEF DataQuiet
<1>7. data.fsm # 2
  BY DEF DataQuiet
<1>8. QED
  BY <1>1, <1>4, <1>5, <1>6, <1>7

\* ARP without the line.
LEMMA ArpQuietStep ==
    ASSUME TypeOK, Arp, arp.fsm # "send", arp.fsm = "wait" => arp.cnt = 0 /\ arp.out = None,
           arp.fsm = "wait" => arp.req,
           arp.r0 => arp.r1, state = "arp" => arp.r0
    PROVE  /\ ArpQuiet'
           /\ arp.fsm = "wait" => arp'.fsm = "wait"
           /\ arp'.fsm = "wait" => arp'.cnt = 0
           /\ arp.fsm = "idle" => arp'.cnt = 0
           /\ state # "arp" => ~arp'.r0
<1>1. arp.fsm \in {"idle", "wait", "send"} /\ arp.r0 \in BOOLEAN /\ arp.r1 \in BOOLEAN
  BY DEF TypeOK, Asks
<1>2. ~Rises(arp)
  BY <1>1 DEF Rises
<1>3. /\ arp'.r0 <=> state = "arp"
      /\ arp'.r1 = arp.r0
      /\ arp.fsm = "idle" =>
            /\ arp'.fsm \in {"idle", "wait"} /\ (arp'.req <=> arp'.fsm = "wait")
            /\ arp'.cnt = 0 /\ arp'.out = None
      /\ arp.fsm = "wait" =>
            /\ arp'.fsm = (IF Rises(arp) THEN "send" ELSE "wait")
            /\ arp'.req = arp.req /\ arp'.cnt = arp.cnt /\ arp'.out = arp.out
  BY ArpStep
<1>4. CASE arp.fsm = "idle"
  BY <1>1, <1>3, <1>4 DEF ArpQuiet
<1>5. CASE arp.fsm = "wait"
  BY <1>1, <1>2, <1>3, <1>5 DEF ArpQuiet
<1>6. QED
  BY <1>1, <1>4, <1>5

\* Ping without the line.
LEMMA IcmpQuietStep ==
    ASSUME TypeOK, Icmp, icmp.fsm # "send", icmp.req <=> icmp.fsm = "wait",
           icmp.cnt = 0, icmp.out = None, icmp.r0 => icmp.r1, state = "icmp" => icmp.r0
    PROVE  /\ IcmpQuiet'
           /\ icmp.req => icmp'.fsm = "wait"
           /\ state # "icmp" => ~icmp'.r0
<1>1. /\ icmp.fsm \in {"idle", "wait", "send"} /\ icmp.r0 \in BOOLEAN /\ icmp.r1 \in BOOLEAN
      /\ icmp.req \in BOOLEAN
  BY DEF TypeOK, Asks
<1>2. ~Rises(icmp)
  BY <1>1 DEF Rises
<1>3. /\ icmp'.r0 <=> state = "icmp"
      /\ icmp'.r1 = icmp.r0
      /\ icmp.fsm = "idle" =>
            /\ \/ icmp'.fsm = "idle" /\ icmp'.req = icmp.req
               \/ icmp'.fsm = "wait" /\ icmp'.req
            /\ icmp'.cnt = icmp.cnt /\ icmp'.out = icmp.out
      /\ icmp.fsm = "wait" =>
            /\ icmp'.fsm = (IF Rises(icmp) THEN "send" ELSE "wait")
            /\ icmp'.req = icmp.req /\ icmp'.cnt = icmp.cnt /\ icmp'.out = icmp.out
  BY IcmpStep
<1>4. CASE icmp.fsm = "idle"
  BY <1>1, <1>3, <1>4 DEF IcmpQuiet
<1>5. CASE icmp.fsm = "wait"
  BY <1>1, <1>2, <1>3, <1>5 DEF IcmpQuiet
<1>6. QED
  BY <1>1, <1>4, <1>5
-----------------------------------------------------------------------------
(***************************************************************************)
(* What is on the line.                                                    *)
(***************************************************************************)
\* A byte that follows the one before it in its frame, or a whole frame, keeps frames whole.
LEMMA WholeStep ==
    ASSUME History, NEW s \in Sender, NEW i \in Nat, NEW n \in Nat, NEW f \in BOOLEAN,
           f <=> i = n, axis' = [Byte(s, i, n) EXCEPT !.last = f],
           i = 0 => Rests, i > 0 => Newest = Byte(s, i - 1, n)
    PROVE  PacketsAreWhole'
<1>1. axis'.at = i /\ axis'.size = n /\ axis'.last = f
  BY FlagFields
<1>2. prev' = Newest
  BY HistoryStep
<1>3. ASSUME i = 0 PROVE prev' = None \/ prev'.last
  BY <1>2, <1>3 DEF Rests
<1>4. ASSUME i > 0 PROVE prev' = [axis' EXCEPT !.at = @ - 1, !.last = FALSE]
  <2>1. PICK k \in Nat : k = i - 1
    BY <1>4
  <2>2. PICK b : b = axis'
    OBVIOUS
  <2>3. Before(b) = Byte(s, k, n)
    <3>1. b = [Byte(s, i, n) EXCEPT !.last = f]
      BY <2>2
    <3>2. QED
      BY <2>1, <3>1, ByteBefore
  <2>4. prev' = Byte(s, k, n)
    BY <1>2, <1>4, <2>1
  <2>5. prev' = Before(axis')
    BY <2>2, <2>3, <2>4
  <2>6. QED
    BY <2>5 DEF Before
<1>5. PacketsAreWhole' <=>
        (axis' # None =>
            /\ axis'.at = 0 => prev' = None \/ prev'.last
            /\ axis'.at > 0 => prev' = [axis' EXCEPT !.at = @ - 1, !.last = FALSE]
            /\ axis'.last <=> axis'.at = axis'.size)
  BY DEF PacketsAreWhole
<1>6. QED
  BY <1>1, <1>3, <1>4, <1>5

\* What lan_tx puts on the line.
LEMMA LanWhole ==
    ASSUME TypeOK, History, axis' = lan.out, NEW s \in {"reply", "data"}, NEW n \in Nat, n > 0,
           LanCarries(s, n)
    PROVE  PacketsAreWhole'
<1>1. /\ s \in Sender /\ s \in Sender \cup {"stale"} /\ lan.cnt \in Nat /\ lan.clk \in Nat
  BY DEF TypeOK, Sender
<1>2. CASE lan.sta = "packet"
  <2>1. /\ lan.cnt < n /\ lan.out = Byte(s, lan.cnt, n)
        /\ IF lan.cnt = 0 THEN Rests ELSE axis = Byte(s, lan.cnt - 1, n)
    BY <1>2 DEF LanCarries
  <2>2. PICK i \in Nat, f \in BOOLEAN : i = lan.cnt /\ f = FALSE
    BY <1>1
  <2>3. axis' = [Byte(s, i, n) EXCEPT !.last = f]
    BY <1>1, <2>1, <2>2, FlagFields
  <2>4. i > 0 => Newest = Byte(s, i - 1, n)
    <3>1. SUFFICES ASSUME i > 0 PROVE Newest = Byte(s, i - 1, n)
      OBVIOUS
    <3>2. PICK j \in Nat : j = i - 1
      BY <3>1
    <3>3. axis = Byte(s, j, n)
      BY <2>1, <2>2, <3>1, <3>2
    <3>4. axis # None
      <4>1. Byte(s, j, n) \in Bytes
        BY <1>1, <3>2 DEF Byte, Bytes
      <4>2. QED
        BY <3>3, <4>1, TxAssumption
    <3>5. QED
      BY <3>2, <3>3, <3>4 DEF Newest
  <2>5. i < n /\ (i = 0 => Rests)
    BY <2>1, <2>2
  <2>6. f <=> i = n
    BY <2>2, <2>5
  <2>7. QED
    BY <1>1, <2>3, <2>4, <2>5, <2>6, WholeStep
<1>3. CASE lan.sta = "delay" /\ lan.clk = 0
  <2>1. lan.out = LastByte(s, n) /\ axis = Byte(s, n - 1, n)
    BY <1>3 DEF LanCarries
  <2>2. PICK f \in BOOLEAN : f = TRUE
    OBVIOUS
  <2>3. axis' = [Byte(s, n, n) EXCEPT !.last = f]
    BY <2>1, <2>2 DEF LastByte
  <2>4. Newest = Byte(s, n - 1, n)
    <3>1. PICK j \in Nat : j = n - 1
      OBVIOUS
    <3>2. axis = Byte(s, j, n)
      BY <2>1, <3>1
    <3>3. axis # None
      BY <1>1, <3>2, ByteFields
    <3>4. QED
      BY <2>1, <3>3 DEF Newest
  <2>5. (f <=> n = n) /\ (n = 0 => Rests) /\ s \in Sender /\ n \in Nat
    BY <1>1, <2>2
  <2>6. QED
    BY ONLY History, f \in BOOLEAN, <2>3, <2>4, <2>5, WholeStep
<1>4. CASE lan.sta # "packet" /\ ~(lan.sta = "delay" /\ lan.clk = 0)
  BY <1>4 DEF LanCarries, PacketsAreWhole
<1>5. QED
  BY <1>2, <1>3, <1>4

\* ARP and ping put their bytes on the line in order.
LEMMA PutsStep ==
    ASSUME History, NEW e, NEW s \in Sender, NEW n \in Nat, e.cnt \in Nat, e.cnt <= n + 1,
           n > 0, Puts(e, s, n), axis' = e.out
    PROVE  /\ PacketsAreWhole'
           /\ \A f : f.cnt = e.cnt + 1 /\ e.cnt <= n
                     /\ f.out = [Byte(s, e.cnt, n) EXCEPT !.last = e.cnt = n] => Puts(f, s, n)'
           /\ e.cnt = 0 \/ e.cnt = n + 1 => Rests'
<1>1. PICK k \in Nat : k = e.cnt
  BY e.cnt \in Nat
<1>2. /\ k = 0 => e.out = None /\ Rests
      /\ k = 1 => Rests
      /\ k > 0 => e.out = [Byte(s, k - 1, n) EXCEPT !.last = k - 1 = n]
      /\ k > 1 => axis = Byte(s, k - 2, n)
      /\ k <= n + 1
  BY <1>1 DEF Puts
<1>3. CASE k = 0
  <2>1. axis' = None /\ Rests
    BY <1>2, <1>3
  <2>2. Rests' /\ PacketsAreWhole'
    BY <2>1, RestsStep DEF PacketsAreWhole
  <2>3. ASSUME NEW f, f.cnt = e.cnt + 1,
               f.out = [Byte(s, e.cnt, n) EXCEPT !.last = e.cnt = n]
        PROVE  Puts(f, s, n)'
    <3>1. f.cnt = 1
      <4>1. f.cnt = k + 1
        BY <1>1, <2>3
      <4>2. QED
        BY <1>3, <4>1
    <3>2. f.out = [Byte(s, f.cnt - 1, n) EXCEPT !.last = f.cnt - 1 = n]
      <4>1. f.cnt - 1 = e.cnt
        BY <1>1, <1>3, <3>1
      <4>2. QED
        BY <2>3, <4>1
    <3>3. QED
      BY <2>2, <3>1, <3>2 DEF Puts
  <2>4. QED
    BY <1>1, <1>3, <2>2, <2>3
<1>4. CASE k > 0
  <2>1. PICK i \in Nat, g \in BOOLEAN : i = k - 1 /\ (g <=> i = n)
    <3>1. PICK i \in Nat : i = k - 1
      BY <1>4
    <3>2. PICK g \in BOOLEAN : g <=> i = n
      <4>1. (i = n) \in BOOLEAN
        OBVIOUS
      <4>2. QED
        BY <4>1, Zenon
    <3>3. QED
      BY <3>1, <3>2, Zenon
  <2>2. axis' = [Byte(s, i, n) EXCEPT !.last = g]
    <3>1. axis' = [Byte(s, i, n) EXCEPT !.last = i = n]
      BY <1>2, <1>4, <2>1
    <3>2. (i = n) = g
      BY <2>1
    <3>3. QED
      BY <3>1, <3>2
  <2>3. s \in Sender \cup {"stale"}
    OBVIOUS
  <2>4. axis' # None /\ axis'.last = g
    BY <2>2, <2>3, FlagFields
  <2>5. i = 0 => Rests
    BY <1>2, <1>4, <2>1
  <2>6. ASSUME i > 0 PROVE Newest = Byte(s, i - 1, n)
    <3>1. PICK j \in Nat : k > 1 /\ k - 2 = j /\ i - 1 = j
      BY <2>1, <2>6
    <3>2. axis = Byte(s, j, n)
      BY <1>2, <3>1
    <3>3. axis # None
      <4>1. Byte(s, j, n) \in Bytes
        BY <2>3, <3>1 DEF Byte, Bytes
      <4>2. QED
        BY <3>2, <4>1, TxAssumption
    <3>4. QED
      BY <3>1, <3>2, <3>3 DEF Newest
  <2>7. PacketsAreWhole'
    BY ONLY History, s \in Sender, i \in Nat, n \in Nat, g \in BOOLEAN,
            <2>1, <2>2, <2>5, <2>6, WholeStep
  <2>8. ASSUME NEW f, f.cnt = e.cnt + 1, e.cnt <= n,
               f.out = [Byte(s, e.cnt, n) EXCEPT !.last = e.cnt = n]
        PROVE  Puts(f, s, n)'
    <3>1. PICK m \in Nat : m = f.cnt /\ m = k + 1 /\ k <= n
      BY <1>1, <2>8
    <3>2. m - 1 = k /\ m - 2 = i /\ m > 1 /\ i # n
      BY <1>4, <2>1, <3>1
    <3>3. f.out = [Byte(s, m - 1, n) EXCEPT !.last = m - 1 = n]
      BY <1>1, <2>8, <3>2
    <3>4. axis' = Byte(s, m - 2, n)
      <4>1. ~g
        BY <2>1, <3>2
      <4>2. [Byte(s, i, n) EXCEPT !.last = g] = Byte(s, i, n)
        BY <2>1, <2>3, <4>1, FlagFields
      <4>3. QED
        BY <2>2, <3>2, <4>2
    <3>5. QED
      BY <3>1, <3>2, <3>3, <3>4 DEF Puts
  <2>9. ASSUME k = n + 1 PROVE Rests'
    <3>1. g
      <4>1. i = n
        BY <2>1, <2>9
      <4>2. QED
        BY <2>1, <4>1
    <3>2. QED
      BY <2>4, <3>1, RestsStep
  <2>10. QED
    BY <1>1, <1>4, <2>7, <2>8, <2>9
<1>5. QED
  BY <1>3, <1>4
-----------------------------------------------------------------------------
(***************************************************************************)
(* The invariant, by who has the line.                                     *)
(***************************************************************************)
\* lan_tx makes a header only for a UDP source.
LEMMA HeadHasPort ==
    ASSUME Inv
    PROVE  lan.sta = "head" => port \in Sender
<1>1. CASE state = "reply"
  BY <1>1 DEF Inv, HasLine, ReplyHasLine, Waits, Sends, Sender
<1>2. CASE state = "data"
  BY <1>2 DEF Inv, HasLine, DataHasLine, Waits, Sends, Sender
<1>3. CASE state \notin {"reply", "data"}
  BY <1>3 DEF Inv, OthersQuiet, LanQuiet
<1>4. QED
  BY <1>1, <1>2, <1>3

\* Every clock keeps the types.
LEMMA TypeStep ==
    ASSUME Inv, Next
    PROVE  TypeOK'
<1> USE DEF Inv, Next
<1>1. reply.out \in Out /\ data.out \in Out /\ arp.out \in Out /\ icmp.out \in Out /\ lan.out \in Out
      /\ din \in Out /\ axis \in Out /\ prev \in Out /\ data.size \in Nat /\ arp.req \in BOOLEAN
      /\ txDone \in BOOLEAN /\ unsent \in BOOLEAN /\ rushed \in BOOLEAN
      /\ lan.done \in BOOLEAN
  BY DEF TypeOK, Asks
<1>2. state' \in Sender \cup {"idle"}
  BY MuxStep, GrantIs DEF TypeOK, Sender
<1>3. last' \in Nat
  BY <1>1, MuxStep, Constants DEF TypeOK, Sender
<1>4. port' \in {None, "reply", "data"}
  BY MuxStep DEF TypeOK, Sender
<1>5. din' \in Out /\ axis' \in Out
  BY <1>1, MuxStep DEF TypeOK, Sender
<1>6. prev' \in Out
  BY <1>1 DEF History
<1>7. txDone' \in BOOLEAN
  BY <1>1, MuxStep DEF TypeOK, Sender
<1>8. unsent' \in BOOLEAN
  BY DEF History
<1>9. rushed' \in BOOLEAN
  BY <1>1, ArpStep DEF TypeOK
<1>10. reply' \in Asks(0 .. 2) /\ arp' \in Asks({"idle", "wait", "send"})
       /\ icmp' \in Asks({"idle", "wait", "send"})
  BY ReplyStep, ArpStep, IcmpStep
<1>11. data' \in [fsm : 0 .. 3, req : BOOLEAN, cnt : Nat, out : Out, size : Nat,
                  r0 : BOOLEAN, r1 : BOOLEAN]
  BY DataStep
<1>12. fifo' \in Seq(Bytes)
  BY FifoStep
<1>13. lan' \in [sta : {"idle", "start", "wait", "head", "packet", "delay", "end", "done"},
                 cnt : Nat, words : Nat, clk : Nat, out : Out, done : BOOLEAN]
  <2>1. lan' \in Lan
    BY HeadHasPort, LanStep
  <2>2. QED
    BY <2>1 DEF Lan, Stage
<1>14. QED
  BY <1>2, <1>3, <1>4, <1>5, <1>6, <1>7, <1>8, <1>9, <1>10, <1>11, <1>12, <1>13 DEF TypeOK

\* A packet that is asked for has its size, and the packetizer does not go on before its
\* packet is on the line.
LEMMA DataKeeps ==
    ASSUME Inv, Next
    PROVE  (data'.fsm = 1 => data'.size \in DataSizes) /\ DoneMeansSent'
<1>1. /\ data.fsm \in 0 .. 3 /\ txDone \in BOOLEAN
      /\ data.fsm = 1 => data.size \in DataSizes
      /\ data.fsm = 0 => ~unsent
  BY DEF Inv, TypeOK, DoneMeansSent
<1>2. unsent' <=> ((unsent /\ ~Sent("data")) \/ (data.fsm = 0 /\ data'.fsm = 1))
  BY DEF Next, History
<1>3. /\ data.fsm = 0 =>
            /\ \/ data'.fsm = 0 /\ ~data'.req
               \/ data'.fsm = 1 /\ data'.req /\ data'.size \in DataSizes
      /\ data.fsm # 0 => data'.size = data.size
      /\ data.fsm = 1 => data'.fsm = (IF Rises(data) THEN 2 ELSE 1)
      /\ data.fsm = 2 => data'.fsm \in 2 .. 3
      /\ data.fsm = 3 => data'.fsm = (IF txDone THEN 0 ELSE 3)
  BY DataStep DEF Inv, Next
<1>4. data.fsm = 3 => ~txDone \/ ~unsent
  BY DEF Inv, HasLine, OthersQuiet, DataHasLine, DataQuiet
<1>5. CASE data.fsm = 0
  BY <1>1, <1>2, <1>3, <1>5 DEF DoneMeansSent
<1>6. CASE data.fsm = 1
  BY <1>1, <1>3, <1>6 DEF DoneMeansSent
<1>7. CASE data.fsm = 2
  BY <1>3, <1>7 DEF DoneMeansSent
<1>8. CASE data.fsm = 3
  BY <1>1, <1>2, <1>3, <1>4, <1>8 DEF DoneMeansSent
<1>9. QED
  BY <1>1, <1>5, <1>6, <1>7, <1>8

\* The sources that do not have the line stay silent, except the one that gets it.
LEMMA OthersStay ==
    ASSUME Inv, Next
    PROVE  /\ state # "reply" => /\ ReplyQuiet' /\ ~reply'.r0
                                 /\ reply.req => reply'.fsm = 1
           /\ state # "data" => /\ DataQuiet' /\ ~data'.r0
                                /\ data.req => data'.fsm = 1
           /\ state # "arp" => /\ ArpQuiet' /\ ~arp'.r0
                               /\ arp.req => arp'.fsm = "wait" /\ arp'.cnt = 0
           /\ state # "icmp" => /\ IcmpQuiet' /\ ~icmp'.r0
                                /\ icmp.req => icmp'.fsm = "wait"
<1> USE DEF Inv, Next, OthersQuiet
<1>1. ASSUME state # "reply"
      PROVE  ReplyQuiet' /\ ~reply'.r0 /\ (reply.req => reply'.fsm = 1)
  BY <1>1, ReplyQuietStep DEF ReplyQuiet
<1>2. ASSUME state # "data"
      PROVE  DataQuiet' /\ ~data'.r0 /\ (data.req => data'.fsm = 1)
  BY <1>2, DataQuietStep
<1>3. ASSUME state # "arp"
      PROVE  ArpQuiet' /\ ~arp'.r0 /\ (arp.req => arp'.fsm = "wait" /\ arp'.cnt = 0)
  BY <1>3, ArpQuietStep DEF ArpQuiet
<1>4. ASSUME state # "icmp"
      PROVE  IcmpQuiet' /\ ~icmp'.r0 /\ (icmp.req => icmp'.fsm = "wait")
  BY <1>4, IcmpQuietStep DEF IcmpQuiet
<1>5. QED
  BY <1>1, <1>2, <1>3, <1>4

Keeps == HasLine' /\ OthersQuiet' /\ PacketsAreWhole'

\* The line is free.
LEMMA IdleStep ==
    ASSUME Inv, Next, state = "idle"
    PROVE  Keeps
<1>1. /\ state' = Grant /\ axis' = axis /\ din' = din
      /\ txDone' = (txDone /\ state' # "data")
  BY MuxStep DEF Inv, Next
<1>2. axis = None /\ Rests /\ LanQuiet
  BY DEF Inv, HasLine, OthersQuiet
<1>3. axis' = None /\ Rests' /\ PacketsAreWhole'
  BY <1>1, <1>2, RestsStep DEF Next, PacketsAreWhole
<1>4. LanQuiet' /\ (~lan.done => lan'.sta = "idle")
  <2>1. din' = None /\ ~Starts
    BY <1>1, <1>2 DEF LanQuiet, Starts
  <2>2. QED
    BY <1>2, <2>1, LanQuietStep DEF Inv, Next
<1>5. /\ ReplyQuiet' /\ ~reply'.r0
      /\ reply.req => reply'.fsm = 1
      /\ DataQuiet' /\ ~data'.r0
      /\ data.req => data'.fsm = 1
      /\ ArpQuiet' /\ ~arp'.r0
      /\ arp.req => arp'.fsm = "wait" /\ arp'.cnt = 0
      /\ IcmpQuiet' /\ ~icmp'.r0
      /\ icmp.req => icmp'.fsm = "wait"
  BY OthersStay
<1>6. /\ Grant = "reply" => reply.req /\ ~lan.done
      /\ Grant = "data" => data.req /\ ~lan.done
      /\ Grant = "arp" => arp.req
      /\ Grant = "icmp" => icmp.req
  BY GrantIs DEF Inv
<1>7. state' = "reply" => ReplyHasLine'
  BY <1>1, <1>3, <1>4, <1>5, <1>6 DEF ReplyHasLine, Waits, ReplyQuiet
<1>8. state' = "data" => DataHasLine'
  <2>1. SUFFICES ASSUME state' = "data" PROVE DataHasLine'
    OBVIOUS
  <2>2. data'.fsm = 1 /\ ~txDone'
    BY <1>1, <1>5, <1>6, <2>1
  <2>3. data'.size \in DataSizes
    BY <2>2, DataKeeps
  <2>4. Waits(data)'
    BY <1>1, <1>3, <1>4, <1>5, <1>6, <2>1, <2>2 DEF Waits, DataQuiet
  <2>5. QED
    BY <2>2, <2>3, <2>4 DEF DataHasLine
<1>9. state' = "arp" => ArpHasLine'
  BY <1>1, <1>3, <1>5, <1>6 DEF ArpHasLine, ArpQuiet
<1>10. state' = "icmp" => IcmpHasLine'
  BY <1>1, <1>3, <1>5, <1>6 DEF IcmpHasLine, IcmpQuiet
<1>11. HasLine'
  BY <1>3, <1>7, <1>8, <1>9, <1>10 DEF HasLine
<1>12. OthersQuiet'
  BY <1>4, <1>5 DEF OthersQuiet
<1>13. QED
  BY <1>3, <1>11, <1>12 DEF Keeps

\* The line is with a register reply.
LEMMA ReplyHasStep ==
    ASSUME Inv, Next, state = "reply"
    PROVE  Keeps
<1>1. TypeOK /\ Reply /\ Fifo /\ LanTx /\ History /\ ReplyHasLine
  BY DEF Inv, Next, HasLine
<1>2. /\ last' = ReplySize /\ port' = "reply" /\ din' = reply.out /\ axis' = lan.out
      /\ state' = IF lan.done THEN "idle" ELSE "reply"
  BY MuxStep DEF Inv, Next
<1>3. /\ DataQuiet' /\ ArpQuiet' /\ IcmpQuiet'
  BY OthersStay
<1>4. /\ reply'.r0 /\ reply'.r1 = reply.r0
      /\ reply.fsm = 0 =>
            /\ reply'.fsm \in 0 .. 1 /\ (reply'.req <=> reply'.fsm = 1)
            /\ reply'.cnt = reply.cnt /\ reply'.out = reply.out
      /\ reply.fsm = 1 =>
            /\ reply'.fsm = (IF Rises(reply) THEN 2 ELSE 1)
            /\ reply'.req = reply.req /\ reply'.cnt = reply.cnt /\ reply'.out = reply.out
      /\ reply.fsm = 2 => reply.cnt <= ReplySize
      /\ reply.fsm = 2 /\ reply.cnt < ReplySize =>
            /\ reply'.fsm = 2 /\ reply'.req = reply.req /\ reply'.cnt = reply.cnt + 1
            /\ reply'.out = Byte("reply", reply.cnt + 1, ReplySize)
      /\ reply.fsm = 2 /\ reply.cnt = ReplySize =>
            /\ reply'.fsm = 0 /\ ~reply'.req /\ reply'.cnt = 0 /\ reply'.out = None
  BY <1>1, ReplyStep
<1>5. /\ reply.fsm \in 0 .. 2 /\ reply.cnt \in Nat /\ reply.r0 \in BOOLEAN /\ reply.r1 \in BOOLEAN
      /\ reply.req \in BOOLEAN /\ ReplySize \in Nat /\ ReplySize > 0
  BY <1>1, Constants DEF TypeOK, Asks
<1>6. PICK b : b = reply
  OBVIOUS
<1>7. PICK c : c = reply'
  OBVIOUS
<1>8. CASE Waits(reply)
  <2>1. /\ reply.fsm = 1 /\ reply.req /\ lan.out = None /\ ~lan.done
    BY <1>8 DEF Waits, LanQuiet
  <2>2. Waits(b)
    BY <1>6, <1>8 DEF Waits
  <2>3. /\ c.r0 /\ c.r1 = b.r0 /\ b.r0 \in BOOLEAN /\ b.r1 \in BOOLEAN
        /\ c.fsm = (IF Rises(b) THEN 2 ELSE 1) /\ c.req = b.req /\ c.cnt = b.cnt /\ c.out = b.out
        /\ din' = b.out
    BY <1>2, <1>4, <1>5, <1>6, <1>7, <2>1 DEF Rises
  <2>4. IF Rises(b) THEN c.fsm = 2 /\ Sends(c, "reply", ReplySize)' ELSE Waits(c)'
    BY <1>1, <1>2, <1>5, <2>2, <2>3, WaitsStep
  <2>5. ReplyHasLine'
    <3>1. CASE Rises(b)
      <4>1. Sends(reply, "reply", ReplySize)'
        BY <1>7, <2>4, <3>1 DEF Sends, Fills, Drained
      <4>2. reply'.req <=> reply'.fsm # 0
        BY <1>6, <1>7, <2>1, <2>3, <2>4, <3>1
      <4>3. QED
        BY <4>1, <4>2 DEF ReplyHasLine
    <3>2. CASE ~Rises(b)
      <4>1. Waits(reply)'
        BY <1>7, <2>4, <3>2 DEF Waits
      <4>2. QED
        BY <4>1 DEF ReplyHasLine
    <3>3. QED
      BY <3>1, <3>2
  <2>6. state' = "reply" /\ PacketsAreWhole'
    BY <1>2, <2>1 DEF PacketsAreWhole
  <2>7. QED
    BY <1>3, <2>5, <2>6 DEF Keeps, HasLine, OthersQuiet
<1>9. CASE Sends(reply, "reply", ReplySize) /\ (reply.req <=> reply.fsm # 0)
  <2>1. reply.r0 /\ reply.r1 /\ LanCarries("reply", ReplySize)
    BY <1>9 DEF Sends
  <2>2. PacketsAreWhole'
    BY <1>1, <1>2, <1>5, <2>1, LanWhole
  <2>3. CASE ~lan.done
    <3>1. Gives(b, c, "reply", ReplySize)
      BY <1>4, <1>5, <1>6, <1>7, <2>1 DEF Gives, Rises
    <3>2. Sends(b, "reply", ReplySize)
      BY <1>6, <1>9 DEF Sends, Fills, Drained
    <3>3. c.r0 /\ c.r1 /\ b.cnt \in Nat /\ din' = b.out
      BY <1>2, <1>4, <1>5, <1>6, <1>7, <2>1
    <3>4. Sends(c, "reply", ReplySize)'
      BY <1>1, <1>2, <1>5, <2>3, <3>1, <3>2, <3>3, SendsStep
    <3>5. Sends(reply, "reply", ReplySize)'
      BY <1>7, <3>4 DEF Sends, Fills, Drained
    <3>6. reply'.req <=> reply'.fsm # 0
      BY <1>4, <1>5, <1>9, <2>1 DEF Rises
    <3>7. state' = "reply" /\ ReplyHasLine'
      BY <1>2, <2>3, <3>5, <3>6 DEF ReplyHasLine
    <3>8. QED
      BY <1>3, <2>2, <3>7 DEF Keeps, HasLine, OthersQuiet
  <2>4. CASE lan.done
    <3>1. lan.sta = "done" /\ lan.cnt = 0 /\ lan.out = None /\ Rests /\ Drained(reply)
      BY <1>9, <2>4 DEF Sends, LanCarries
    <3>2. LanQuiet /\ din' = None
      BY <1>2, <2>4, <3>1 DEF LanQuiet, Drained
    <3>3. LanQuiet'
      BY <1>1, <3>1, <3>2, LanQuietStep
    <3>4. ReplyQuiet'
      BY <1>1, <1>5, <1>9, <2>1, <3>1, ReplyQuietStep DEF Drained
    <3>5. state' = "idle" /\ axis' = None /\ Rests'
      BY <1>1, <1>2, <2>4, <3>1, RestsStep
    <3>6. QED
      BY <1>3, <2>2, <3>3, <3>4, <3>5 DEF Keeps, HasLine, OthersQuiet
  <2>5. QED
    BY <2>3, <2>4
<1>10. QED
  BY <1>1, <1>8, <1>9 DEF ReplyHasLine

\* The line is with an image packet.
LEMMA DataHasStep ==
    ASSUME Inv, Next, state = "data"
    PROVE  Keeps
<1>1. TypeOK /\ Data /\ Fifo /\ LanTx /\ History /\ DataHasLine
  BY DEF Inv, Next, HasLine
<1>2. PICK n : n = data.size
  OBVIOUS
<1>3. /\ n \in Nat /\ n > 0 /\ n < ProgFull /\ ProgFull \in Nat /\ n \in DataSizes
      /\ ~txDone /\ data.fsm # 0
  BY <1>1, <1>2, Constants DEF DataHasLine
<1>4. /\ last' = n /\ port' = "data" /\ din' = data.out /\ axis' = lan.out
      /\ state' = IF lan.done THEN "idle" ELSE "data"
      /\ txDone' = (txDone \/ lan.done)
  BY <1>2, MuxStep DEF Inv, Next
<1>5. /\ ReplyQuiet' /\ ArpQuiet' /\ IcmpQuiet'
  BY OthersStay
<1>6. /\ data'.r0 /\ data'.r1 = data.r0 /\ data'.size = n
      /\ data.fsm = 1 =>
            /\ data'.fsm = (IF Rises(data) THEN 2 ELSE 1)
            /\ data'.req = data.req /\ data'.cnt = data.cnt /\ data'.out = data.out
      /\ data.fsm = 2 /\ Len(fifo) < ProgFull /\ data.cnt < n =>
            /\ data'.fsm = 2 /\ data'.cnt = data.cnt + 1
            /\ data'.out = Byte("data", data.cnt + 1, n)
      /\ data.fsm = 2 /\ ~(Len(fifo) < ProgFull /\ data.cnt < n) =>
            /\ data'.fsm = 3 /\ data'.cnt = 0 /\ data'.out = None
      /\ data.fsm = 3 =>
            /\ data'.fsm = 3 /\ ~data'.req
            /\ data'.cnt = data.cnt /\ data'.out = data.out
  BY <1>1, <1>2, <1>3, DataStep
<1>7. /\ data.fsm \in 1 .. 3 /\ data.cnt \in Nat /\ data.r0 \in BOOLEAN /\ data.r1 \in BOOLEAN
      /\ data.req \in BOOLEAN /\ lan.clk \in Nat /\ lan.cnt \in Nat /\ lan.sta \in Stage
      /\ Len(fifo) \in Nat
  BY <1>1, <1>3, LenProperties DEF TypeOK, Stage
<1>8. PICK b : b = data
  OBVIOUS
<1>9. PICK c : c = data'
  OBVIOUS
<1>10. CASE Waits(data)
  <2>1. /\ data.fsm = 1 /\ data.req /\ lan.out = None /\ ~lan.done
    BY <1>10 DEF Waits, LanQuiet
  <2>2. Waits(b)
    BY <1>8, <1>10 DEF Waits
  <2>3. /\ c.r0 /\ c.r1 = b.r0 /\ b.r0 \in BOOLEAN /\ b.r1 \in BOOLEAN
        /\ c.fsm = (IF Rises(b) THEN 2 ELSE 1) /\ c.req = b.req /\ c.cnt = b.cnt /\ c.out = b.out
        /\ din' = b.out
    BY <1>4, <1>6, <1>7, <1>8, <1>9, <2>1 DEF Rises
  <2>4. IF Rises(b) THEN c.fsm = 2 /\ Sends(c, "data", n)' ELSE Waits(c)'
    BY <1>1, <1>3, <1>4, <2>2, <2>3, WaitsStep
  <2>5. state' = "data" /\ ~txDone' /\ PacketsAreWhole'
    BY <1>3, <1>4, <2>1 DEF PacketsAreWhole
  <2>6. DataHasLine'
    <3>1. CASE Rises(b)
      <4>1. Sends(data, "data", n)'
        BY <1>9, <2>4, <3>1 DEF Sends, Fills, Drained
      <4>2. lan'.sta = "idle"
        <5>1. Len(fifo) = 0 /\ lan.sta = "idle"
          BY <1>10, EmptySeq DEF Waits, LanQuiet
        <5>2. ~Starts
          BY <5>1, state = "data" DEF Starts
        <5>3. QED
          BY <1>1, <5>1, <5>2, LanStep DEF LanIs
      <4>3. data'.fsm = 2
        BY <1>9, <2>4, <3>1
      <4>4. Sends(data, "data", data.size)'
        BY <1>6, <4>1
      <4>5. QED
        BY <1>3, <1>6, <2>5, <4>2, <4>3, <4>4 DEF DataHasLine
    <3>2. CASE ~Rises(b)
      <4>1. Waits(data)'
        BY <1>9, <2>4, <3>2 DEF Waits
      <4>2. data'.fsm = 1
        BY <1>9, <2>3, <3>2
      <4>3. QED
        BY <1>3, <1>6, <2>5, <4>1, <4>2 DEF DataHasLine
    <3>3. QED
      BY <3>1, <3>2
  <2>7. QED
    BY <1>5, <2>5, <2>6 DEF Keeps, HasLine, OthersQuiet
<1>11. CASE /\ Sends(data, "data", n)
            /\ data.fsm # 1
            /\ lan.sta \in {"end", "done"} \/ (lan.sta = "delay" /\ lan.clk > 1) => ~unsent
  <2>1. data.r0 /\ data.r1 /\ LanCarries("data", n)
    BY <1>11 DEF Sends
  <2>2. PacketsAreWhole'
    BY <1>1, <1>3, <1>4, <2>1, LanWhole
  <2>3. unsent' => unsent /\ ~Sent("data")
    BY <1>1, <1>3 DEF History
  <2>4. CASE ~lan.done
    <3>1. Gives(b, c, "data", n)
      <4>1. ASSUME data.fsm = 2 PROVE Len(fifo) < ProgFull /\ data.cnt <= n
        <5>1. Fills(data, "data", n)
          BY <1>11, <4>1 DEF Sends, Drained
        <5>2. lan.cnt + Len(fifo) <= n
          BY <5>1 DEF Fills
        <5>3. Len(fifo) < ProgFull
          BY <1>3, <1>7, <5>2
        <5>4. data.cnt <= n
          <6>1. PICK k \in Nat, h \in 0 .. 1, g \in 0 .. 1 :
                  k = lan.cnt + Len(fifo) /\ h = Held(din) /\ g = Held(data.out)
            BY <1>7 DEF Held
          <6>2. /\ din # None => k < n
                /\ data.out # None => k + h < n
                /\ data.cnt = (k + h) + g
                /\ k <= n
            BY <4>1, <5>1, <6>1 DEF Fills
          <6>3. /\ h = 1 => din # None
                /\ g = 1 => data.out # None
            BY <6>1 DEF Held
          <6>4. QED
            BY <1>3, <6>1, <6>2, <6>3
        <5>5. QED
          BY <5>3, <5>4
      <4>2. QED
        BY <1>3, <1>6, <1>7, <1>8, <1>9, <1>11, <4>1 DEF Gives
    <3>2. Sends(b, "data", n)
      BY <1>8, <1>11 DEF Sends, Fills, Drained
    <3>3. c.r0 /\ c.r1 /\ b.cnt \in Nat /\ din' = b.out
      BY <1>4, <1>6, <1>7, <1>8, <1>9, <2>1
    <3>4. Sends(c, "data", n)'
      BY <1>1, <1>3, <1>4, <2>4, <3>1, <3>2, <3>3, SendsStep
    <3>5. Sends(data, "data", n)'
      BY <1>9, <3>4 DEF Sends, Fills, Drained
    <3>6. Sends(data, "data", data.size)'
      BY <1>6, <3>5
    <3>7. lan'.sta \in {"end", "done"} \/ (lan'.sta = "delay" /\ lan'.clk > 1) => ~unsent'
      <4>1. lan.sta = "head" => port \in Sender
        BY HeadHasPort
      <4>2. CASE lan.sta = "delay"
        <5>1. CASE lan.clk = 0
          <6>1. lan'.sta = "delay" /\ lan'.clk = 1
            BY <1>1, <4>2, <5>1, LanStep, Constants DEF LanIs
          <6>2. QED
            BY <6>1
        <5>2. CASE lan.clk = 1
          <6>1. axis = LastByte("data", n)
            BY <2>1, <4>2, <5>2 DEF LanCarries
          <6>2. PICK f \in BOOLEAN : f = TRUE
            OBVIOUS
          <6>3. axis = [Byte("data", n, n) EXCEPT !.last = f]
            BY <6>1, <6>2 DEF LastByte
          <6>4. "data" \in Sender \cup {"stale"}
            BY DEF Sender
          <6>5. axis # None /\ axis.of = "data" /\ axis.last = f
            BY <1>3, <6>3, <6>4, FlagFields
          <6>6. Sent("data")
            BY <6>2, <6>5 DEF Sent
          <6>7. QED
            BY <2>3, <6>6
        <5>3. CASE lan.clk > 1
          BY <1>11, <2>3, <4>2, <5>3
        <5>4. lan.clk = 0 \/ lan.clk = 1 \/ lan.clk > 1
          BY <1>7
        <5>5. QED
          BY <5>1, <5>2, <5>3, <5>4
      <4>3. CASE lan.sta \in {"end", "done"}
        BY <1>11, <2>3, <4>3
      <4>4. CASE lan.sta = "idle"
        BY <1>1, <4>1, <4>4, LanStep DEF LanIs
      <4>5. CASE lan.sta = "start"
        BY <1>1, <4>1, <4>5, LanStep DEF LanIs
      <4>6. CASE lan.sta = "wait"
        <5>1. lan'.sta \in {"wait", "head"}
          BY <1>1, <4>1, <4>6, LanStep DEF LanIs
        <5>2. QED
          BY <5>1
      <4>7. CASE lan.sta = "head"
        BY <1>1, <4>1, <4>7, LanStep DEF LanIs
      <4>8. CASE lan.sta = "packet"
        <5>1. lan'.sta \in {"packet", "delay"} /\ lan'.clk = lan.clk
          BY <1>1, <4>1, <4>8, LanStep DEF LanIs
        <5>2. lan.clk = 0
          BY <2>1, <4>8 DEF LanCarries
        <5>3. QED
          BY <5>1, <5>2
      <4>9. QED
        BY <1>7, <4>2, <4>3, <4>4, <4>5, <4>6, <4>7, <4>8 DEF Stage
    <3>8. state' = "data" /\ ~txDone' /\ data'.fsm \in 2 .. 3
      <4>1. data'.fsm \in 2 .. 3
        BY <1>6, <1>7, <1>11
      <4>2. QED
        BY <1>3, <1>4, <2>4, <4>1
    <3>9. DataHasLine'
      BY <1>3, <1>6, <3>6, <3>7, <3>8 DEF DataHasLine
    <3>10. QED
      BY <1>5, <2>2, <3>8, <3>9 DEF Keeps, HasLine, OthersQuiet
  <2>5. CASE lan.done
    <3>1. lan.sta = "done" /\ lan.cnt = 0 /\ lan.out = None /\ Rests /\ Drained(data)
      BY <1>11, <2>5 DEF Sends, LanCarries
    <3>2. LanQuiet /\ din' = None
      BY <1>4, <2>5, <3>1 DEF LanQuiet, Drained
    <3>3. LanQuiet'
      BY <1>1, <3>1, <3>2, LanQuietStep
    <3>4. data.fsm = 3 /\ data.cnt = 0 /\ data.out = None
      BY <1>7, <1>11, <3>1 DEF Drained
    <3>5. ~unsent' /\ txDone'
      BY <1>4, <1>11, <2>3, <2>5, <3>1
    <3>6. DataQuiet'
      BY <1>6, <2>1, <3>4, <3>5 DEF DataQuiet
    <3>7. state' = "idle" /\ axis' = None /\ Rests'
      BY <1>1, <1>4, <2>5, <3>1, RestsStep
    <3>8. QED
      BY <1>5, <2>2, <3>3, <3>6, <3>7 DEF Keeps, HasLine, OthersQuiet
  <2>6. QED
    BY <2>4, <2>5
<1>12. QED
  BY <1>1, <1>2, <1>10, <1>11 DEF DataHasLine

\* The line is with ARP.
LEMMA ArpHasStep ==
    ASSUME Inv, Next, state = "arp"
    PROVE  Keeps
<1>1. TypeOK /\ Arp /\ Fifo /\ LanTx /\ History /\ ArpHasLine /\ LanQuiet
  BY DEF Inv, Next, HasLine, OthersQuiet
<1>2. axis' = arp.out /\ state' = (IF arp.req THEN "arp" ELSE "idle") /\ din' = din
  BY MuxStep DEF Inv, Next
<1>3. ReplyQuiet' /\ DataQuiet' /\ IcmpQuiet'
  BY OthersStay
<1>4. LanQuiet'
  <2>1. din' = None /\ ~Starts
    BY <1>1, <1>2 DEF LanQuiet, Starts
  <2>2. QED
    BY <1>1, <2>1, LanQuietStep
<1>5. /\ arp'.r0 /\ arp'.r1 = arp.r0
      /\ arp.fsm = "idle" =>
            /\ arp'.fsm \in {"idle", "wait"} /\ (arp'.req <=> arp'.fsm = "wait")
            /\ arp'.cnt = 0 /\ arp'.out = None
      /\ arp.fsm = "wait" =>
            /\ arp'.fsm = (IF Rises(arp) THEN "send" ELSE "wait")
            /\ arp'.req = arp.req /\ arp'.cnt = arp.cnt /\ arp'.out = arp.out
      /\ arp.fsm = "send" =>
            /\ arp'.fsm = (IF arp.cnt = ArpSize THEN "idle" ELSE "send")
            /\ arp'.req = arp.req /\ arp'.cnt = arp.cnt + 1
            /\ arp'.out = [Byte("arp", arp.cnt, ArpSize) EXCEPT !.last = arp.cnt = ArpSize]
  BY <1>1, ArpStep
<1>6. /\ arp.fsm \in {"idle", "wait", "send"} /\ arp.cnt \in Nat /\ arp.req \in BOOLEAN
      /\ arp.r0 \in BOOLEAN /\ arp.r1 \in BOOLEAN /\ ArpSize \in Nat /\ ArpSize > 0
      /\ "arp" \in Sender
  BY <1>1, Constants DEF TypeOK, Asks, Sender
<1>7. CASE /\ arp.fsm = "wait" /\ arp.req
           /\ arp.cnt = 0 /\ arp.out = None /\ Rests
           /\ ~(arp.r0 /\ arp.r1)
  <2>1. axis' = None /\ Rests' /\ PacketsAreWhole' /\ state' = "arp"
    BY <1>1, <1>2, <1>7, RestsStep DEF PacketsAreWhole
  <2>2. CASE Rises(arp)
    <3>1. /\ arp'.fsm = "send" /\ arp'.req /\ arp'.cnt = 0 /\ arp'.out = None /\ arp'.r0 /\ arp'.r1
      BY <1>5, <1>7, <2>2 DEF Rises
    <3>2. Puts(arp, "arp", ArpSize)'
      BY <2>1, <3>1 DEF Puts
    <3>3. ArpHasLine'
      BY <1>6, <3>1, <3>2 DEF ArpHasLine
    <3>4. QED
      BY <1>3, <1>4, <2>1, <3>3 DEF Keeps, HasLine, OthersQuiet
  <2>3. CASE ~Rises(arp)
    <3>1. /\ arp'.fsm = "wait" /\ arp'.req /\ arp'.cnt = 0 /\ arp'.out = None
          /\ ~(arp'.r0 /\ arp'.r1)
      BY <1>5, <1>7, <2>3 DEF Rises
    <3>2. ArpHasLine'
      BY <2>1, <3>1 DEF ArpHasLine
    <3>3. QED
      BY <1>3, <1>4, <2>1, <3>2 DEF Keeps, HasLine, OthersQuiet
  <2>4. QED
    BY <2>2, <2>3
<1>8. CASE /\ arp.r0 /\ arp.r1 /\ arp.req
           /\ arp.fsm = "send" /\ arp.cnt <= ArpSize /\ Puts(arp, "arp", ArpSize)
  <2>1. PICK e : e = arp
    OBVIOUS
  <2>2. PICK f : f = arp'
    OBVIOUS
  <2>3. /\ e.cnt \in Nat /\ e.cnt <= ArpSize /\ e.cnt <= ArpSize + 1 /\ axis' = e.out
        /\ Puts(e, "arp", ArpSize)
    BY <1>2, <1>6, <1>8, <2>1 DEF Puts
  <2>4. /\ f.cnt = e.cnt + 1 /\ f.out = [Byte("arp", e.cnt, ArpSize) EXCEPT !.last = e.cnt = ArpSize]
    BY <1>5, <1>8, <2>1, <2>2
  <2>5. PacketsAreWhole' /\ Puts(f, "arp", ArpSize)'
    BY <1>1, <1>6, <2>3, <2>4, PutsStep
  <2>6. Puts(arp, "arp", ArpSize)'
    BY <2>2, <2>5 DEF Puts
  <2>7. /\ arp'.r0 /\ arp'.r1 /\ arp'.req /\ state' = "arp"
        /\ arp'.fsm = (IF arp.cnt = ArpSize THEN "idle" ELSE "send")
    BY <1>2, <1>5, <1>8
  <2>8. arp'.cnt = arp.cnt + 1
    BY <1>5, <1>8
  <2>9. IF arp.cnt = ArpSize THEN arp'.cnt = ArpSize + 1 ELSE arp'.cnt <= ArpSize
    <3>1. PICK k \in Nat : k = arp.cnt
      BY <1>6
    <3>2. PICK m : m = arp'.cnt
      OBVIOUS
    <3>3. m = k + 1 /\ k <= ArpSize
      BY <1>8, <2>8, <3>1, <3>2
    <3>4. IF k = ArpSize THEN m = ArpSize + 1 ELSE m <= ArpSize
      BY <1>6, <3>1, <3>3
    <3>5. QED
      BY <3>1, <3>2, <3>4
  <2>10. ArpHasLine'
    BY <2>6, <2>7, <2>9 DEF ArpHasLine
  <2>11. QED
    BY <1>3, <1>4, <2>5, <2>7, <2>10 DEF Keeps, HasLine, OthersQuiet
<1>9. CASE /\ arp.r0 /\ arp.r1 /\ arp.req
           /\ arp.fsm = "idle" /\ arp.cnt = ArpSize + 1 /\ Puts(arp, "arp", ArpSize)
  <2>1. PICK e : e = arp
    OBVIOUS
  <2>2. /\ e.cnt \in Nat /\ e.cnt = ArpSize + 1 /\ e.cnt <= ArpSize + 1 /\ axis' = e.out
        /\ Puts(e, "arp", ArpSize)
    BY <1>2, <1>6, <1>9, <2>1 DEF Puts
  <2>3. PacketsAreWhole' /\ Rests'
    BY <1>1, <1>6, <2>2, PutsStep
  <2>4. ArpHasLine' /\ state' = "arp"
    BY <1>2, <1>5, <1>9, <2>3 DEF ArpHasLine
  <2>5. QED
    BY <1>3, <1>4, <2>3, <2>4 DEF Keeps, HasLine, OthersQuiet
<1>10. CASE /\ arp.r0 /\ arp.r1
            /\ arp.fsm # "send" /\ (arp.req <=> arp.fsm = "wait")
            /\ arp.cnt = 0 /\ arp.out = None /\ Rests
  <2>1. axis' = None /\ Rests' /\ PacketsAreWhole'
    BY <1>1, <1>2, <1>10, RestsStep DEF PacketsAreWhole
  <2>2. CASE arp.fsm = "wait"
    <3>1. /\ arp'.fsm = "wait" /\ arp'.req /\ arp'.cnt = 0 /\ arp'.out = None /\ arp'.r0 /\ arp'.r1
          /\ state' = "arp"
      BY <1>2, <1>5, <1>10, <2>2 DEF Rises
    <3>2. ArpHasLine'
      BY <2>1, <3>1 DEF ArpHasLine
    <3>3. QED
      BY <1>3, <1>4, <2>1, <3>1, <3>2 DEF Keeps, HasLine, OthersQuiet
  <2>3. CASE arp.fsm = "idle"
    <3>1. /\ arp'.fsm \in {"idle", "wait"} /\ (arp'.req <=> arp'.fsm = "wait")
          /\ arp'.cnt = 0 /\ arp'.out = None /\ arp'.r0 /\ arp'.r1 /\ state' = "idle"
      BY <1>2, <1>5, <1>10, <2>3
    <3>2. ArpQuiet'
      BY <3>1 DEF ArpQuiet
    <3>3. QED
      BY <1>3, <1>4, <2>1, <3>1, <3>2 DEF Keeps, HasLine, OthersQuiet
  <2>4. QED
    BY <1>6, <1>10, <2>2, <2>3
<1>11. QED
  BY <1>1, <1>7, <1>8, <1>9, <1>10 DEF ArpHasLine

\* The line is with ping.
LEMMA IcmpHasStep ==
    ASSUME Inv, Next, state = "icmp"
    PROVE  Keeps
<1>1. TypeOK /\ Icmp /\ Fifo /\ LanTx /\ History /\ IcmpHasLine /\ LanQuiet
  BY DEF Inv, Next, HasLine, OthersQuiet
<1>2. axis' = icmp.out /\ state' = (IF icmp.req THEN "icmp" ELSE "idle") /\ din' = din
  BY MuxStep DEF Inv, Next
<1>3. ReplyQuiet' /\ DataQuiet' /\ ArpQuiet'
  BY OthersStay
<1>4. LanQuiet'
  <2>1. din' = None /\ ~Starts
    BY <1>1, <1>2 DEF LanQuiet, Starts
  <2>2. QED
    BY <1>1, <2>1, LanQuietStep
<1>5. /\ icmp'.r0 /\ icmp'.r1 = icmp.r0
      /\ icmp.fsm = "idle" =>
            /\ \/ icmp'.fsm = "idle" /\ icmp'.req = icmp.req
               \/ icmp'.fsm = "wait" /\ icmp'.req
            /\ icmp'.cnt = icmp.cnt /\ icmp'.out = icmp.out
      /\ icmp.fsm = "wait" =>
            /\ icmp'.fsm = (IF Rises(icmp) THEN "send" ELSE "wait")
            /\ icmp'.req = icmp.req /\ icmp'.cnt = icmp.cnt /\ icmp'.out = icmp.out
      /\ icmp.fsm = "send" /\ icmp.cnt <= IcmpSize =>
            /\ icmp'.fsm = "send" /\ icmp'.req = icmp.req /\ icmp'.cnt = icmp.cnt + 1
            /\ icmp'.out = [Byte("icmp", icmp.cnt, IcmpSize) EXCEPT !.last = icmp.cnt = IcmpSize]
      /\ icmp.fsm = "send" /\ icmp.cnt > IcmpSize =>
            /\ icmp'.fsm = "idle" /\ ~icmp'.req /\ icmp'.cnt = 0 /\ icmp'.out = None
  BY <1>1, IcmpStep
<1>6. /\ icmp.fsm \in {"idle", "wait", "send"} /\ icmp.cnt \in Nat /\ icmp.req \in BOOLEAN
      /\ icmp.r0 \in BOOLEAN /\ icmp.r1 \in BOOLEAN /\ IcmpSize \in Nat /\ IcmpSize > 0
      /\ "icmp" \in Sender
  BY <1>1, Constants DEF TypeOK, Asks, Sender
<1>7. CASE /\ icmp.fsm = "wait" /\ icmp.req
           /\ icmp.cnt = 0 /\ icmp.out = None /\ Rests
           /\ ~(icmp.r0 /\ icmp.r1)
  <2>1. axis' = None /\ Rests' /\ PacketsAreWhole' /\ state' = "icmp"
    BY <1>1, <1>2, <1>7, RestsStep DEF PacketsAreWhole
  <2>2. CASE Rises(icmp)
    <3>1. /\ icmp'.fsm = "send" /\ icmp'.req /\ icmp'.cnt = 0 /\ icmp'.out = None
          /\ icmp'.r0 /\ icmp'.r1
      BY <1>5, <1>7, <2>2 DEF Rises
    <3>2. Puts(icmp, "icmp", IcmpSize)'
      BY <2>1, <3>1 DEF Puts
    <3>3. IcmpHasLine'
      BY <1>6, <3>1, <3>2 DEF IcmpHasLine
    <3>4. QED
      BY <1>3, <1>4, <2>1, <3>3 DEF Keeps, HasLine, OthersQuiet
  <2>3. CASE ~Rises(icmp)
    <3>1. /\ icmp'.fsm = "wait" /\ icmp'.req /\ icmp'.cnt = 0 /\ icmp'.out = None
          /\ ~(icmp'.r0 /\ icmp'.r1)
      BY <1>5, <1>7, <2>3 DEF Rises
    <3>2. IcmpHasLine'
      BY <2>1, <3>1 DEF IcmpHasLine
    <3>3. QED
      BY <1>3, <1>4, <2>1, <3>2 DEF Keeps, HasLine, OthersQuiet
  <2>4. QED
    BY <2>2, <2>3
<1>8. CASE /\ icmp.r0 /\ icmp.r1 /\ icmp.req
           /\ icmp.fsm = "send" /\ icmp.cnt <= IcmpSize + 1 /\ Puts(icmp, "icmp", IcmpSize)
  <2>1. PICK e : e = icmp
    OBVIOUS
  <2>2. PICK f : f = icmp'
    OBVIOUS
  <2>3. /\ e.cnt \in Nat /\ e.cnt <= IcmpSize + 1 /\ axis' = e.out
        /\ Puts(e, "icmp", IcmpSize)
    BY <1>2, <1>6, <1>8, <2>1 DEF Puts
  <2>4. PacketsAreWhole' /\ state' = "icmp" /\ icmp'.r0 /\ icmp'.r1
    <3>1. PacketsAreWhole'
      BY <1>1, <1>6, <2>3, PutsStep
    <3>2. QED
      BY <1>2, <1>5, <1>8, <3>1
  <2>5. CASE icmp.cnt <= IcmpSize
    <3>1. /\ f.cnt = e.cnt + 1 /\ e.cnt <= IcmpSize
          /\ f.out = [Byte("icmp", e.cnt, IcmpSize) EXCEPT !.last = e.cnt = IcmpSize]
      BY <1>5, <1>8, <2>1, <2>2, <2>5
    <3>2. Puts(f, "icmp", IcmpSize)'
      BY <1>1, <1>6, <2>3, <3>1, PutsStep
    <3>3. Puts(icmp, "icmp", IcmpSize)'
      BY <2>2, <3>2 DEF Puts
    <3>4. icmp'.fsm = "send" /\ icmp'.req /\ icmp'.cnt <= IcmpSize + 1
      <4>1. icmp'.fsm = "send" /\ icmp'.req /\ icmp'.cnt = icmp.cnt + 1
        BY <1>5, <1>8, <2>5
      <4>2. PICK k \in Nat : k = icmp.cnt
        BY <1>6
      <4>3. PICK j : j = icmp'.cnt
        OBVIOUS
      <4>4. j = k + 1 /\ k <= IcmpSize
        BY <2>5, <4>1, <4>2, <4>3
      <4>5. j <= IcmpSize + 1
        BY <1>6, <4>2, <4>4
      <4>6. QED
        BY <4>1, <4>3, <4>5
    <3>5. IcmpHasLine'
      BY <2>4, <3>3, <3>4 DEF IcmpHasLine
    <3>6. QED
      BY <1>3, <1>4, <2>4, <3>5 DEF Keeps, HasLine, OthersQuiet
  <2>6. CASE icmp.cnt > IcmpSize
    <3>1. e.cnt = IcmpSize + 1
      <4>1. PICK k \in Nat : k = icmp.cnt
        BY <1>6
      <4>2. k > IcmpSize /\ k <= IcmpSize + 1
        BY <1>8, <2>6, <4>1
      <4>3. k = IcmpSize + 1
        BY <1>6, <4>1, <4>2
      <4>4. QED
        BY <2>1, <4>1, <4>3
    <3>2. Rests'
      BY <1>1, <1>6, <2>3, <3>1, PutsStep
    <3>3. icmp'.fsm = "idle" /\ ~icmp'.req /\ icmp'.cnt = 0 /\ icmp'.out = None
      BY <1>5, <1>8, <2>6
    <3>4. IcmpHasLine'
      BY <2>4, <3>2, <3>3 DEF IcmpHasLine
    <3>5. QED
      BY <1>3, <1>4, <2>4, <3>4 DEF Keeps, HasLine, OthersQuiet
  <2>7. icmp.cnt <= IcmpSize \/ icmp.cnt > IcmpSize
    BY <1>6
  <2>8. QED
    BY <2>5, <2>6, <2>7
<1>9. CASE /\ icmp.r0 /\ icmp.r1
           /\ icmp.fsm = "idle" /\ ~icmp.req /\ icmp.cnt = 0 /\ icmp.out = None /\ Rests
  <2>1. axis' = None /\ Rests' /\ PacketsAreWhole' /\ state' = "idle"
    BY <1>1, <1>2, <1>9, RestsStep DEF PacketsAreWhole
  <2>2. IcmpQuiet'
    BY <1>1, <1>9, IcmpQuietStep
  <2>3. QED
    BY <1>3, <1>4, <2>1, <2>2 DEF Keeps, HasLine, OthersQuiet
<1>10. QED
  BY <1>1, <1>7, <1>8, <1>9 DEF IcmpHasLine
-----------------------------------------------------------------------------
(***************************************************************************)
(* The theorems.                                                           *)
(***************************************************************************)
\* The invariant holds at reset.
LEMMA InvHolds == Init => Inv
<1> SUFFICES ASSUME Init PROVE Inv
  OBVIOUS
<1>1. TypeOK
  <2>1. None \in Out /\ 0 \in Nat
    BY DEF Out
  <2>2. reply \in Asks(0 .. 2) /\ icmp \in Asks({"idle", "wait", "send"})
        /\ arp \in Asks({"idle", "wait", "send"})
    BY <2>1 DEF Init, Asks
  <2>3. data \in [fsm : 0 .. 3, req : BOOLEAN, cnt : Nat, out : Out, size : Nat,
                  r0 : BOOLEAN, r1 : BOOLEAN]
    BY <2>1 DEF Init
  <2>4. lan \in [sta : {"idle", "start", "wait", "head", "packet", "delay", "end", "done"},
                 cnt : Nat, words : Nat, clk : Nat, out : Out, done : BOOLEAN]
    BY <2>1 DEF Init
  <2>5. fifo \in Seq(Bytes)
    BY DEF Init
  <2>6. QED
    BY <2>1, <2>2, <2>3, <2>4, <2>5 DEF Init, TypeOK
<1>2. HasLine /\ PacketsAreWhole
  BY DEF Init, HasLine, Rests, Newest, PacketsAreWhole
<1>3. OthersQuiet
  BY DEF Init, OthersQuiet, ReplyQuiet, DataQuiet, ArpQuiet, IcmpQuiet, LanQuiet
<1>4. data.fsm # 1 /\ DoneMeansSent
  BY DEF Init, DoneMeansSent
<1>5. QED
  BY <1>1, <1>2, <1>3, <1>4 DEF Inv

\* Every clock keeps the invariant.
LEMMA InvStep == Inv /\ [Next]_vars => Inv'
<1> SUFFICES ASSUME Inv, [Next]_vars PROVE Inv'
  OBVIOUS
<1>1. CASE Next
  <2>1. TypeOK'
    BY <1>1, TypeStep
  <2>2. (data'.fsm = 1 => data'.size \in DataSizes) /\ DoneMeansSent'
    BY <1>1, DataKeeps
  <2>3. Keeps
    <3>1. state \in {"idle", "reply", "data", "arp", "icmp"}
      BY DEF Inv, TypeOK, Sender
    <3>2. QED
      BY <1>1, <3>1, IdleStep, ReplyHasStep, DataHasStep, ArpHasStep, IcmpHasStep
  <2>4. QED
    BY <2>1, <2>2, <2>3 DEF Inv, Keeps
<1>2. CASE UNCHANGED vars
  BY <1>2 DEF vars, muxVars, sourceVars, Inv, TypeOK, HasLine, OthersQuiet, DoneMeansSent,
              PacketsAreWhole, ReplyHasLine, DataHasLine, ArpHasLine, IcmpHasLine, Waits, Sends,
              LanCarries, Fills, Drained, Puts, Rests, Newest, LanQuiet, ReplyQuiet, DataQuiet,
              ArpQuiet, IcmpQuiet
<1>3. QED
  BY <1>1, <1>2

\* Whatever the sizes of the frames and the lengths of the pauses, the registers of the
\* transmit path keep their types.
THEOREM TypeOKAlways == Spec => []TypeOK
<1>1. Inv => TypeOK
  BY DEF Inv
<1>2. QED
  BY <1>1, InvHolds, InvStep, PTL DEF Spec

\* Whatever the sizes of the frames and the lengths of the pauses, what goes out on the
\* line is whole frames: no byte of one source gets between those of another, none is lost
\* in din, in the payload FIFO or in lan_tx, and none is sent twice.
THEOREM PacketsAreWholeAlways == Spec => []PacketsAreWhole
<1>1. Inv => PacketsAreWhole
  BY DEF Inv
<1>2. QED
  BY <1>1, InvHolds, InvStep, PTL DEF Spec

\* The packetizer never takes the tx_data_done of an earlier packet for that of its own.
THEOREM DoneMeansSentAlways == Spec => []DoneMeansSent
<1>1. Inv => DoneMeansSent
  BY DEF Inv
<1>2. QED
  BY <1>1, InvHolds, InvStep, PTL DEF Spec
=============================================================================
