------------------------------ MODULE RegisterLink ------------------------------
(***************************************************************************)
(* The control plane: RegisterClient and UdpTransport on the host, the     *)
(* register file on the FPGA, and the two directions of UDP between them.  *)
(*                                                                         *)
(* A DL4 read carries no transaction number and transact() returns the     *)
(* first datagram it finds in the socket.  A reply that misses its timeout *)
(* is therefore taken for the answer to a later request.                   *)
(***************************************************************************)
EXTENDS Naturals, Sequences, FiniteSets

CONSTANTS
    Address,     \* register addresses
    Value,       \* 32-bit register values
    Default,     \* the value each register has after a reset
    Stored,      \* what each register keeps of a value: a field is cut to its width
    Readable,    \* RegisterSpec.readable
    Writable,    \* RegisterSpec.writable
    Retries,     \* ConnectionConfig.retries
    None,
    MaxCalls     \* bound: host calls

ASSUME LinkAssumption ==
    /\ Default \in [Address -> Value]
    /\ Stored \in [Address -> [Value -> Value]]
    /\ Readable \subseteq Address
    /\ Writable \subseteq Address
    /\ Retries \in Nat
    /\ MaxCalls \in Nat
    /\ None \notin Address

VARIABLES
    register,    \* the register file of command_monitor_new
    requests,    \* host to FPGA, in order of sending
    replies,     \* FPGA to host, and what waits in the host's socket
    call,        \* the host call that waits for a datagram, or None
    outcome,     \* what the last host call returned or raised
    calls,       \* how many calls were made
    ever,        \* history: the values each register has ever had
    held,        \* history: the values that register has had since the last call began
    clean,       \* history: nothing was outstanding when the call began
    timeouts,    \* history: attempts that timed out
    lost         \* history: reads that will never be answered, and lost answers

hostVars == <<call, outcome, calls, clean, timeouts>>
historyVars == <<ever, held, clean, timeouts, lost>>
vars == <<register, requests, replies, call, outcome, calls, ever, held, clean, timeouts, lost>>

Op == {"read", "write_checked"}

Status == {"sent", "value", "verified", "mismatch", "timeout", "protocol_error", "access_error"}

Call == [op : Op, address : Address, value : Value \cup {None}, left : 0 .. Retries]

ASSUME CallAssumption == None \notin Call

Outcome == [status : Status, address : Address, value : Value \cup {None}]

Request ==
    [command : {"read"}, address : Address, value : {None}]
        \cup [command : {"write"}, address : Address, value : Value]

Reply == [address : Address, value : Value]

ReadRequest(a) == [command |-> "read", address |-> a, value |-> None]

WriteRequest(a, v) == [command |-> "write", address |-> a, value |-> v]

IsRead(r) == r.command = "read"

IsWrite(r) == r.command = "write"

\* No read is on its way and no answer is.
Drained ==
    /\ \A i \in 1 .. Len(requests) : ~IsRead(requests[i])
    /\ replies = <<>>

\* The register the last call is about.
Subject == IF call # None THEN call.address
           ELSE IF outcome # None THEN outcome.address ELSE None

Without(s, i) == SubSeq(s, 1, i - 1) \o SubSeq(s, i + 1, Len(s))

ReadsIn(s) == Cardinality({i \in 1 .. Len(s) : IsRead(s[i])})

Init ==
    /\ register = Default
    /\ requests = <<>>
    /\ replies = <<>>
    /\ call = None
    /\ outcome = None
    /\ calls = 0
    /\ ever = [a \in Address |-> {Default[a]}]
    /\ held = {}
    /\ clean = TRUE
    /\ timeouts = 0
    /\ lost = 0
-----------------------------------------------------------------------------
(***************************************************************************)
(* The host: one call at a time, on the caller's thread.                   *)
(***************************************************************************)
Begin(op, a, v) ==
    /\ call = None
    /\ calls < MaxCalls
    /\ calls' = calls + 1
    /\ call' = [op |-> op, address |-> a, value |-> v, left |-> Retries]
    /\ outcome' = None
    /\ held' = {register[a]}
    /\ clean' = Drained

\* Finish the call with what it returns or raises.
Finish(status, v) ==
    /\ call' = None
    /\ outcome' = [status |-> status, address |-> call.address, value |-> v]

\* read32, up to the first recvfrom.
Read(a) ==
    /\ a \in Readable
    /\ Begin("read", a, None)
    /\ requests' = Append(requests, ReadRequest(a))
    /\ UNCHANGED <<register, replies, ever, timeouts, lost>>

\* write32: fire and forget.
Write(a, v) ==
    /\ a \in Writable
    /\ call = None
    /\ calls < MaxCalls
    /\ calls' = calls + 1
    /\ requests' = Append(requests, WriteRequest(a, v))
    /\ outcome' = [status |-> "sent", address |-> a, value |-> v]
    /\ UNCHANGED <<register, replies, call, historyVars>>

\* write_checked: write32, then read32 up to its first recvfrom.
WriteChecked(a, v) ==
    /\ a \in Readable \cap Writable
    /\ Begin("write_checked", a, v)
    /\ requests' = requests \o <<WriteRequest(a, v), ReadRequest(a)>>
    /\ UNCHANGED <<register, replies, ever, timeouts, lost>>

\* RegisterAccessError, raised before anything is sent.
Refuse(op, a) ==
    /\ call = None
    /\ calls < MaxCalls
    /\ op # "write" => a \notin Readable \/ (op = "write_checked" /\ a \notin Writable)
    /\ op = "write" => a \notin Writable
    /\ calls' = calls + 1
    /\ outcome' = [status |-> "access_error", address |-> a, value |-> None]
    /\ UNCHANGED <<register, requests, replies, call, historyVars>>

\* Variant: the address of the reply is not compared with the request's.
ReceiveAny ==
    /\ call # None
    /\ replies # <<>>
    /\ replies' = Tail(replies)
    /\ LET v == Head(replies).value
       IN  \/ call.op = "read" /\ Finish("value", v)
           \/ call.op = "write_checked" /\ v = call.value /\ Finish("verified", v)
           \/ call.op = "write_checked" /\ v # call.value /\ Finish("mismatch", v)
    /\ UNCHANGED <<register, requests, calls, historyVars>>

\* Variant: a reply of another register is skipped and the call goes on.
ReceiveSkipping ==
    /\ call # None
    /\ replies # <<>>
    /\ replies' = Tail(replies)
    /\ LET a == Head(replies).address
           v == Head(replies).value
       IN  \/ a # call.address /\ UNCHANGED <<call, outcome>>
           \/ a = call.address /\ call.op = "read" /\ Finish("value", v)
           \/ a = call.address /\ call.op = "write_checked" /\ v = call.value /\ Finish("verified", v)
           \/ a = call.address /\ call.op = "write_checked" /\ v # call.value /\ Finish("mismatch", v)
    /\ UNCHANGED <<register, requests, calls, historyVars>>

\* recvfrom returns whatever datagram comes first; the call ends with it.
Receive ==
    /\ call # None
    /\ replies # <<>>
    /\ replies' = Tail(replies)
    /\ LET a == Head(replies).address
           v == Head(replies).value
       IN  \/ a # call.address /\ Finish("protocol_error", None)
           \/ a = call.address /\ call.op = "read" /\ Finish("value", v)
           \/ a = call.address /\ call.op = "write_checked" /\ v = call.value /\ Finish("verified", v)
           \/ a = call.address /\ call.op = "write_checked" /\ v # call.value /\ Finish("mismatch", v)
    /\ UNCHANGED <<register, requests, calls, historyVars>>

\* Variant: the last attempt is never made, nor the failure raised.
RetryOneLess ==
    /\ call # None
    /\ call.left > 1
    /\ call' = [call EXCEPT !.left = @ - 1]
    /\ requests' = Append(requests, ReadRequest(call.address))
    /\ timeouts' = timeouts + 1
    /\ UNCHANGED <<register, replies, outcome, calls, ever, held, clean, lost>>

\* Variant: one attempt too many.
RetryOnceMore ==
    /\ call # None
    /\ call' = [call EXCEPT !.left = @ - 1]
    /\ requests' = Append(requests, ReadRequest(call.address))
    /\ timeouts' = timeouts + 1
    /\ UNCHANGED <<register, replies, outcome, calls, ever, held, clean, lost>>

\* socket.timeout with attempts left: the read, and only the read, goes again.
Retry ==
    /\ call # None
    /\ call.left > 0
    /\ call' = [call EXCEPT !.left = @ - 1]
    /\ requests' = Append(requests, ReadRequest(call.address))
    /\ timeouts' = timeouts + 1
    /\ UNCHANGED <<register, replies, outcome, calls, ever, held, clean, lost>>

\* TransportTimeout after the last attempt.
GiveUp ==
    /\ call # None
    /\ call.left = 0
    /\ Finish("timeout", None)
    /\ timeouts' = timeouts + 1
    /\ UNCHANGED <<register, requests, replies, calls, ever, held, clean, lost>>

\* Another transport takes the place of this one: the answers that were in its
\* socket are gone, those still on the wire come to the new socket.
Reopen ==
    /\ call = None
    /\ \E n \in 1 .. Len(replies) :
        /\ replies' = SubSeq(replies, n + 1, Len(replies))
        /\ lost' = lost + n
    /\ UNCHANGED <<register, requests, call, outcome, calls, ever, held, clean, timeouts>>
-----------------------------------------------------------------------------
(***************************************************************************)
(* The FPGA takes the requests in order.                                   *)
(***************************************************************************)
\* The case of the write table for this register.
FpgaWrite ==
    /\ requests # <<>>
    /\ IsWrite(Head(requests))
    /\ requests' = Tail(requests)
    /\ LET a == Head(requests).address
           v == Stored[a][Head(requests).value]
       IN  /\ register' = [register EXCEPT ![a] = v]
           /\ ever' = [ever EXCEPT ![a] = @ \cup {v}]
           /\ held' = IF Subject = a THEN held \cup {v} ELSE held
    /\ UNCHANGED <<replies, call, outcome, calls, clean, timeouts, lost>>

\* Variant: the value was latched before an earlier write took effect.
FpgaReadStale ==
    /\ requests # <<>>
    /\ IsRead(Head(requests))
    /\ requests' = Tail(requests)
    /\ LET a == Head(requests).address
       IN  \E v \in ever[a] : replies' = Append(replies, [address |-> a, value |-> v])
    /\ UNCHANGED <<register, call, outcome, calls, historyVars>>

\* The read table, then LAN_RD_REG sends address and value back.
FpgaRead ==
    /\ requests # <<>>
    /\ IsRead(Head(requests))
    /\ requests' = Tail(requests)
    /\ LET a == Head(requests).address
       IN  replies' = Append(replies, [address |-> a, value |-> register[a]])
    /\ UNCHANGED <<register, call, outcome, calls, historyVars>>

\* LAN_RD_REG is still sending when the next read comes: it goes unanswered.
FpgaReadBusy ==
    /\ requests # <<>>
    /\ IsRead(Head(requests))
    /\ requests' = Tail(requests)
    /\ lost' = lost + 1
    /\ UNCHANGED <<register, replies, call, outcome, calls, ever, held, clean, timeouts>>

\* Power cycle or reset: the registers restart, what is being received is lost.
FpgaReset ==
    /\ register # Default
    /\ register' = Default
    /\ requests' = <<>>
    /\ lost' = lost + ReadsIn(requests)
    /\ held' = IF Subject # None THEN held \cup {Default[Subject]} ELSE held
    /\ UNCHANGED <<replies, call, outcome, calls, ever, clean, timeouts>>

LoseRequest ==
    /\ \E i \in 1 .. Len(requests) :
        /\ requests' = Without(requests, i)
        /\ lost' = IF IsRead(requests[i]) THEN lost + 1 ELSE lost
    /\ UNCHANGED <<register, replies, call, outcome, calls, ever, held, clean, timeouts>>

LoseReply ==
    /\ \E i \in 1 .. Len(replies) : replies' = Without(replies, i)
    /\ lost' = lost + 1
    /\ UNCHANGED <<register, requests, call, outcome, calls, ever, held, clean, timeouts>>

HostNext ==
    \/ \E a \in Address : Read(a)
    \/ \E a \in Address, v \in Value : Write(a, v) \/ WriteChecked(a, v)
    \/ \E op \in Op \cup {"write"}, a \in Address : Refuse(op, a)
    \/ Receive
    \/ Retry
    \/ GiveUp
    \/ Reopen

FpgaNext == FpgaWrite \/ FpgaRead \/ FpgaReadBusy \/ FpgaReset

Next == HostNext \/ FpgaNext \/ LoseRequest \/ LoseReply

\* A socket with a timeout does not wait for ever; nothing else is promised.
Fairness == WF_vars(Retry) /\ WF_vars(GiveUp)

Spec == Init /\ [][Next]_vars /\ Fairness
-----------------------------------------------------------------------------
TypeOK ==
    /\ register \in [Address -> Value]
    /\ requests \in Seq(Request)
    /\ replies \in Seq(Reply)
    /\ call \in Call \cup {None}
    /\ outcome \in Outcome \cup {None}
    /\ calls \in Nat
    /\ ever \in [Address -> SUBSET Value]
    /\ held \in SUBSET Value
    /\ clean \in BOOLEAN
    /\ timeouts \in Nat
    /\ lost \in Nat

\* The call read a value back from the FPGA.
HasReadback == outcome # None /\ outcome.status \in {"value", "verified", "mismatch"}

\* Whatever is lost or late, a value the host reads of a register is one that
\* this register has had: replies are never attributed to another register.
NeverFabricated == HasReadback => outcome.value \in ever[outcome.address]

\* A call that begins on a drained link returns a value the register had during
\* the call: retries within a call never make its answer stale.
FreshWhenDrained == HasReadback /\ clean => outcome.value \in held

\* Every attempt that timed out leaves one answer due, and only a loss removes
\* it: the link does not come back into step by itself, however many calls
\* succeed after the timeout.
LagIsConserved ==
    ReadsIn(requests) + Len(replies) + lost = timeouts + (IF call = None THEN 0 ELSE 1)

\* Verified means that the register has had the value since the call began, once
\* the FPGA has taken everything that was sent.
VerifiedMeansHeld ==
    outcome # None /\ outcome.status = "verified" /\ requests = <<>> => outcome.value \in held

\* Every call returns or raises.
CallReturns == call # None ~> call = None
=============================================================================
