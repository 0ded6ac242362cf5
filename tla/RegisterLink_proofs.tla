-------------------------- MODULE RegisterLink_proofs --------------------------
(***************************************************************************)
(* The control plane for every set of registers and values and every number *)
(* of retries, over a network that loses and delays at will.               *)
(***************************************************************************)
EXTENDS RegisterLink, FiniteSetTheorems, TLAPS

\* Everything a value can come from goes back to the register it is said to be of.
EverInv ==
    /\ \A a \in Address : Default[a] \in ever[a] /\ register[a] \in ever[a]
    /\ \A i \in 1 .. Len(replies) : replies[i].value \in ever[replies[i].address]
    /\ NeverFabricated

\* During a call that began on a drained link, all that is on its way is of this
\* call: the reads ask for its register and the replies are not older than it.
CleanInv ==
    /\ call # None => register[call.address] \in held
    /\ call # None /\ clean =>
        /\ \A i \in 1 .. Len(requests) : IsRead(requests[i]) => requests[i].address = call.address
        /\ \A i \in 1 .. Len(replies) : replies[i].value \in held
    /\ FreshWhenDrained

LinkInv == TypeOK /\ EverInv /\ CleanInv

\* Dropping one element of a sequence leaves only elements it had.
LEMMA WithoutElements ==
    ASSUME NEW S, NEW s \in Seq(S), NEW i \in 1 .. Len(s)
    PROVE  /\ Without(s, i) \in Seq(S)
           /\ \A j \in 1 .. Len(Without(s, i)) :
                \E k \in 1 .. Len(s) : Without(s, i)[j] = s[k]
<1> DEFINE l == SubSeq(s, 1, i - 1)
           r == SubSeq(s, i + 1, Len(s))
<1>1. l \in Seq(S) /\ Len(l) = i - 1 /\ \A j \in 1 .. i - 1 : l[j] = s[j]
  OBVIOUS
<1>2. /\ r \in Seq(S) /\ Len(r) = Len(s) - i
      /\ \A j \in 1 .. Len(s) - i : r[j] = s[i + j]
  OBVIOUS
<1>a. Without(s, i) = l \o r
  BY DEF Without
<1> HIDE DEF l, r
<1>3. Without(s, i) \in Seq(S) /\ Len(Without(s, i)) = Len(s) - 1
  BY <1>a, <1>1, <1>2
<1>4. ASSUME NEW j \in 1 .. Len(Without(s, i))
      PROVE  \E k \in 1 .. Len(s) : Without(s, i)[j] = s[k]
  <2>1. CASE j <= i - 1
    <3>1. Without(s, i)[j] = l[j] /\ j \in 1 .. Len(s)
      BY <2>1, <1>a, <1>1, <1>2, <1>3
    <3>2. QED
      BY <3>1, <2>1, <1>1
  <2>2. CASE j > i - 1
    <3>1. Without(s, i)[j] = r[j - (i - 1)]
      BY <2>2, <1>a, <1>1, <1>2, <1>3
    <3>2. j - (i - 1) \in 1 .. Len(s) - i /\ j + 1 \in 1 .. Len(s)
      BY <2>2, <1>3
    <3>3. QED
      BY <3>1, <3>2, <1>2
  <2>3. QED
    BY <2>1, <2>2, <1>3
<1>5. QED
  BY <1>3, <1>4

\* The same for a suffix.
LEMMA SuffixElements ==
    ASSUME NEW S, NEW s \in Seq(S), NEW n \in 1 .. Len(s)
    PROVE  LET t == SubSeq(s, n + 1, Len(s))
           IN  /\ t \in Seq(S)
               /\ \A j \in 1 .. Len(t) : \E k \in 1 .. Len(s) : t[j] = s[k]
<1> DEFINE t == SubSeq(s, n + 1, Len(s))
<1>1. t \in Seq(S) /\ Len(t) = Len(s) - n /\ \A j \in 1 .. Len(s) - n : t[j] = s[n + j]
  OBVIOUS
<1>2. ASSUME NEW j \in 1 .. Len(t) PROVE n + j \in 1 .. Len(s) /\ t[j] = s[n + j]
  BY <1>1
<1>3. QED
  BY <1>1, <1>2

\* The number of reads in flight is a natural number.
LEMMA ReadsInType == ASSUME NEW s \in Seq(Request) PROVE ReadsIn(s) \in Nat
<1>1. IsFiniteSet(1 .. Len(s))
  BY FS_Interval
<1>2. IsFiniteSet({i \in 1 .. Len(s) : IsRead(s[i])})
  BY <1>1, FS_Subset
<1>3. QED
  BY <1>2, FS_CardinalityType DEF ReadsIn

\* Every step of the host, the FPGA and the network is well typed.
LEMMA TypeStep == ASSUME TypeOK, [Next]_vars PROVE TypeOK'
<1> USE LinkAssumption
<1>1. ASSUME NEW a \in Address, Read(a) PROVE TypeOK'
  <2>1. ReadRequest(a) \in Request
    BY DEF ReadRequest, Request
  <2>2. call' \in Call
    BY <1>1 DEF Read, Begin, Call, Op
  <2>3. Drained \in BOOLEAN
    BY DEF Drained
  <2>4. held' \in SUBSET Value
    BY <1>1 DEF Read, Begin, TypeOK
  <2>5. QED
    BY <1>1, <2>1, <2>2, <2>3, <2>4 DEF Read, Begin, TypeOK
<1>2. ASSUME NEW a \in Address, NEW v \in Value, Write(a, v) PROVE TypeOK'
  <2>1. WriteRequest(a, v) \in Request
    BY DEF WriteRequest, Request
  <2>2. outcome' \in Outcome
    BY <1>2 DEF Write, Outcome, Status
  <2>3. QED
    BY <1>2, <2>1, <2>2 DEF Write, TypeOK, historyVars
<1>3. ASSUME NEW a \in Address, NEW v \in Value, WriteChecked(a, v) PROVE TypeOK'
  <2>1. WriteRequest(a, v) \in Request /\ ReadRequest(a) \in Request
    BY DEF WriteRequest, ReadRequest, Request
  <2>2. call' \in Call
    BY <1>3 DEF WriteChecked, Begin, Call, Op
  <2>3. Drained \in BOOLEAN
    BY DEF Drained
  <2>4. held' \in SUBSET Value
    BY <1>3 DEF WriteChecked, Begin, TypeOK
  <2>5. requests' \in Seq(Request)
    BY <1>3, <2>1 DEF WriteChecked, TypeOK
  <2>6. QED
    BY <1>3, <2>2, <2>3, <2>4, <2>5 DEF WriteChecked, Begin, TypeOK
<1>4. ASSUME NEW op, NEW a \in Address, Refuse(op, a) PROVE TypeOK'
  <2>1. outcome' \in Outcome
    BY <1>4 DEF Refuse, Outcome, Status
  <2>2. QED
    BY <1>4, <2>1 DEF Refuse, TypeOK, historyVars
<1>5. CASE Receive
  <2>1. call \in Call /\ Head(replies) \in Reply /\ Tail(replies) \in Seq(Reply)
    BY <1>5 DEF Receive, TypeOK
  <2>2. call' = None /\ outcome' \in Outcome
    BY <1>5, <2>1 DEF Receive, Finish, Outcome, Status, Call, Reply
  <2>3. QED
    BY <1>5, <2>1, <2>2 DEF Receive, TypeOK, historyVars
<1>6. CASE Retry
  <2>1. call \in Call
    BY <1>6 DEF Retry, TypeOK
  <2>2. call' \in Call
    BY <1>6, <2>1 DEF Retry, Call
  <2>3. ReadRequest(call.address) \in Request
    BY <2>1 DEF ReadRequest, Request, Call
  <2>4. QED
    BY <1>6, <2>2, <2>3 DEF Retry, TypeOK
<1>7. CASE GiveUp
  <2>1. outcome' \in Outcome /\ call' = None
    BY <1>7 DEF GiveUp, Finish, Outcome, Status, TypeOK, Call
  <2>2. QED
    BY <1>7, <2>1 DEF GiveUp, TypeOK
<1>8. CASE Reopen
  <2>1. PICK n \in 1 .. Len(replies) :
          replies' = SubSeq(replies, n + 1, Len(replies)) /\ lost' = lost + n
    BY <1>8 DEF Reopen
  <2>2. replies' \in Seq(Reply)
    BY <2>1, SuffixElements DEF TypeOK
  <2>3. lost' \in Nat
    BY <2>1 DEF TypeOK
  <2>4. QED
    BY <1>8, <2>2, <2>3 DEF Reopen, TypeOK
<1>9. CASE FpgaWrite
  <2>1. Head(requests) \in Request /\ Tail(requests) \in Seq(Request)
    BY <1>9 DEF FpgaWrite, TypeOK
  <2>2. QED
    BY <1>9, <2>1 DEF FpgaWrite, TypeOK, IsWrite, Request
<1>10. CASE FpgaRead
  <2>1. Head(requests) \in Request /\ Tail(requests) \in Seq(Request)
    BY <1>10 DEF FpgaRead, TypeOK
  <2>2. [address |-> Head(requests).address, value |-> register[Head(requests).address]] \in Reply
    BY <2>1 DEF TypeOK, Reply, Request
  <2>3. QED
    BY <1>10, <2>1, <2>2 DEF FpgaRead, TypeOK, historyVars
<1>11. CASE FpgaReadBusy
  BY <1>11 DEF FpgaReadBusy, TypeOK
<1>12. CASE FpgaReset
  <2>1. ReadsIn(requests) \in Nat
    BY ReadsInType DEF TypeOK
  <2>2. held' \in SUBSET Value
    BY <1>12 DEF FpgaReset, TypeOK, Subject, Call, Outcome
  <2>3. QED
    BY <1>12, <2>1, <2>2 DEF FpgaReset, TypeOK
<1>13. CASE LoseRequest
  BY <1>13, WithoutElements DEF LoseRequest, TypeOK
<1>14. CASE LoseReply
  BY <1>14, WithoutElements DEF LoseReply, TypeOK
<1>15. CASE UNCHANGED vars
  BY <1>15 DEF vars, TypeOK
<1>16. QED
  BY <1>1, <1>2, <1>3, <1>4, <1>5, <1>6, <1>7, <1>8, <1>9, <1>10, <1>11, <1>12, <1>13, <1>14, <1>15
  DEF Next, HostNext, FpgaNext

\* What read32 returns is the value of the reply, under the reply's address.
LEMMA ReadbackIsReply ==
    ASSUME TypeOK, Receive, HasReadback'
    PROVE  /\ outcome'.value = replies[1].value
           /\ outcome'.address = replies[1].address
           /\ call # None
           /\ 1 \in 1 .. Len(replies)
<1>1. call # None /\ replies \in Seq(Reply) /\ replies # <<>>
  BY DEF Receive, TypeOK
<1>2. Head(replies) = replies[1] /\ 1 \in 1 .. Len(replies)
  BY <1>1
<1>3. QED
  BY <1>1, <1>2 DEF Receive, Finish, HasReadback

\* Values stay with their registers.
LEMMA EverStep == ASSUME TypeOK, EverInv, [Next]_vars PROVE EverInv'
<1> USE DEF EverInv
<1>1. ASSUME NEW a \in Address, Read(a) PROVE EverInv'
  BY <1>1 DEF Read, Begin, NeverFabricated, HasReadback
<1>2. ASSUME NEW a \in Address, NEW v \in Value, Write(a, v) PROVE EverInv'
  BY <1>2 DEF Write, historyVars, NeverFabricated, HasReadback
<1>3. ASSUME NEW a \in Address, NEW v \in Value, WriteChecked(a, v) PROVE EverInv'
  BY <1>3 DEF WriteChecked, Begin, NeverFabricated, HasReadback
<1>4. ASSUME NEW op, NEW a \in Address, Refuse(op, a) PROVE EverInv'
  BY <1>4 DEF Refuse, historyVars, NeverFabricated, HasReadback
<1>5. CASE Receive
  <2>1. NeverFabricated'
    BY <1>5, ReadbackIsReply DEF Receive, historyVars, NeverFabricated
  <2>2. \A i \in 1 .. Len(replies') : i + 1 \in 1 .. Len(replies) /\ replies'[i] = replies[i + 1]
    BY <1>5 DEF Receive, TypeOK
  <2>3. QED
    BY <1>5, <2>1, <2>2 DEF Receive, historyVars
<1>6. CASE Retry
  BY <1>6 DEF Retry, NeverFabricated, HasReadback
<1>7. CASE GiveUp
  BY <1>7 DEF GiveUp, Finish, NeverFabricated, HasReadback
<1>8. CASE Reopen
  <2>1. \A j \in 1 .. Len(replies') : \E k \in 1 .. Len(replies) : replies'[j] = replies[k]
    BY <1>8, SuffixElements DEF Reopen, TypeOK
  <2>2. QED
    BY <1>8, <2>1 DEF Reopen, NeverFabricated, HasReadback
<1>9. CASE FpgaWrite
  <2>1. \A a \in Address : ever[a] \subseteq ever'[a]
    BY <1>9 DEF FpgaWrite, TypeOK
  <2>2. \A a \in Address : register'[a] \in ever'[a]
    BY <1>9 DEF FpgaWrite, TypeOK
  <2>a. replies \in Seq(Reply)
    BY DEF TypeOK
  <2>b. \A i \in 1 .. Len(replies) : replies[i] \in Reply
    BY <2>a
  <2>3. \A i \in 1 .. Len(replies) : replies[i].address \in Address
    BY <2>b DEF Reply
  <2>4. NeverFabricated'
    BY <1>9, <2>1 DEF FpgaWrite, NeverFabricated, HasReadback, TypeOK, Outcome
  <2>5. QED
    BY <1>9, <2>1, <2>2, <2>3, <2>4 DEF FpgaWrite
<1>10. CASE FpgaRead
  <2> DEFINE r == [address |-> Head(requests).address, value |-> register[Head(requests).address]]
  <2>1. r.address \in Address /\ r.value \in ever[r.address]
    BY <1>10 DEF FpgaRead, TypeOK, Request
  <2>2. replies' = Append(replies, r) /\ replies \in Seq(Reply)
    BY <1>10 DEF FpgaRead, TypeOK
  <2> HIDE DEF r
  <2>3. \A i \in 1 .. Len(replies') : replies'[i] = r \/ (i \in 1 .. Len(replies) /\ replies'[i] = replies[i])
    BY <2>2
  <2>4. QED
    BY <1>10, <2>1, <2>3 DEF FpgaRead, historyVars, NeverFabricated, HasReadback
<1>11. CASE FpgaReadBusy
  BY <1>11 DEF FpgaReadBusy, NeverFabricated, HasReadback
<1>12. CASE FpgaReset
  BY <1>12 DEF FpgaReset, NeverFabricated, HasReadback
<1>13. CASE LoseRequest
  BY <1>13 DEF LoseRequest, NeverFabricated, HasReadback
<1>14. CASE LoseReply
  <2>1. \A j \in 1 .. Len(replies') : \E k \in 1 .. Len(replies) : replies'[j] = replies[k]
    BY <1>14, WithoutElements DEF LoseReply, TypeOK
  <2>2. QED
    BY <1>14, <2>1 DEF LoseReply, NeverFabricated, HasReadback
<1>15. CASE UNCHANGED vars
  BY <1>15 DEF vars, NeverFabricated, HasReadback
<1>16. QED
  BY <1>1, <1>2, <1>3, <1>4, <1>5, <1>6, <1>7, <1>8, <1>9, <1>10, <1>11, <1>12, <1>13, <1>14, <1>15
  DEF Next, HostNext, FpgaNext

\* A call on a drained link meets nothing but its own reads and their replies.
LEMMA CleanStep == ASSUME TypeOK, CleanInv, [Next]_vars PROVE CleanInv'
<1> USE DEF CleanInv
<1>1. ASSUME NEW a \in Address, Read(a) PROVE CleanInv'
  <2>1. call' # None => register'[call'.address] \in held'
    BY <1>1 DEF Read, Begin
  <2>2. ASSUME clean'
        PROVE  /\ \A i \in 1 .. Len(requests') : IsRead(requests'[i]) => requests'[i].address = call'.address
               /\ \A i \in 1 .. Len(replies') : replies'[i].value \in held'
    <3>1. Drained /\ call'.address = a /\ UNCHANGED replies
      BY <1>1, <2>2 DEF Read, Begin
    <3>2. \A i \in 1 .. Len(requests') :
            \/ i \in 1 .. Len(requests) /\ requests'[i] = requests[i]
            \/ requests'[i] = ReadRequest(a)
      BY <1>1 DEF Read, TypeOK
    <3>3. ReadRequest(a).address = a
      BY DEF ReadRequest
    <3>4. QED
      BY <3>1, <3>2, <3>3 DEF Drained
  <2>3. QED
    BY <1>1, <2>1, <2>2 DEF Read, Begin, FreshWhenDrained, HasReadback
<1>2. ASSUME NEW a \in Address, NEW v \in Value, Write(a, v) PROVE CleanInv'
  BY <1>2 DEF Write, historyVars, FreshWhenDrained, HasReadback
<1>3. ASSUME NEW a \in Address, NEW v \in Value, WriteChecked(a, v) PROVE CleanInv'
  <2>1. call' # None => register'[call'.address] \in held'
    BY <1>3 DEF WriteChecked, Begin
  <2>2. /\ Len(requests') = Len(requests) + 2
        /\ \A i \in 1 .. Len(requests) : requests'[i] = requests[i]
        /\ requests'[Len(requests) + 1] = WriteRequest(a, v)
        /\ requests'[Len(requests) + 2] = ReadRequest(a)
    BY <1>3 DEF WriteChecked, TypeOK
  <2>3. ASSUME clean'
        PROVE  /\ \A i \in 1 .. Len(requests') : IsRead(requests'[i]) => requests'[i].address = call'.address
               /\ \A i \in 1 .. Len(replies') : replies'[i].value \in held'
    <3>1. Drained /\ call'.address = a /\ UNCHANGED replies
      BY <1>3, <2>3 DEF WriteChecked, Begin
    <3>2. ASSUME NEW i \in 1 .. Len(requests') PROVE IsRead(requests'[i]) => requests'[i].address = a
      <4>1. i \in 1 .. Len(requests) \/ i = Len(requests) + 1 \/ i = Len(requests) + 2
        BY <2>2 DEF TypeOK
      <4>2. ~IsRead(WriteRequest(a, v)) /\ ReadRequest(a).address = a
        BY DEF IsRead, WriteRequest, ReadRequest
      <4>3. QED
        BY <2>2, <3>1, <4>1, <4>2 DEF Drained
    <3>3. QED
      BY <3>1, <3>2 DEF Drained
  <2>4. QED
    BY <1>3, <2>1, <2>3 DEF WriteChecked, Begin, FreshWhenDrained, HasReadback
<1>4. ASSUME NEW op, NEW a \in Address, Refuse(op, a) PROVE CleanInv'
  BY <1>4 DEF Refuse, historyVars, FreshWhenDrained, HasReadback
<1>5. CASE Receive
  <2>1. call' = None
    BY <1>5 DEF Receive, Finish
  <2>2. FreshWhenDrained'
    BY <1>5, ReadbackIsReply DEF Receive, historyVars, FreshWhenDrained
  <2>3. QED
    BY <2>1, <2>2
<1>6. CASE Retry
  <2>1. call' # None => register'[call'.address] \in held' /\ call'.address = call.address
    BY <1>6 DEF Retry, TypeOK, Call
  <2>2. \A i \in 1 .. Len(requests') :
            \/ i \in 1 .. Len(requests) /\ requests'[i] = requests[i]
            \/ requests'[i] = ReadRequest(call.address)
    BY <1>6 DEF Retry, TypeOK
  <2>3. ReadRequest(call.address).address = call.address
    BY DEF ReadRequest
  <2>4. QED
    BY <1>6, <2>1, <2>2, <2>3 DEF Retry, FreshWhenDrained, HasReadback
<1>7. CASE GiveUp
  BY <1>7 DEF GiveUp, Finish, FreshWhenDrained, HasReadback
<1>8. CASE Reopen
  BY <1>8 DEF Reopen, FreshWhenDrained, HasReadback
<1>9. CASE FpgaWrite
  <2>1. held \subseteq held' /\ UNCHANGED <<replies, call, outcome, clean>>
    BY <1>9 DEF FpgaWrite
  <2>2. call # None => register'[call.address] \in held'
    BY <1>9 DEF FpgaWrite, Subject, TypeOK, Call
  <2>3. \A i \in 1 .. Len(requests') : i + 1 \in 1 .. Len(requests) /\ requests'[i] = requests[i + 1]
    BY <1>9 DEF FpgaWrite, TypeOK
  <2>4. QED
    BY <2>1, <2>2, <2>3 DEF FreshWhenDrained, HasReadback
<1>10. CASE FpgaRead
  <2> DEFINE r == [address |-> Head(requests).address, value |-> register[Head(requests).address]]
  <2>1. requests[1] = Head(requests) /\ 1 \in 1 .. Len(requests) /\ IsRead(requests[1])
    BY <1>10 DEF FpgaRead, TypeOK
  <2>2. call # None /\ clean => r.value \in held
    BY <2>1
  <2>3. replies' = Append(replies, r) /\ replies \in Seq(Reply)
    BY <1>10 DEF FpgaRead, TypeOK
  <2>4. \A i \in 1 .. Len(requests') : i + 1 \in 1 .. Len(requests) /\ requests'[i] = requests[i + 1]
    BY <1>10 DEF FpgaRead, TypeOK
  <2> HIDE DEF r
  <2>5. \A i \in 1 .. Len(replies') : replies'[i] = r \/ (i \in 1 .. Len(replies) /\ replies'[i] = replies[i])
    BY <2>3
  <2>6. QED
    BY <1>10, <2>2, <2>4, <2>5 DEF FpgaRead, historyVars, FreshWhenDrained, HasReadback
<1>11. CASE FpgaReadBusy
  <2>1. \A i \in 1 .. Len(requests') : i + 1 \in 1 .. Len(requests) /\ requests'[i] = requests[i + 1]
    BY <1>11 DEF FpgaReadBusy, TypeOK
  <2>2. QED
    BY <1>11, <2>1 DEF FpgaReadBusy, FreshWhenDrained, HasReadback
<1>12. CASE FpgaReset
  <2>1. held \subseteq held' /\ requests' = <<>> /\ UNCHANGED <<replies, call, outcome, clean>>
    BY <1>12 DEF FpgaReset
  <2>2. call # None => register'[call.address] \in held'
    BY <1>12, LinkAssumption DEF FpgaReset, Subject, TypeOK, Call
  <2>3. QED
    BY <2>1, <2>2 DEF FreshWhenDrained, HasReadback
<1>13. CASE LoseRequest
  <2>1. \A j \in 1 .. Len(requests') : \E k \in 1 .. Len(requests) : requests'[j] = requests[k]
    BY <1>13, WithoutElements DEF LoseRequest, TypeOK
  <2>2. QED
    BY <1>13, <2>1 DEF LoseRequest, FreshWhenDrained, HasReadback
<1>14. CASE LoseReply
  <2>1. \A j \in 1 .. Len(replies') : \E k \in 1 .. Len(replies) : replies'[j] = replies[k]
    BY <1>14, WithoutElements DEF LoseReply, TypeOK
  <2>2. QED
    BY <1>14, <2>1 DEF LoseReply, FreshWhenDrained, HasReadback
<1>15. CASE UNCHANGED vars
  BY <1>15 DEF vars, FreshWhenDrained, HasReadback
<1>16. QED
  BY <1>1, <1>2, <1>3, <1>4, <1>5, <1>6, <1>7, <1>8, <1>9, <1>10, <1>11, <1>12, <1>13, <1>14, <1>15
  DEF Next, HostNext, FpgaNext

\* The state of the link is well typed, values stay with their registers, and a
\* call on a drained link is answered from the time of the call.
THEOREM LinkInvariance == Spec => []LinkInv
<1>1. Init => LinkInv
  <2>1. Init => TypeOK
    BY LinkAssumption DEF Init, TypeOK
  <2>2. Init => EverInv /\ CleanInv
    BY LinkAssumption DEF Init, EverInv, CleanInv, NeverFabricated, FreshWhenDrained, HasReadback
  <2>3. QED
    BY <2>1, <2>2 DEF LinkInv
<1>2. LinkInv /\ [Next]_vars => LinkInv'
  BY TypeStep, EverStep, CleanStep DEF LinkInv
<1>3. QED
  BY <1>1, <1>2, PTL DEF Spec

\* A value read back is one the register has had, on any link: read32 never
\* attributes a reply to another register.
THEOREM NeverFabricatedAlways == Spec => []NeverFabricated
<1>1. LinkInv => NeverFabricated
  BY DEF LinkInv, EverInv
<1>2. QED
  BY <1>1, LinkInvariance, PTL

\* A read on a drained link is not stale, whatever times out and is retried.
THEOREM FreshWhenDrainedAlways == Spec => []FreshWhenDrained
<1>1. LinkInv => FreshWhenDrained
  BY DEF LinkInv, CleanInv
<1>2. QED
  BY <1>1, LinkInvariance, PTL

(***************************************************************************)
(* What is owed.                                                           *)
(***************************************************************************)
ReadsOf(s) == {i \in 1 .. Len(s) : IsRead(s[i])}

\* The reads of a sequence are finitely many.
LEMMA ReadsFinite ==
    ASSUME NEW s \in Seq(Request) PROVE IsFiniteSet(ReadsOf(s)) /\ ReadsIn(s) = Cardinality(ReadsOf(s))
<1>1. IsFiniteSet(1 .. Len(s))
  BY FS_Interval
<1>2. QED
  BY <1>1, FS_Subset DEF ReadsIn, ReadsOf

\* Nothing sent, no read.
LEMMA ReadsInEmpty == ReadsIn(<<>>) = 0
<1>1. {i \in 1 .. Len(<<>>) : IsRead(<<>>[i])} = {}
  OBVIOUS
<1>2. QED
  BY <1>1, FS_EmptySet DEF ReadsIn

\* A request that is sent counts if it is a read.
LEMMA ReadsInAppend ==
    ASSUME NEW s \in Seq(Request), NEW r \in Request
    PROVE  ReadsIn(Append(s, r)) = ReadsIn(s) + (IF IsRead(r) THEN 1 ELSE 0)
<1> DEFINE t == Append(s, r)
           n == Len(s) + 1
<1>1. /\ t \in Seq(Request) /\ Len(t) = n /\ t[n] = r /\ n \notin ReadsOf(s)
      /\ \A i \in 1 .. Len(s) : t[i] = s[i]
  BY DEF ReadsOf
<1>2. ReadsOf(t) = IF IsRead(r) THEN ReadsOf(s) \cup {n} ELSE ReadsOf(s)
  <2>1. \A i : i \in 1 .. Len(t) <=> i \in 1 .. Len(s) \/ i = n
    BY <1>1
  <2> HIDE DEF t, n
  <2>2. QED
    BY <1>1, <2>1 DEF ReadsOf
<1>3. Cardinality(ReadsOf(s) \cup {n}) = Cardinality(ReadsOf(s)) + 1
  BY <1>1, ReadsFinite, FS_AddElement
<1>4. ReadsIn(t) = Cardinality(ReadsOf(t)) /\ ReadsIn(s) = Cardinality(ReadsOf(s)) /\ ReadsIn(s) \in Nat
  BY <1>1, ReadsFinite, ReadsInType
<1>5. QED
  <2> HIDE DEF t, n
  <2>1. QED
    BY <1>2, <1>3, <1>4 DEF t

\* A request that is taken, or lost, counts no more.
LEMMA ReadsInRemoved ==
    ASSUME NEW s \in Seq(Request), NEW t \in Seq(Request), NEW i \in 1 .. Len(s),
           Len(t) = Len(s) - 1,
           \A j \in 1 .. Len(t) : t[j] = IF j < i THEN s[j] ELSE s[j + 1]
    PROVE  ReadsIn(t) = ReadsIn(s) - (IF IsRead(s[i]) THEN 1 ELSE 0)
<1> DEFINE f == [j \in ReadsOf(t) |-> IF j < i THEN j ELSE j + 1]
           T == ReadsOf(s) \ {i}
<1>1. \A j \in ReadsOf(t) : f[j] \in T
  BY DEF ReadsOf
<1>2. ASSUME NEW k \in T PROVE \E j \in ReadsOf(t) : f[j] = k
  <2>1. CASE k < i
    <3>1. k \in ReadsOf(t)
      BY <2>1 DEF ReadsOf
    <3>2. QED
      BY <2>1, <3>1
  <2>2. CASE k > i
    <3>1. k - 1 \in ReadsOf(t) /\ (k - 1) + 1 = k /\ ~(k - 1 < i)
      BY <2>2 DEF ReadsOf
    <3>2. QED
      BY <3>1
  <2>3. QED
    BY <2>1, <2>2 DEF ReadsOf
<1>3. \A j, k \in ReadsOf(t) : f[j] = f[k] => j = k
  BY DEF ReadsOf
<1>4. f \in [ReadsOf(t) -> T]
  BY <1>1
<1>5. f \in Bijection(ReadsOf(t), T)
  <2> HIDE DEF f, T
  <2>1. QED
    BY <1>2, <1>3, <1>4 DEF Bijection, Injection, Surjection, IsInjective
<1>6. Cardinality(T) = Cardinality(ReadsOf(t))
  <2> HIDE DEF f, T
  <2>1. QED
    BY <1>5, ReadsFinite, FS_Bijection DEF ExistsBijection
<1>7. Cardinality(T) = IF i \in ReadsOf(s) THEN Cardinality(ReadsOf(s)) - 1 ELSE Cardinality(ReadsOf(s))
  BY ReadsFinite, FS_RemoveElement
<1>8. i \in ReadsOf(s) <=> IsRead(s[i])
  BY DEF ReadsOf
<1>9. ReadsIn(t) = Cardinality(ReadsOf(t)) /\ ReadsIn(s) = Cardinality(ReadsOf(s)) /\ ReadsIn(s) \in Nat
  BY ReadsFinite, ReadsInType
<1>10. QED
  <2> HIDE DEF f, T
  <2>1. CASE IsRead(s[i])
    BY <1>6, <1>7, <1>8, <1>9, <2>1
  <2>2. CASE ~IsRead(s[i])
    <3>1. ReadsIn(t) = ReadsIn(s)
      BY <1>6, <1>7, <1>8, <1>9, <2>2
    <3>2. QED
      BY <1>9, <2>2, <3>1
  <2>3. QED
    BY <2>1, <2>2

\* The FPGA takes the request that was sent first.
LEMMA ReadsInTail ==
    ASSUME NEW s \in Seq(Request), s # <<>>
    PROVE  ReadsIn(Tail(s)) = ReadsIn(s) - (IF IsRead(Head(s)) THEN 1 ELSE 0)
<1>1. Tail(s) \in Seq(Request) /\ Len(Tail(s)) = Len(s) - 1 /\ 1 \in 1 .. Len(s) /\ Head(s) = s[1]
  OBVIOUS
<1>2. \A j \in 1 .. Len(Tail(s)) : Tail(s)[j] = IF j < 1 THEN s[j] ELSE s[j + 1]
  OBVIOUS
<1>3. QED
  BY <1>1, <1>2, ReadsInRemoved

\* The network loses any of them.
LEMMA ReadsInWithout ==
    ASSUME NEW s \in Seq(Request), NEW i \in 1 .. Len(s)
    PROVE  ReadsIn(Without(s, i)) = ReadsIn(s) - (IF IsRead(s[i]) THEN 1 ELSE 0)
<1> DEFINE l == SubSeq(s, 1, i - 1)
           r == SubSeq(s, i + 1, Len(s))
           t == Without(s, i)
<1>1. l \in Seq(Request) /\ Len(l) = i - 1 /\ \A j \in 1 .. i - 1 : l[j] = s[j]
  OBVIOUS
<1>2. /\ r \in Seq(Request) /\ Len(r) = Len(s) - i
      /\ \A j \in 1 .. Len(s) - i : r[j] = s[i + j]
  OBVIOUS
<1>3. t = l \o r
  BY DEF Without
<1> HIDE DEF l, r, t
<1>4. t \in Seq(Request) /\ Len(t) = Len(s) - 1
  BY <1>1, <1>2, <1>3
<1>5. ASSUME NEW j \in 1 .. Len(t) PROVE t[j] = IF j < i THEN s[j] ELSE s[j + 1]
  <2>1. CASE j < i
    BY <2>1, <1>1, <1>2, <1>3, <1>4
  <2>2. CASE ~(j < i)
    <3>1. t[j] = r[j - (i - 1)] /\ j - (i - 1) \in 1 .. Len(s) - i
      BY <2>2, <1>1, <1>2, <1>3, <1>4
    <3>2. i + (j - (i - 1)) = j + 1
      OBVIOUS
    <3>3. QED
      BY <2>2, <3>1, <3>2, <1>2
  <2>3. QED
    BY <2>1, <2>2
<1>6. QED
  BY <1>4, <1>5, ReadsInRemoved DEF t

\* A call that begins is one.
LEMMA CallStarts ==
    ASSUME NEW op \in Op, NEW a \in Address, NEW v \in Value \cup {None}, Begin(op, a, v)
    PROVE  call = None /\ call' # None
<1>1. call' \in Call
  BY LinkAssumption DEF Begin, Call
<1>2. QED
  BY <1>1, CallAssumption DEF Begin

\* One element less.
LEMMA WithoutShorter ==
    ASSUME NEW S, NEW s \in Seq(S), NEW i \in 1 .. Len(s) PROVE Len(Without(s, i)) = Len(s) - 1
<1> DEFINE l == SubSeq(s, 1, i - 1)
           r == SubSeq(s, i + 1, Len(s))
<1>1. l \in Seq(S) /\ Len(l) = i - 1 /\ r \in Seq(S) /\ Len(r) = Len(s) - i
  OBVIOUS
<1>2. Without(s, i) = l \o r
  BY DEF Without
<1>a. Len(l \o r) = Len(l) + Len(r)
  BY <1>1
<1>b. Len(s) \in Nat /\ i \in Nat
  OBVIOUS
<1> HIDE DEF l, r
<1>3. QED
  BY <1>1, <1>2, <1>a, <1>b

\* Every step pays for what it takes.
LEMMA LagStep == ASSUME TypeOK, LagIsConserved, [Next]_vars PROVE LagIsConserved'
<1> USE DEF LagIsConserved
<1>0. /\ requests \in Seq(Request) /\ replies \in Seq(Reply)
      /\ ReadsIn(requests) \in Nat /\ Len(replies) \in Nat /\ lost \in Nat /\ timeouts \in Nat
      /\ None \notin Call
  BY ReadsInType, CallAssumption DEF TypeOK
<1>1. ASSUME NEW a \in Address, Read(a) PROVE LagIsConserved'
  <2>1. ReadRequest(a) \in Request /\ IsRead(ReadRequest(a))
    BY DEF ReadRequest, Request, IsRead
  <2>2. ReadsIn(requests') = ReadsIn(requests) + 1
    BY <1>0, <1>1, <2>1, ReadsInAppend DEF Read
  <2>3. call = None /\ call' # None
    BY <1>1, CallStarts DEF Read, Op
  <2>4. replies' = replies /\ lost' = lost /\ timeouts' = timeouts
    BY <1>1 DEF Read
  <2>5. QED
    BY <1>0, <2>2, <2>3, <2>4
<1>2. ASSUME NEW a \in Address, NEW v \in Value, Write(a, v) PROVE LagIsConserved'
  <2>1. WriteRequest(a, v) \in Request /\ ~IsRead(WriteRequest(a, v))
    BY DEF WriteRequest, Request, IsRead
  <2>2. ReadsIn(requests') = ReadsIn(requests)
    BY <1>0, <1>2, <2>1, ReadsInAppend DEF Write
  <2>3. QED
    BY <1>0, <1>2, <2>2 DEF Write, historyVars
<1>3. ASSUME NEW a \in Address, NEW v \in Value, WriteChecked(a, v) PROVE LagIsConserved'
  <2> DEFINE w == WriteRequest(a, v)
             r == ReadRequest(a)
  <2>1. w \in Request /\ ~IsRead(w) /\ r \in Request /\ IsRead(r)
    BY DEF WriteRequest, ReadRequest, Request, IsRead
  <2>2. requests' = requests \o <<w, r>>
    BY <1>3 DEF WriteChecked
  <2> HIDE DEF w, r
  <2>3. requests' = Append(Append(requests, w), r) /\ Append(requests, w) \in Seq(Request)
    BY <1>0, <2>1, <2>2
  <2>4. ReadsIn(Append(requests, w)) = ReadsIn(requests)
    BY <1>0, <2>1, ReadsInAppend
  <2>5. ReadsIn(requests') = ReadsIn(Append(requests, w)) + 1
    BY <2>1, <2>3, ReadsInAppend
  <2>6. call = None /\ call' # None /\ replies' = replies /\ lost' = lost /\ timeouts' = timeouts
    BY <1>3, CallStarts DEF WriteChecked, Op
  <2>7. QED
    BY <1>0, <2>4, <2>5, <2>6
<1>4. ASSUME NEW op, NEW a \in Address, Refuse(op, a) PROVE LagIsConserved'
  BY <1>4 DEF Refuse, historyVars
<1>5. CASE Receive
  <2>1. Len(replies') = Len(replies) - 1 /\ call # None /\ call' = None
    BY <1>0, <1>5 DEF Receive, Finish
  <2>2. requests' = requests /\ lost' = lost /\ timeouts' = timeouts
    BY <1>5 DEF Receive, historyVars
  <2>3. QED
    BY <1>0, <2>1, <2>2
<1>6. CASE Retry
  <2>1. call # None /\ call \in Call /\ call.left > 0 /\ call' = [call EXCEPT !.left = @ - 1]
    BY <1>6 DEF Retry, TypeOK
  <2>a. call' \in Call
    BY <2>1, LinkAssumption DEF Call
  <2>2. ReadRequest(call.address) \in Request /\ IsRead(ReadRequest(call.address))
    BY <2>1 DEF ReadRequest, Request, IsRead, Call
  <2>3. ReadsIn(requests') = ReadsIn(requests) + 1
    BY <1>0, <1>6, <2>2, ReadsInAppend DEF Retry
  <2>4. replies' = replies /\ lost' = lost /\ timeouts' = timeouts + 1 /\ call' # None
    BY <1>0, <1>6, <2>a DEF Retry
  <2>5. QED
    BY <1>0, <2>1, <2>3, <2>4
<1>7. CASE GiveUp
  BY <1>0, <1>7 DEF GiveUp, Finish
<1>8. CASE Reopen
  <2>1. PICK n \in 1 .. Len(replies) :
          replies' = SubSeq(replies, n + 1, Len(replies)) /\ lost' = lost + n
    BY <1>8 DEF Reopen
  <2>2. Len(replies') = Len(replies) - n
    BY <1>0, <2>1
  <2>3. QED
    BY <1>0, <1>8, <2>1, <2>2 DEF Reopen
<1>9. CASE FpgaWrite
  <2>1. ReadsIn(requests') = ReadsIn(requests)
    BY <1>0, <1>9, ReadsInTail DEF FpgaWrite, IsRead, IsWrite
  <2>2. QED
    BY <1>0, <1>9, <2>1 DEF FpgaWrite
<1>10. CASE FpgaRead
  <2>1. ReadsIn(requests') = ReadsIn(requests) - 1
    BY <1>0, <1>10, ReadsInTail DEF FpgaRead
  <2>2. Len(replies') = Len(replies) + 1
    BY <1>0, <1>10 DEF FpgaRead
  <2>3. QED
    BY <1>0, <1>10, <2>1, <2>2 DEF FpgaRead, historyVars
<1>11. CASE FpgaReadBusy
  <2>1. ReadsIn(requests') = ReadsIn(requests) - 1
    BY <1>0, <1>11, ReadsInTail DEF FpgaReadBusy
  <2>2. replies' = replies /\ call' = call /\ lost' = lost + 1 /\ timeouts' = timeouts
    BY <1>11 DEF FpgaReadBusy
  <2>3. QED
    BY <1>0, <2>1, <2>2
<1>12. CASE FpgaReset
  BY <1>0, <1>12, ReadsInEmpty DEF FpgaReset
<1>13. CASE LoseRequest
  <2>1. PICK i \in 1 .. Len(requests) :
          requests' = Without(requests, i) /\ lost' = IF IsRead(requests[i]) THEN lost + 1 ELSE lost
    BY <1>13 DEF LoseRequest
  <2>2. ReadsIn(requests') = ReadsIn(requests) - (IF IsRead(requests[i]) THEN 1 ELSE 0)
    BY <1>0, <2>1, ReadsInWithout
  <2>3. QED
    BY <1>0, <1>13, <2>1, <2>2 DEF LoseRequest
<1>14. CASE LoseReply
  <2>1. PICK i \in 1 .. Len(replies) : replies' = Without(replies, i)
    BY <1>14 DEF LoseReply
  <2>2. Len(replies') = Len(replies) - 1
    BY <1>0, <2>1, WithoutShorter
  <2>3. QED
    BY <1>0, <1>14, <2>2 DEF LoseReply
<1>15. CASE UNCHANGED vars
  BY <1>15 DEF vars
<1>16. QED
  BY <1>1, <1>2, <1>3, <1>4, <1>5, <1>6, <1>7, <1>8, <1>9, <1>10, <1>11, <1>12, <1>13, <1>14, <1>15
  DEF Next, HostNext, FpgaNext

\* The link is well typed.
THEOREM LinkTyped == Spec => []TypeOK
<1>1. LinkInv => TypeOK
  BY DEF LinkInv
<1>2. QED
  BY <1>1, LinkInvariance, PTL

\* What read32 has sent and not been answered is what timed out, less what was lost: the
\* lag of the link, and with it the staleness of later answers, never heals by itself.
THEOREM LagIsConservedAlways == Spec => []LagIsConserved
<1>1. Init => LagIsConserved
  BY ReadsInEmpty DEF Init, LagIsConserved
<1>2. TypeOK /\ LagIsConserved /\ [Next]_vars => LagIsConserved'
  BY LagStep
<1>3. QED
  BY <1>1, <1>2, LinkTyped, PTL DEF Spec
=============================================================================
