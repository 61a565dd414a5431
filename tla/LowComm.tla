------------------------------- MODULE LowComm --------------------------------
(* The communication layer of DDD (basic/lowcomm.cc): a collective phase in  *)
(* which every processor creates messages, LC_Connect tells the receivers    *)
(* and posts their receives, and LC_Communicate polls until all messages are *)
(* through.  Buffers for messages to be sent are scarce: LC_MsgAlloc polls   *)
(* until earlier messages have given theirs back.                            *)
(*                                                                           *)
(* Callers use it in two ways.  Objects are transferred with buffers that    *)
(* are allocated after LC_Connect, one by one (xfer/pack.cc); all others     *)
(* allocate before (LC_MsgPrepareSend).  At most one message goes from one   *)
(* processor to another in a phase.                                          *)
(*                                                                           *)
(* MPI matches the sends and receives between two processors in the order    *)
(* they were started.  It may move messages at any time, but has to only     *)
(* while the receiver polls for them.                                        *)
EXTENDS GlobalNotify, FiniteSets

CONSTANTS
    LatePhases, \* phases that allocate after LC_Connect
    Raising,    \* phases in which a processor may call LC_Abort
    RecvFails,  \* phases in which the allocation of receive buffers may fail
    Room,       \* Room[p]: send buffers that fit into p's memory
    MaxMsgs     \* bound of messages, all phases together

(* LC_Abort is called by DDD_XferEnd only, in place of the phase of its      *)
(* object messages (xfer/cmds.cc): a late one.                               *)
ASSUME PhasesAssumption ==
    /\ MaxCalls \in Nat /\ LatePhases \cup Raising \cup RecvFails \subseteq 1 .. MaxCalls
    /\ Raising \subseteq LatePhases
ASSUME RoomAssumption == IsFiniteSet(Proc) /\ Room \in [Proc -> Nat] /\ MaxMsgs \in Nat

VARIABLES
    pc,         \* where p is in its phase
    sendQueue,  \* sendQueue[p][q]: state of p's message to q
    recvQueue,  \* recvQueue[p][q]: state of the message p receives from q
    sendBufs,   \* number of send buffers p has allocated
    recvBuf,    \* theRecvBuffer: the phase it was allocated in, 0 if none
    sent,       \* sent[p][q]: phases of the sends started from p to q
    posted,     \* posted[p][q]: phases of the receives p has started for q
    arrived     \* arrived[p][q]: how many messages from p to q went through

lcVars == <<pc, sendQueue, recvQueue, sendBufs, recvBuf, sent, posted, arrived>>
vars == <<calls, inCall, result, lcVars>>

MsgState == {"none", "FREEZED", "ALLOCATED", "COMM", "READY"}
Phase(p) == Len(calls[p])
InState(queue, p, s) == {q \in Proc : queue[p][q] = s}
NoMsgs == [q \in Proc |-> "none"]

TypeOK ==
    /\ pc \in [Proc -> {"idle", "prepare", "connect", "pack", "communicate", "thrown", "nomem", "exited"}]
    /\ sendQueue \in [Proc -> [Proc -> MsgState]]
    /\ recvQueue \in [Proc -> [Proc -> {"none", "COMM", "READY"}]]
    /\ sendBufs \in [Proc -> Nat]
    /\ recvBuf \in [Proc -> 0 .. MaxCalls]
    /\ sent \in [Proc -> [Proc -> Seq(1 .. MaxCalls)]]
    /\ posted \in [Proc -> [Proc -> Seq(1 .. MaxCalls)]]
    /\ arrived \in [Proc -> [Proc -> Nat]]
    /\ \A p \in Proc : sendBufs[p] <= Room[p]

Init ==
    /\ GlobalInit
    /\ pc = [p \in Proc |-> "idle"]
    /\ sendQueue = [p \in Proc |-> NoMsgs]
    /\ recvQueue = [p \in Proc |-> NoMsgs]
    /\ sendBufs = [p \in Proc |-> 0]
    /\ recvBuf = [p \in Proc |-> 0]
    /\ sent = [p \in Proc |-> [q \in Proc |-> <<>>]]
    /\ posted = [p \in Proc |-> [q \in Proc |-> <<>>]]
    /\ arrived = [p \in Proc |-> [q \in Proc |-> 0]]

-------------------------------------------------------------------------------
(* The messages, and how they move.                                          *)

MsgsSoFar ==
    {m \in [from : Proc, to : Proc, phase : 1 .. MaxCalls] :
        \/ m.phase <= Len(calls[m.from]) /\ m.to \in calls[m.from][m.phase].dests
        \/ /\ m.phase = Len(calls[m.from]) + 1
           /\ pc[m.from] = "prepare" /\ sendQueue[m.from][m.to] # "none"}

(* Started sends and receives of two processors meet in order. *)
Matched(p, q) == LET s == Len(sent[p][q])
                     r == Len(posted[q][p])
                 IN IF s < r THEN s ELSE r

(* LC_PollRecv: whatever has a matching send is received. *)
PollRecv(p) ==
    /\ arrived' = [q \in Proc |-> [arrived[q] EXCEPT ![p] = Matched(q, p)]]
    /\ recvQueue' = [recvQueue EXCEPT ![p] = [q \in Proc |->
            IF @[q] = "COMM" /\ arrived'[q][p] = Len(posted[p][q]) THEN "READY" ELSE @[q]]]

(* Mutant of the next: the buffers are not freed. *)
PollSendKeepsBuffers(p, copied) ==
    LET done == {q \in InState(sendQueue, p, "COMM") : q \in copied \/ arrived[p][q] = Len(sent[p][q])}
    IN /\ sendQueue' = [sendQueue EXCEPT ![p] = [q \in Proc |-> IF q \in done THEN "READY" ELSE @[q]]]
       /\ UNCHANGED sendBufs

(* LC_PollSend: the buffers of finished sends are freed.  MPI finishes a     *)
(* send when it is received, or earlier when it has copied the message.      *)
PollSend(p, copied) ==
    LET done == {q \in InState(sendQueue, p, "COMM") : q \in copied \/ arrived[p][q] = Len(sent[p][q])}
    IN /\ sendQueue' = [sendQueue EXCEPT ![p] = [q \in Proc |-> IF q \in done THEN "READY" ELSE @[q]]]
       /\ sendBufs' = [sendBufs EXCEPT ![p] = @ - Cardinality(done)]

(* LC_MsgSend *)
Send(p, dests) ==
    /\ sendQueue' = [sendQueue EXCEPT ![p] = [q \in Proc |-> IF q \in dests THEN "COMM" ELSE @[q]]]
    /\ sent' = [sent EXCEPT ![p] = [q \in Proc |-> IF q \in dests THEN Append(@[q], Phase(p)) ELSE @[q]]]

(* LC_Cleanup: the queues are freed in whatever state the messages are, and  *)
(* the receive buffer with them; buffers of unsent messages are not freed.   *)
Cleanup(p) ==
    /\ sendQueue' = [sendQueue EXCEPT ![p] = NoMsgs]
    /\ recvQueue' = [recvQueue EXCEPT ![p] = NoMsgs]
    /\ recvBuf' = [recvBuf EXCEPT ![p] = 0]

Goto(p, l) == pc' = [pc EXCEPT ![p] = l]

-------------------------------------------------------------------------------
(* One phase. *)

(* LC_NewSendMsg and LC_MsgFreeze for one message to each destination. *)
NewSendMsgs(p, dests) ==
    /\ pc[p] = "idle"
    /\ Phase(p) < MaxCalls
    /\ dests # {} => Cardinality(MsgsSoFar) + Cardinality(dests) <= MaxMsgs
    /\ sendQueue' = [sendQueue EXCEPT ![p] = [q \in Proc |-> IF q \in dests THEN "FREEZED" ELSE "none"]]
    /\ Goto(p, "prepare")
    /\ UNCHANGED <<abstractVars, recvQueue, sendBufs, recvBuf, sent, posted, arrived>>

(* LC_Abort: somebody cannot go on and tells the others. *)
LC_Abort(p) ==
    /\ pc[p] = "idle"
    /\ Phase(p) + 1 \in Raising
    /\ \E e \in Exceptions : Call(p, Raise(e))
    /\ Goto(p, "connect")
    /\ UNCHANGED <<sendQueue, recvQueue, sendBufs, recvBuf, sent, posted, arrived>>

IsLate(p) == IF pc[p] = "prepare" THEN Phase(p) + 1 \in LatePhases ELSE Phase(p) \in LatePhases
Allocating(p) == pc[p] = (IF IsLate(p) THEN "pack" ELSE "prepare") /\ InState(sendQueue, p, "FREEZED") # {}
HasRoom(p) == sendBufs[p] < Room[p]

(* LC_MsgPrepareSend *)
PrepareSend(p, q) ==
    /\ Allocating(p) /\ ~IsLate(p)
    /\ sendQueue[p][q] = "FREEZED"
    /\ HasRoom(p)
    /\ sendQueue' = [sendQueue EXCEPT ![p][q] = "ALLOCATED"]
    /\ sendBufs' = [sendBufs EXCEPT ![p] = @ + 1]
    /\ UNCHANGED <<abstractVars, pc, recvQueue, recvBuf, sent, posted, arrived>>

(* LC_Connect, up to the return of DDD_Notify. *)
LC_Connect(p) ==
    /\ pc[p] = "prepare"
    /\ ~Allocating(p)
    /\ Call(p, Announce({q \in Proc : sendQueue[p][q] # "none"}))
    /\ Goto(p, "connect")
    /\ UNCHANGED <<sendQueue, recvQueue, sendBufs, recvBuf, sent, posted, arrived>>

(* An exception ends the phase everywhere. *)
ConnectFails(p) ==
    /\ pc[p] = "connect"
    /\ Return(p)
    /\ result'[p].exc # 0
    /\ Cleanup(p)
    /\ Goto(p, "idle")
    /\ UNCHANGED <<sendBufs, sent, posted, arrived>>

(* LC_PrepareRecv *)
Connected(p) ==
    /\ pc[p] = "connect"
    /\ Return(p)
    /\ result'[p].exc = 0
    /\ LET senders == result'[p].senders
       IN /\ recvQueue' = [recvQueue EXCEPT ![p] = [q \in Proc |-> IF q \in senders THEN "COMM" ELSE "none"]]
          /\ posted' = [posted EXCEPT ![p] = [q \in Proc |-> IF q \in senders THEN Append(@[q], Phase(p)) ELSE @[q]]]
          /\ recvBuf' = [recvBuf EXCEPT ![p] = IF senders # {} THEN Phase(p) ELSE 0]
    /\ Goto(p, "pack")
    /\ UNCHANGED <<sendQueue, sendBufs, sent, arrived>>

(* Without memory for what it is to receive a processor exits: it is too     *)
(* late to tell the others.                                                  *)
PrepareRecvFails(p) ==
    /\ pc[p] = "connect"
    /\ Phase(p) \in RecvFails
    /\ Return(p)
    /\ result'[p].exc = 0 /\ result'[p].senders # {}
    /\ Goto(p, "exited")
    /\ UNCHANGED <<sendQueue, recvQueue, sendBufs, recvBuf, sent, posted, arrived>>

(* LC_MsgAlloc, packing and LC_MsgSend of a message in a late phase. *)
PackMsg(p, q) ==
    /\ Allocating(p) /\ IsLate(p)
    /\ sendQueue[p][q] = "FREEZED"
    /\ HasRoom(p)
    /\ Send(p, {q})
    /\ sendBufs' = [sendBufs EXCEPT ![p] = @ + 1]
    /\ UNCHANGED <<abstractVars, pc, recvQueue, recvBuf, posted, arrived>>

(* Mutant of the next: only sends are polled. *)
RetryAllocSends(p, copied) ==
    /\ Allocating(p)
    /\ ~HasRoom(p)
    /\ InState(sendQueue, p, "COMM") # {}
    /\ PollSend(p, copied)
    /\ UNCHANGED <<abstractVars, pc, recvQueue, recvBuf, sent, posted, arrived>>

(* The loop of LC_MsgAlloc when there is no room: it polls its receives too, *)
(* as all processors may be in this loop.                                    *)
RetryAlloc(p, copied) ==
    /\ Allocating(p)
    /\ ~HasRoom(p)
    /\ InState(sendQueue, p, "COMM") # {}
    /\ PollRecv(p)
    /\ PollSend(p, copied)
    /\ UNCHANGED <<abstractVars, pc, recvBuf, sent, posted>>

(* Mutant of the next: no retry. *)
GiveUpAtOnce(p) ==
    /\ Allocating(p)
    /\ ~HasRoom(p)
    /\ IF IsLate(p)
       THEN Cleanup(p) /\ Goto(p, "nomem")
       ELSE Goto(p, "thrown") /\ UNCHANGED <<sendQueue, recvQueue, recvBuf>>
    /\ UNCHANGED <<abstractVars, sendBufs, sent, posted, arrived>>

(* Nothing is left to wait for.  LC_MsgPrepareSend throws, XferPackMsgs      *)
(* makes XferEnd clean up; either way this processor does not go on.         *)
GiveUp(p) ==
    /\ Allocating(p)
    /\ ~HasRoom(p)
    /\ InState(sendQueue, p, "COMM") = {}
    /\ IF IsLate(p)
       THEN Cleanup(p) /\ Goto(p, "nomem")
       ELSE Goto(p, "thrown") /\ UNCHANGED <<sendQueue, recvQueue, recvBuf>>
    /\ UNCHANGED <<abstractVars, sendBufs, sent, posted, arrived>>

(* Messages that had their buffers before are sent now. *)
StartCommunicate(p) ==
    /\ pc[p] = "pack"
    /\ ~Allocating(p)
    /\ Send(p, InState(sendQueue, p, "ALLOCATED"))
    /\ Goto(p, "communicate")
    /\ UNCHANGED <<abstractVars, recvQueue, sendBufs, recvBuf, posted, arrived>>

SendsInComm(p) == InState(sendQueue, p, "COMM") # {}    \* mutant: waits for sends only
InComm(p) == InState(sendQueue, p, "COMM") # {} \/ InState(recvQueue, p, "COMM") # {}

LC_Communicate(p, copied) ==
    /\ pc[p] = "communicate"
    /\ InComm(p)
    /\ PollRecv(p)
    /\ PollSend(p, copied)
    /\ UNCHANGED <<abstractVars, pc, recvBuf, sent, posted>>

(* The messages are unpacked, and LC_Cleanup ends the phase. *)
Finish(p) ==
    /\ pc[p] = "communicate"
    /\ ~InComm(p)
    /\ Cleanup(p)
    /\ Goto(p, "idle")
    /\ UNCHANGED <<abstractVars, sendBufs, sent, posted, arrived>>

Step(p, copied) ==
    \/ \E q \in Proc : PrepareSend(p, q) \/ PackMsg(p, q)
    \/ LC_Connect(p) \/ ConnectFails(p) \/ Connected(p) \/ PrepareRecvFails(p)
    \/ RetryAlloc(p, copied) \/ LC_Communicate(p, copied)
    \/ GiveUp(p) \/ StartCommunicate(p) \/ Finish(p)

Next == \E p \in Proc :
    \/ \E dests \in SUBSET (Proc \ {p}) : NewSendMsgs(p, dests)
    \/ LC_Abort(p)
    \/ \E copied \in SUBSET InState(sendQueue, p, "COMM") : Step(p, copied)

Spec == Init /\ [][Next]_vars

(* Every processor takes part in each phase, with messages or without, and   *)
(* is not stopped in it.  Nobody relies on copies that MPI may make.         *)
FairSpec == Spec /\ \A p \in Proc : WF_vars(NewSendMsgs(p, {}) \/ Step(p, {}))

-------------------------------------------------------------------------------
Gone(p) == pc[p] \in {"thrown", "nomem", "exited"}

(* A message is received in the phase it was sent in: its size and its type  *)
(* are those the receive was started with (the checks of LC_MsgRecv).        *)
MeetsItsReceive == \A p, q \in Proc : \A i \in 1 .. Matched(p, q) :
    sent[p][q][i] = posted[q][p][i]

(* MPI never writes into a receive buffer that has been freed. *)
HasItsBuffer(p) == \A q \in Proc : \A i \in arrived[q][p] + 1 .. Len(posted[p][q]) :
    recvBuf[p] = posted[p][q][i]
ReceivesHaveBuffers == \A p \in Proc : ~Gone(p) => HasItsBuffer(p)

(* Send buffers belong to messages. *)
NoLeak == \A p \in Proc : pc[p] # "nomem" =>
    sendBufs[p] = Cardinality(InState(sendQueue, p, "ALLOCATED") \cup InState(sendQueue, p, "COMM"))

(* Messages and buffers in whatever phase and after whatever exception:      *)
(* messages meet the receives posted for them; buffers are within the        *)
(* memory, each owned by a message, and never freed under a receive of a     *)
(* processor that goes on.                                                   *)
BuffersInv == TypeOK /\ MeetsItsReceive /\ NoLeak /\ ReceivesHaveBuffers

(* With room for a single buffer any number of messages is sent in a late    *)
(* phase: the retries of LC_MsgAlloc get it back each time.                  *)
OneBufferIsEnough == \A p \in Proc : pc[p] = "nomem" => Room[p] = 0

(* Who has left a phase has received everything announced to it so far,      *)
(* unless an exception ended the phase.                                      *)
AnnouncedIsReceived == \A p, q \in Proc :
    pc[p] = "idle" /\ ~inCall[p] => arrived[q][p] = Cardinality(
        {k \in 1 .. Phase(p) : Raised(k) = {0} /\ p \in calls[q][k].dests})

(* All calls of LC_Communicate return, and those of LC_MsgAlloc before them, *)
(* unless some processor has gone.                                           *)
PhaseReturns == \A p \in Proc :
    pc[p] = "connect" ~> pc[p] = "idle" \/ \E q \in Proc : Gone(q)
===============================================================================
