------------------------------- MODULE PrioEnv --------------------------------
(* The priority environment of DDD (prio/pcmds.cc): between DDD_PrioBegin    *)
(* and DDD_PrioEnd every processor sets priorities of its objects directly;  *)
(* DDD_PrioEnd sends all of them over the standard interface, adapts the     *)
(* couplings, and makes the interfaces anew.  It is a communication between  *)
(* neighbours: a processor whose neighbours are done goes on, whatever the   *)
(* others do.                                                                *)
(*                                                                           *)
(* All processors run through the same environments in the same order, as    *)
(* collective operations ask for: variable program.                          *)
EXTENDS Interfaces

CONSTANTS
    Changing, \* objects the application changes the priority of
    Programs  \* the sequences of environments to look at

ASSUME PrioAssumption == Changing \subseteq Obj /\ Programs \subseteq Seq({"join", "prio", "xfer"})

VARIABLES
    program,  \* the environments of this run
    round,    \* round[p]: how many of them p has begun
    env,      \* env[p]: the environment p is in, and how far
    chan      \* chan[p][q]: messages of p on their way to q
envVars == <<program, round, env>>

(* The next environment of p is x; between environments the application has  *)
(* to refresh interfaces itself if it has taken that over.                   *)
Begin(p, x, first) ==
    /\ env[p] = "idle" /\ round[p] < Len(program) /\ program[round[p] + 1] = x
    /\ std[p] = IFCollectStdCouplings(p, cpl) /\ heads[p] = IFHeads(p, cpl)
    /\ round' = [round EXCEPT ![p] = @ + 1]
    /\ env' = [env EXCEPT ![p] = first]
    /\ UNCHANGED program

Step(p, from, to) == env[p] = from /\ env' = [env EXCEPT ![p] = to] /\ UNCHANGED <<program, round>>

PrioBegin(p) == Begin(p, "prio", "prioCmds") /\ UNCHANGED <<gid, prio, cpl, chan, ifVars>>

PrioChange(o, r) ==
    /\ env[Home[o]] = "prioCmds" /\ gid[o] # NoGid /\ prio[o] # r
    /\ prio' = [prio EXCEPT ![o] = r]
    /\ UNCHANGED <<gid, cpl, chan, envVars, ifVars>>

(* For the mutants: only to the neighbours in the other interface.           *)
PrioEndOverAB(p) ==
    /\ Step(p, "prioCmds", "prioExchange")
    /\ chan' = [chan EXCEPT ![p] = [q \in Proc |->
                  IF q \in DOMAIN heads[p]
                  THEN Append(@[q], [i \in DOMAIN std[p][q] |-> prio[std[p][q][i]]])
                  ELSE @[q]]]
    /\ UNCHANGED <<gid, prio, cpl, ifVars>>

(* DDD_PrioEnd as far as ddd_StdIFExchangeX has sent its messages.           *)
PrioEnd(p) ==
    /\ Step(p, "prioCmds", "prioExchange")
    /\ chan' = [chan EXCEPT ![p] = [q \in Proc |->
                  IF q \in DOMAIN std[p]
                  THEN Append(@[q], [i \in DOMAIN std[p][q] |-> prio[std[p][q][i]]])
                  ELSE @[q]]]
    /\ UNCHANGED <<gid, prio, cpl, ifVars>>

(* The rest: when the messages of all neighbours are in.  A message that is  *)
(* too short leaves zeros in the receive buffer.                             *)
Position(seq, o) == CHOOSE i \in DOMAIN seq : seq[i] = o
Zeros(msg, i) == IF i \in DOMAIN msg THEN msg[i] ELSE 0

ScatterPrio(p) ==
    [o \in Obj |-> IF Home[o] # p THEN cpl[o]
                   ELSE [q \in DOMAIN cpl[o] |->
                          IF q \in DOMAIN std[p] /\ o \in ToSet(std[p][q])
                          THEN Zeros(Head(chan[q][p]), Position(std[p][q], o))
                          ELSE cpl[o][q]]]

PrioEndReturns(p) ==
    /\ \A q \in DOMAIN std[p] : chan[q][p] # <<>>
    /\ Step(p, "prioExchange", "idle")
    /\ cpl' = ScatterPrio(p)
    /\ IFAllFromScratch(p, cpl')
    /\ chan' = [q \in Proc |-> IF q \in DOMAIN std[p] THEN [chan[q] EXCEPT ![p] = Tail(@)] ELSE chan[q]]
    /\ UNCHANGED <<gid, prio>>

(* What the application does with interfaces between environments.           *)
UseInterfaces(p) ==
    /\ env[p] = "idle"
    /\ IFRefreshAll(p) \/ IFExecLocal(p)
    /\ UNCHANGED <<chan, envVars>>

Move(o) == env[Home[o]] = "idle" /\ HdrConstructorMove(o) /\ UNCHANGED <<chan, envVars>>
===============================================================================
