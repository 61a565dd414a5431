--------------------------------- MODULE Join ---------------------------------
(* The join environment of DDD (join/): local objects become copies of       *)
(* distributed objects that exist on other processors.  DDD_JoinEnd does it  *)
(* in three phases, each a collective LC_Connect and the delivery of all     *)
(* messages announced there:                                                 *)
(*   1. the joining processor tells one owner of the object, its target;     *)
(*   2. the target tells the other owners about the new copy;                *)
(*   3. the joining processor is told about all other copies, also about     *)
(*      those that joined elsewhere in the meantime.                         *)
(* Afterwards the interfaces are made anew.  The environments of module      *)
(* PrioEnv and the deletion of copies by a transfer may come before and      *)
(* after.                                                                    *)
EXTENDS PrioEnv, ConsCheck

CONSTANTS
    Joining,   \* objects that may be joined
    Targets,   \* Targets[o]: global ids that o may be joined to
    Deletable, \* objects that may be deleted by a transfer
    Moving,    \* objects whose headers may move
    FirstGids, \* the global ids in the beginning
    FirstPrios,\* the priorities to begin with
    Shared     \* may several processors join an object at the same target?

ASSUME JoinAssumption ==
    /\ Joining \cup Deletable \cup Moving \subseteq Obj
    /\ FirstGids \in [Obj -> Nat \ {0}] /\ FirstPrios \subseteq [Obj -> Prio]
    /\ Targets \in [Joining -> SUBSET (Nat \ {0})] /\ Shared \in BOOLEAN
    /\ \A o1, o2 \in Obj : Home[o1] = Home[o2] /\ FirstGids[o1] = FirstGids[o2] => o1 = o2

(* The attribute is set when an object is made and never sent: the copies of *)
(* an object have one, and what joins it must have the same.                 *)
ASSUME AttrAssumption ==
    \A o1, o2 \in Obj :
        /\ FirstGids[o1] = FirstGids[o2] => Attr[o1] = Attr[o2]
        /\ o1 \in Joining /\ FirstGids[o2] \in Targets[o1] => Attr[o1] = Attr[o2]
        /\ {o1, o2} \subseteq Joining /\ Targets[o1] \cap Targets[o2] # {} => Attr[o1] = Attr[o2]

VARIABLES
    joins,     \* joins[p]: the set of p's JIJoin items
    addCpl3,   \* addCpl3[p]: p's set of items for phase 3
    joinObjs,  \* joinObjs[p]: which object at p was contacted by which processor
    net,       \* messages on their way
    deleted,   \* deleted[p]: what p deletes in which transfer: <<round, gid>>
    threw      \* processors on which an exception or assertion ended JoinEnd
joinVars == <<joins, addCpl3, joinObjs, net, deleted, threw>>
vars == <<gid, prio, cpl, ifVars, envVars, chan, joinVars>>

(* LC_Connect of a phase returns when all processors have called it, that is *)
(* are in this phase, a later one or behind the environment.                 *)
Phases == <<"joinCmds", "phase1", "phase2", "phase3", "idle">>
PhaseOf(x) == CHOOSE i \in DOMAIN Phases : Phases[i] = x
Connected(p, x) == \A q \in Proc :
    round[q] > round[p] \/ (round[q] = round[p] /\ PhaseOf(env[q]) >= PhaseOf(x))

(* A message for each destination, as the items are sorted by it.            *)
MsgsFrom(p, x, items) ==
    {[from |-> p, to |-> d, phase |-> x, items |-> {i \in items : i.dest = d}] :
        d \in {i.dest : i \in items}}
Received(p, x) == {m \in net : m.to = p /\ m.phase = x}

-------------------------------------------------------------------------------
JoinBegin(p) ==
    Begin(p, "join", "joinCmds") /\ UNCHANGED <<gid, prio, cpl, chan, ifVars, joinVars>>

(* The tests of DDD_JoinObj; and what it takes for granted: there is such an *)
(* object with couplings at dest, none here, and the object is joined once.  *)
(* (That the others have come as far is what the application has to know: it *)
(* cannot join what a transfer is about to delete.)                          *)
(* Of several processors with the same target each learns of the owners, but *)
(* not of each other: constant Shared allows it.                             *)
JoinObj(p, o, dest, g) ==
    /\ env[p] = "joinCmds"
    /\ gid[o] # NoGid /\ cpl[o] = NoCouplings /\ dest # p
    /\ Copy(dest, g) \cap Coupled(dest, cpl) # {} /\ Copy(p, g) = {}
    /\ \A q \in Proc : round[q] >= round[p]
    /\ \A j \in joins[p] : j.obj # o /\ j.gid # g
    /\ Shared \/ \A q \in Proc : \A j \in joins[q] : <<j.dest, j.gid>> # <<dest, g>>
    /\ joins' = [joins EXCEPT ![p] = @ \cup {[obj |-> o, dest |-> dest, gid |-> g]}]
    /\ UNCHANGED <<gid, prio, cpl, chan, ifVars, envVars, addCpl3, joinObjs, net, deleted, threw>>

(* DDD_JoinEnd until LC_Connect of phase 1.  What goes into the messages     *)
(* does not change before they are packed.                                   *)
JoinEnd(p) ==
    /\ Step(p, "joinCmds", "phase1")
    /\ gid' = [o \in Obj |-> IF \E j \in joins[p] : j.obj = o
                             THEN (CHOOSE j \in joins[p] : j.obj = o).gid ELSE gid[o]]
    /\ net' = net \cup MsgsFrom(p, "phase1",
                {[dest |-> j.dest, gid |-> j.gid, prio |-> prio[j.obj]] : j \in joins[p]})
    /\ UNCHANGED <<prio, cpl, chan, ifVars, joins, addCpl3, joinObjs, deleted, threw>>

(* The joins p is asked for: <<the object, the joining processor, its        *)
(* priority>>.  Objects without couplings are not looked at.                 *)
Asked(p) ==
    UNION {{<<o, m.from, i.prio>> : i \in {x \in m.items : x.gid = gid[o]}} :
             o \in Coupled(p, cpl), m \in Received(p, "phase1")}

(* Items for objects p has no couplings of, and items for its own copy: the  *)
(* first throw or are assertions in the unpacking functions, the others an   *)
(* assertion in AddCoupling.                                                 *)
Misdirected(p, x) ==
    UNION {{i \in m.items : Copy(p, i.gid) \cap Coupled(p, cpl) = {}} : m \in Received(p, x)}
OfMyself(p, x) == UNION {{i \in m.items : i.proc = p} : m \in Received(p, x)}

Item(d, g, q, r) == [dest |-> d, gid |-> g, proc |-> q, prio |-> r]

(* Phase 2 tells the owners, as they are before the joins, of each new copy. *)
AddCpl2(asked) ==
    UNION {{Item(q, gid[c[1]], c[2], c[3]) : q \in DOMAIN cpl[c[1]]} : c \in asked}

(* Phase 3 tells the joining processor of the owners and of the target.      *)
OwnersFor(asked) ==
    UNION {{Item(c[2], gid[c[1]], q, cpl[c[1]][q]) : q \in DOMAIN cpl[c[1]]} : c \in asked}
MyselfFor(p, asked) == {Item(c[2], gid[c[1]], p, prio[c[1]]) : c \in asked}
FirstAddCpl3(p, asked) == OwnersFor(asked) \cup MyselfFor(p, asked)

(* Couplings added to a list one by one; adding is commutative as long as    *)
(* nobody speaks of one copy with two priorities.                            *)
WithCouplings(list, adds) ==
    [q \in DOMAIN list \cup {a[1] : a \in adds} |->
        IF \E a \in adds : a[1] = q THEN (CHOOSE a \in adds : a[1] = q)[2] ELSE list[q]]

UnpackPhase1(p) ==
    /\ Step(p, "phase1", "phase2") /\ Connected(p, "phase1")
    /\ LET asked == Asked(p) IN
       /\ cpl' = [o \in Obj |-> WithCouplings(cpl[o], {<<c[2], c[3]>> : c \in {x \in asked : x[1] = o}})]
       /\ addCpl3' = [addCpl3 EXCEPT ![p] = FirstAddCpl3(p, asked)]
       /\ joinObjs' = [joinObjs EXCEPT ![p] = {<<c[1], c[2]>> : c \in asked}]
       /\ net' = (net \ Received(p, "phase1")) \cup MsgsFrom(p, "phase2", AddCpl2(asked))
    /\ threw' = IF Misdirected(p, "phase1") = {} THEN threw ELSE threw \cup {p}
    /\ UNCHANGED <<gid, prio, chan, ifVars, joins, deleted>>

(* What p is told of in a phase: <<the object, a processor, its priority>>.  *)
Told(p, x, objs) ==
    UNION {{<<o, i.proc, i.prio>> : i \in {y \in m.items : y.gid = gid[o]}} :
             o \in objs, m \in Received(p, x)}
Adding(told) == [o \in Obj |-> WithCouplings(cpl[o], {<<t[2], t[3]>> : t \in {x \in told : x[1] = o}})]

(* The index of joinObjs moves on with the first item for an object, so the  *)
(* items that follow it in the message are not forwarded.                    *)
FirstOfItsObject(i, m) == \A j \in m.items : j.gid = i.gid => i.proc <= j.proc
ForwardsNothing(p) == {} \* for the mutants
Forwards(p) ==
    UNION {{Item(c[2], i.gid, i.proc, i.prio) : i \in {x \in m.items : x.gid = gid[c[1]] /\ FirstOfItsObject(x, m)}} :
             c \in joinObjs[p], m \in Received(p, "phase2")}

UnpackPhase2(p) ==
    /\ Step(p, "phase2", "phase3") /\ Connected(p, "phase2")
    /\ cpl' = Adding(Told(p, "phase2", Coupled(p, cpl)))
    /\ addCpl3' = [addCpl3 EXCEPT ![p] = @ \cup Forwards(p)]
    /\ net' = (net \ Received(p, "phase2")) \cup MsgsFrom(p, "phase3", addCpl3[p] \cup Forwards(p))
    /\ threw' = IF Misdirected(p, "phase2") \cup OfMyself(p, "phase2") = {} THEN threw ELSE threw \cup {p}
    /\ UNCHANGED <<gid, prio, chan, ifVars, joins, joinObjs, deleted>>

(* The rest of DDD_JoinEnd: the sets are reset, the interfaces made anew.    *)
JoinEndReturns(p) ==
    LET joined == {j.obj : j \in joins[p]}
        strangers == UNION {{i \in m.items : ~\E o \in joined : gid[o] = i.gid} : m \in Received(p, "phase3")}
    IN
    /\ Step(p, "phase3", "idle") /\ Connected(p, "phase3")
    /\ cpl' = Adding(Told(p, "phase3", joined))
    /\ IFAllFromScratch(p, cpl')
    /\ net' = net \ Received(p, "phase3")
    /\ joins' = [joins EXCEPT ![p] = {}]
    /\ addCpl3' = [addCpl3 EXCEPT ![p] = {}]
    /\ joinObjs' = [joinObjs EXCEPT ![p] = {}]
    /\ threw' = IF strangers \cup OfMyself(p, "phase3") = {} THEN threw ELSE threw \cup {p}
    /\ UNCHANGED <<gid, prio, chan, deleted>>

-------------------------------------------------------------------------------
(* A transfer that deletes copies, as module Xfer shows it to be in the end: *)
(* the copies are gone, and so are the couplings to them.                    *)
XferEnd(p, gids) ==
    /\ Begin(p, "xfer", "xfer")
    /\ gids \subseteq {gid[o] : o \in Copies(p) \cap Deletable}
    /\ deleted' = [deleted EXCEPT ![p] = @ \cup ({round'[p]} \X gids)]
    /\ UNCHANGED <<gid, prio, cpl, chan, ifVars, joins, addCpl3, joinObjs, net, threw>>

Deletes(q, p, o) == <<round[p], gid[o]>> \in deleted[q]
Deleted(p) == {o \in Copies(p) : Deletes(p, p, o)}
Keeping(o) == {q \in DOMAIN cpl[o] : ~Deletes(q, Home[o], o)}

XferEndReturns(p) ==
    /\ \A q \in Proc : round[q] >= round[p]
    /\ Step(p, "xfer", "idle")
    /\ cpl' = [o \in Obj |-> IF o \in Deleted(p) THEN NoCouplings
                             ELSE IF o \in Copies(p) THEN [q \in Keeping(o) |-> cpl[o][q]]
                             ELSE cpl[o]]
    /\ gid' = [o \in Obj |-> IF o \in Deleted(p) THEN NoGid ELSE gid[o]]
    /\ IFAllFromScratch(p, cpl')
    /\ UNCHANGED <<prio, chan, joins, addCpl3, joinObjs, net, deleted, threw>>

-------------------------------------------------------------------------------
(* In the beginning the couplings are consistent.                            *)
Init ==
    /\ gid = FirstGids
    /\ prio \in FirstPrios
    /\ cpl = [o \in Obj |-> [q \in {Home[x] : x \in {y \in Obj \ {o} : gid[y] = gid[o]}} |->
                              prio[CHOOSE x \in Copy(q, gid[o]) : TRUE]]]
    /\ program \in Programs
    /\ round = [p \in Proc |-> 0]
    /\ env = [p \in Proc |-> "idle"]
    /\ chan = [p \in Proc |-> [q \in Proc |-> <<>>]]
    /\ IFInit
    /\ joins = [p \in Proc |-> {}]
    /\ addCpl3 = [p \in Proc |-> {}]
    /\ joinObjs = [p \in Proc |-> {}]
    /\ net = {}
    /\ deleted = [p \in Proc |-> {}]
    /\ threw = {}

(* Steps DDD or the program takes by itself, and those left to it.           *)
Advance(p) ==
    \/ JoinBegin(p) \/ JoinEnd(p) \/ UnpackPhase1(p) \/ UnpackPhase2(p) \/ JoinEndReturns(p)
    \/ XferEndReturns(p)
    \/ (PrioBegin(p) \/ PrioEnd(p) \/ PrioEndReturns(p)) /\ UNCHANGED joinVars

Next ==
    \/ \E p \in Proc : Advance(p)
    \/ \E p \in Proc, o \in Joining, d \in Proc : Home[o] = p /\ \E g \in Targets[o] : JoinObj(p, o, d, g)
    \/ \E p \in Proc : \E gids \in SUBSET {gid[o] : o \in Deletable \cap Copies(p)} : XferEnd(p, gids)
    \/ \E o \in Changing, r \in Prio : PrioChange(o, r) /\ UNCHANGED joinVars
    \/ \E o \in Moving : Move(o) /\ UNCHANGED joinVars
    \/ \E p \in Proc : UseInterfaces(p) /\ UNCHANGED joinVars

Spec == Init /\ [][Next]_vars

-------------------------------------------------------------------------------
(* Properties.                                                               *)

Items == [dest : Proc, gid : Nat, proc : Proc, prio : Prio]

TypeOK ==
    /\ gid \in [Obj -> Nat] /\ prio \in [Obj -> Prio]
    /\ \A o \in Obj : DOMAIN cpl[o] \subseteq Proc \ {Home[o]} /\ \A q \in DOMAIN cpl[o] : cpl[o][q] \in Prio
    /\ env \in [Proc -> {"idle", "joinCmds", "phase1", "phase2", "phase3", "prioCmds", "prioExchange", "xfer"}]
    /\ \A p \in Proc : /\ addCpl3[p] \subseteq Items
                       /\ round[p] \in 0 .. Len(program)
                       /\ p \notin Explicit =>
                            \A q \in DOMAIN std[p] : ToSet(std[p][q]) \subseteq Coupled(p, cpl)
                       /\ joins[p] \subseteq [obj : Joining, dest : Proc, gid : Nat]

AllDone == \A p \in Proc : env[p] = "idle" /\ round[p] = round[CHOOSE q \in Proc : TRUE]

(* When all processors are between the same environments, every two copies   *)
(* of an object know each other, those that joined at different targets in   *)
(* the same JoinEnd included.                                                *)
Others(o) == {x \in Obj \ {o} : gid[x] = gid[o]}
OwnersKnown ==
    AllDone => \A o \in Obj : gid[o] # NoGid => DOMAIN cpl[o] = {Home[x] : x \in Others(o)}

(* In no state, however far the processors are apart in the phases, does a   *)
(* coupling lead to a processor without a copy, unless the transfer that     *)
(* deletes it is not finished here (UnpackPhase1Msgs, UnpackPhase2Msgs,      *)
(* UnpackPhase3Msgs).                                                        *)
NoDangling ==
    \A o \in Obj : \A q \in DOMAIN cpl[o] :
        \/ Copy(q, gid[o]) # {}
        \/ Deletes(q, Home[o], o) /\ env[Home[o]] = "xfer"

(* No exception and no assertion ends JoinEnd as long as the application     *)
(* joins what can be joined (jcmds.cc: "this should never happen").          *)
JoinsSucceed == threw = {}

(* What holds of coupling lists: at all times they lead to copies, and no    *)
(* message of JoinEnd finds an object without the couplings it is about; and *)
(* between the environments they are complete.                               *)
CouplingInv == NoDangling /\ JoinsSucceed /\ OwnersKnown

(* Between the environments all copies know each other's priority, and never  *)
(* a coupling has the zero of a message of DDD_PrioEnd that is too short;    *)
(* and both sides of a boundary have matching interface lists: without this, *)
(* data go to the wrong objects.                                             *)
PrioritiesKnown == \A o \in Obj : \A x \in Others(o) : gid[o] # NoGid => cpl[o][Home[x]] = prio[x]
InterfacesMatch ==
    /\ TypeOK
    /\ AllDone => /\ PrioritiesKnown
                  /\ \A p, q \in Proc : {p, q} \cap Explicit = {} => SidesMatch(p, q)

(* The consistency check raises no false alarm: whatever the order of its    *)
(* items, it finds no errors after complete environments.                    *)
Refreshed == \A p \in Proc : std[p] = IFCollectStdCouplings(p, cpl) /\ heads[p] = IFHeads(p, cpl)
NoFalseAlarm ==
    AllDone /\ Refreshed =>
        /\ DDD_ConsCheck({}) = 0 /\ DDD_ConsCheck(Obj \X Obj) = 0
        /\ \A p \in Proc : ConsCheckGlobalCpl(p) = 0

(* The message a processor in PrioEnd waits for next has an item for each    *)
(* object of its list, although the sender may be an environment ahead.      *)
ExchangeMatches ==
    \A p, q \in Proc : env[p] = "prioExchange" /\ q \in DOMAIN std[p] /\ chan[q][p] # <<>> =>
        /\ Len(Head(chan[q][p])) = Len(std[p][q])
        /\ round[q] = round[p] => GidsOf(StdOf(q, p)) = GidsOf(std[p][q])

(* Until all are through the program some processor can go on; as each of    *)
(* these steps brings it nearer to its end, nobody waits forever, neither    *)
(* for the collective LC_Connect nor for the message of a neighbour who does *)
(* not know of the boundary (ddd_StdIFExchangeX).                            *)
CanGoOn(p) ==
    \/ env[p] \in {"joinCmds", "prioCmds"}
    \/ env[p] = "idle" /\ round[p] < Len(program)
    \/ env[p] \in {"phase1", "phase2", "phase3"} /\ Connected(p, env[p])
    \/ env[p] = "xfer" /\ \A q \in Proc : round[q] >= round[p]
    \/ env[p] = "prioExchange" /\ \A q \in DOMAIN std[p] : chan[q][p] # <<>>
SomebodyGoesOn ==
    (\E p \in Proc : env[p] # "idle" \/ round[p] < Len(program)) => \E p \in Proc : CanGoOn(p)
===============================================================================
