--------------------------------- MODULE Xfer ---------------------------------
(***************************************************************************)
(* The transfer module of DDD (ddd/xfer).  Between XferBegin and XferEnd    *)
(* every processor collects commands on its local object copies: send a     *)
(* copy to another processor, change the priority, delete the copy.         *)
(* XferEnd executes them collectively in up to three communication phases   *)
(*                                                                         *)
(*   "cmd"  (only with OPT_XFER_PRUNE_DELETE) tells the owners of a copy    *)
(*          that another copy is on its way, which discards their deletions *)
(*   "obj"  the copies themselves, and estimates of the coupling changes    *)
(*   "cpl"  the corrections of the couplings                                *)
(*                                                                         *)
(* and has to leave every processor with a correct coupling list: who else  *)
(* owns a copy of this object, and with which priority.                     *)
(*                                                                         *)
(* LC_Connect is the collective call that starts a phase: it returns only   *)
(* when all processors have called it (Notify runs a wave up and a wave     *)
(* down a tree).  conn[p] numbers p's calls.  LC_Communicate returns when   *)
(* everything that was announced to the processor has arrived.              *)
(***************************************************************************)
EXTENDS PrioMerge, FiniteSets

CONSTANTS
    Proc,           \* the processors
    Gid,            \* global ids of the distributed objects
    NoPrio,         \* "no object" or "no coupling"
    PrioInvalid,    \* PRIO_INVALID: a coupling that is not to be restored
    Prune,          \* option OPT_XFER_PRUNE_DELETE
    NoMem,          \* allocations in XferEnd may fail
    MixPrioDelete,  \* one processor may change and delete the same copy
    MaxCommands,    \* bound on the commands pending in the whole machine
    MaxRounds       \* bound on the transfers of a processor

ASSUME XferAssumption ==
    /\ IsFiniteSet(Proc)
    /\ NoPrio \notin Prio /\ PrioInvalid \notin Prio \cup {NoPrio}
    /\ {Prune, NoMem, MixPrioDelete} \subseteq BOOLEAN
    /\ MaxCommands \in Nat /\ MaxRounds \in Nat

VARIABLES
    obj,        \* obj[p][g]: OBJ_PRIO of p's copy of g, or NoPrio
    cpl,        \* cpl[p][g][q]: priority of q's copy in p's coupling list of g
    pruned,     \* pruned[p]: p's copies with flag OBJ_PRUNED
    resent,     \* resent[p]: p's copies with flag OBJ_RESENT
    mode,       \* xferMode
    pc,         \* where p is in XferEnd
    conn,       \* number of calls of LC_Connect or LC_Abort
    abortAt,    \* those of them that were an LC_Abort
    rounds,     \* number of calls of XferBegin
    copyObj,    \* copyObj[p][g][dest]: priority of the XICopyObj item
    setPrio,    \* setPrio[p][g]: priority of the XISetPrio item
    delCmd,     \* gids of the XIDelCmd items
    newOwner,   \* arrayNewOwners, as pairs <<gid, dest>>
    delObj,     \* delObj[p][g][q]: the XIDelObj items with their delcpls
    modCpl,     \* XIModCpl items made so far
    coupled,    \* localCplObjs
    out,        \* messages prepared for the phase p has announced
    msgs,       \* messages sent and not yet unpacked
    fault       \* processors on which ModCoupling threw

objVars  == <<obj, cpl, pruned, resent>>
cmdVars  == <<copyObj, setPrio, delCmd>>
itemVars == <<newOwner, delObj, modCpl, coupled>>
ctrlVars == <<mode, pc, conn, abortAt, rounds>>
vars == <<objVars, cmdVars, itemVars, ctrlVars, out, msgs, fault>>

------------------------------------------------------------------------------
(* Couplings *)

NoCopies   == [g \in Gid |-> [q \in Proc |-> NoPrio]]
NoSetPrio  == [g \in Gid |-> NoPrio]
NoDelObj   == [g \in {} |-> {}]

(* InfoProcList: the other owners of a copy, as p knows them. *)
Partners(p, g) == {q \in Proc : cpl[p][g][q] # NoPrio}
HasCpl(p, g)   == Partners(p, g) # {}

(* LocalCoupledObjectsList *)
LocalCoupledObjects(p) == {g \in Gid : obj[p][g] # NoPrio /\ HasCpl(p, g)}

------------------------------------------------------------------------------
(* Messages *)

CmdMsg(p, q, gids) == [kind |-> "cmd", from |-> p, to |-> q, gids |-> gids]
ObjMsg(p, q, objs, newCpl, oldCpl) ==
    [kind |-> "obj", from |-> p, to |-> q, objs |-> objs, newCpl |-> newCpl, oldCpl |-> oldCpl]
CplMsg(p, q, mod, del, add) ==
    [kind |-> "cpl", from |-> p, to |-> q, mod |-> mod, del |-> del, add |-> add]

Received(p, kind) == {m \in msgs : m.to = p /\ m.kind = kind}

(* Mutants: p goes on without waiting; p sees only its own exception. *)
ConnectedAtOnce(p) == TRUE
OwnException(p) == conn[p] \in abortAt[p]

(* LC_Connect can return at p. *)
Connected(p) == \A q \in Proc : conn[q] >= conn[p]
(* Some processor raised an exception in p's current call of LC_Connect. *)
Exception(p) == \E q \in Proc : conn[p] \in abortAt[q]
(* LC_Communicate can return at p: nothing announced is still unsent. *)
Communicated(p, kind) ==
    \A q \in Proc : \A m \in out[q] : ~(m.to = p /\ m.kind = kind)

------------------------------------------------------------------------------
(* Commands *)

NItems(p) == Cardinality({x \in Gid \X Proc : copyObj[p][x[1]][x[2]] # NoPrio})
             + Cardinality({g \in Gid : setPrio[p][g] # NoPrio}) + Cardinality(delCmd[p])
NCommands == MapThenSumSet(NItems, Proc)

(* The sets of items merge the priorities of equal items (rules XFER-C1,     *)
(* P1).                                                                      *)
MergeInto(old, prio) == IF old = NoPrio THEN prio ELSE MergedPrio(old, prio)

(* XferPrioChange and XferDeleteObj do not look at the mode: called outside  *)
(* of a transfer, the item waits for the next one (bounded by MaxRounds).    *)
CanCommand(p, g) ==
    /\ pc[p] = "user" /\ obj[p][g] # NoPrio
    /\ mode[p] = "CMDS" \/ rounds[p] < MaxRounds

PrioAndDeleteOk(p) ==
    MixPrioDelete \/ \A g \in delCmd'[p] : setPrio'[p][g] = NoPrio

XferBegin(p) ==
    /\ pc[p] = "user" /\ mode[p] = "IDLE"
    /\ rounds[p] < MaxRounds
    /\ mode' = [mode EXCEPT ![p] = "CMDS"]
    /\ rounds' = [rounds EXCEPT ![p] = @ + 1]
    /\ UNCHANGED <<objVars, cmdVars, itemVars, pc, conn, abortAt, out, msgs, fault>>

(* A copy for the processor itself degrades to a change of priority (XFER-C4). *)
XferCopyObj(p, g, dest, prio) ==
    /\ CanCommand(p, g) /\ mode[p] = "CMDS"
    /\ IF dest = p
         THEN /\ setPrio' = [setPrio EXCEPT ![p][g] = MergeInto(@, prio)]
              /\ UNCHANGED copyObj
         ELSE /\ copyObj' = [copyObj EXCEPT ![p][g][dest] = MergeInto(@, prio)]
              /\ UNCHANGED setPrio
    /\ UNCHANGED delCmd
    /\ PrioAndDeleteOk(p) /\ NCommands' <= MaxCommands
    /\ UNCHANGED <<objVars, itemVars, ctrlVars, out, msgs, fault>>

XferPrioChange(p, g, prio) ==
    /\ CanCommand(p, g)
    /\ setPrio' = [setPrio EXCEPT ![p][g] = MergeInto(@, prio)]
    /\ UNCHANGED <<copyObj, delCmd>>
    /\ PrioAndDeleteOk(p) /\ NCommands' <= MaxCommands
    /\ UNCHANGED <<objVars, itemVars, ctrlVars, out, msgs, fault>>

XferDeleteObj(p, g) ==
    /\ CanCommand(p, g)
    /\ delCmd' = [delCmd EXCEPT ![p] = @ \cup {g}]
    /\ UNCHANGED <<copyObj, setPrio>>
    /\ PrioAndDeleteOk(p) /\ NCommands' <= MaxCommands
    /\ UNCHANGED <<objVars, itemVars, ctrlVars, out, msgs, fault>>

------------------------------------------------------------------------------
(* XferEnd: preparation.  All of this reads local data only. *)

(* Mutant: owners of a copy count as new owners too. *)
AllOwners(p) == {o \in Gid \X Proc : copyObj[p][o[1]][o[2]] # NoPrio}

(* Destinations without a copy so far, as p's coupling lists say. *)
NewOwners(p) ==
    {o \in Gid \X Proc : copyObj[p][o[1]][o[2]] # NoPrio /\ cpl[p][o[1]][o[2]] = NoPrio}
Dests(owners, g) == {o[2] : o \in {x \in owners : x[1] = g}}

(* CplClosureEstimate: the other owners, and the other new owners, learn of  *)
(* every new owner; a new owner learns of all the old ones.                  *)
NewCplItems(p) ==
    UNION {{[to |-> q, gid |-> o[1], dest |-> o[2], prio |-> copyObj[p][o[1]][o[2]]] :
                q \in Partners(p, o[1]) \cup (Dests(NewOwners(p), o[1]) \ {o[2]})} :
           o \in NewOwners(p)}
OldCplItems(p) ==
    UNION {{[to |-> o[2], gid |-> o[1], proc |-> q,
             prio |-> IF q = p THEN obj[p][o[1]] ELSE cpl[p][o[1]][q]] :
                q \in Partners(p, o[1]) \cup {p}} :
           o \in NewOwners(p)}

(* PrepareObjMsgs *)
ObjMsgs(p) ==
    LET To(q) == ObjMsg(p, q,
                    {[gid |-> g, prio |-> copyObj[p][g][q]] :
                        g \in {h \in Gid : copyObj[p][h][q] # NoPrio}},
                    {i \in NewCplItems(p) : i.to = q},
                    {i \in OldCplItems(p) : i.to = q})
    IN  {m \in {To(q) : q \in Proc \ {p}} : m.objs # {} \/ m.newCpl # {}}

(* PrepareCmdMsgs: the gids of copies for processors that own one already. *)
CmdMsgs(p) ==
    LET Gids(q) == {g \in Gid : copyObj[p][g][q] # NoPrio /\ cpl[p][g][q] # NoPrio}
    IN  {CmdMsg(p, q, Gids(q)) : q \in {r \in Proc : Gids(r) # {}}}

CallConnect(p, at, messages) ==
    /\ pc' = [pc EXCEPT ![p] = at]
    /\ conn' = [conn EXCEPT ![p] = @ + 1]
    /\ out' = [out EXCEPT ![p] = messages]

(* The call of LC_Connect for the objects; or LC_Abort, without memory. *)
ConnectObj(p) ==
    \/ /\ CallConnect(p, "connect", ObjMsgs(p))
       /\ newOwner' = [newOwner EXCEPT ![p] = NewOwners(p)]
       /\ UNCHANGED abortAt
    \/ /\ NoMem /\ NewOwners(p) # {}
       /\ CallConnect(p, "connect", {})
       /\ abortAt' = [abortAt EXCEPT ![p] = @ \cup {conn[p] + 1}]
       /\ UNCHANGED newOwner

XferEnd(p) ==
    /\ pc[p] = "user" /\ mode[p] = "CMDS"
    /\ mode' = [mode EXCEPT ![p] = "BUSY"]
    /\ IF Prune
         THEN \/ /\ CallConnect(p, "prune", CmdMsgs(p))
                 /\ UNCHANGED <<newOwner, abortAt>>
              \/ /\ NoMem /\ delCmd[p] # {}   \* SortedArrayXIDelCmd fails: abort before the phase
                 /\ CallConnect(p, "connect", {})
                 /\ abortAt' = [abortAt EXCEPT ![p] = @ \cup {conn[p] + 1}]
                 /\ UNCHANGED newOwner
         ELSE ConnectObj(p)
    /\ UNCHANGED <<objVars, cmdVars, delObj, modCpl, coupled, rounds, msgs, fault>>

------------------------------------------------------------------------------
(* XferEnd: communication phase 0 (PruneXIDelCmd) *)

(* The result of LC_Connect is not looked at: after an exception LC_Cleanup  *)
(* has dropped all messages, there is nothing to wait for, and XferEnd goes  *)
(* on to the next phase.                                                     *)
PruneConnect(p) ==
    /\ pc[p] = "prune" /\ Connected(p)
    /\ IF Exception(p)
         THEN ConnectObj(p) /\ UNCHANGED msgs
         ELSE /\ pc' = [pc EXCEPT ![p] = "pruneComm"]
              /\ msgs' = msgs \cup out[p]
              /\ out' = [out EXCEPT ![p] = {}]
              /\ UNCHANGED <<conn, abortAt, newOwner>>
    /\ UNCHANGED <<objVars, cmdVars, delObj, modCpl, coupled, mode, rounds, fault>>

(* CmdMsgUnpack: discard the deletions of copies that are about to come in.  *)
(* Without any gid it returns before it renews the OBJ_RESENT flags.         *)
CmdMsgUnpack(p) ==
    LET in   == Received(p, "cmd")
        gids == UNION {m.gids : m \in in}
    IN  /\ pc[p] = "pruneComm" /\ Communicated(p, "cmd")
        /\ resent' = IF gids = {} THEN resent
                     ELSE [resent EXCEPT ![p] = (@ \ LocalCoupledObjects(p))
                                                \cup (gids \cap LocalCoupledObjects(p))]
        /\ pruned' = [pruned EXCEPT ![p] = @ \cup (delCmd[p] \cap gids)]
        /\ delCmd' = [delCmd EXCEPT ![p] = @ \ gids]
        /\ ConnectObj(p)
        /\ msgs' = msgs \ in
        /\ UNCHANGED <<obj, cpl, copyObj, setPrio, delObj, modCpl, coupled, mode, rounds, fault>>

------------------------------------------------------------------------------
(* XferEnd: communication phase 1 *)

(* The objects are sent (XferPackMsgs), then the local commands executed.    *)
(* A deletion (HdrDestructor, ddd_XferRegisterDelete) remembers the coupling *)
(* list; a change of priority is void if the copy has been deleted (XFER-M1).*)
ExecLocalCommands(p) ==
    LET dels  == delCmd[p]
        valid == {g \in Gid : setPrio[p][g] # NoPrio /\ g \notin dels}
    IN  /\ pc[p] = "connect" /\ Connected(p) /\ ~Exception(p)
        /\ pc' = [pc EXCEPT ![p] = "comm"]
        /\ msgs' = msgs \cup out[p]
        /\ out' = [out EXCEPT ![p] = {}]
        /\ obj' = [obj EXCEPT ![p] = [g \in Gid |->
                      IF g \in dels THEN NoPrio
                      ELSE IF g \in valid THEN setPrio[p][g] ELSE @[g]]]
        /\ cpl' = [cpl EXCEPT ![p] = [g \in Gid |->
                      IF g \in dels THEN NoCopies[g] ELSE @[g]]]
        /\ pruned' = [pruned EXCEPT ![p] = @ \ dels]
        /\ resent' = [resent EXCEPT ![p] = @ \ dels]
        /\ delObj' = [delObj EXCEPT ![p] = [g \in dels |-> [q \in Proc |->
                      IF <<g, q>> \in newOwner[p] THEN PrioInvalid ELSE cpl[p][g][q]]]]
        /\ setPrio' = [setPrio EXCEPT ![p] = [g \in Gid |->
                      IF g \in valid THEN @[g] ELSE NoPrio]]
        /\ modCpl' = [modCpl EXCEPT ![p] =
                      UNION {{[to |-> q, gid |-> g, prio |-> setPrio[p][g]] :
                                 q \in Partners(p, g) \cup Dests(newOwner[p], g)} : g \in valid}]
        /\ UNCHANGED <<copyObj, delCmd, newOwner, coupled, mode, conn, abortAt, rounds, fault>>

(* Clean-up of everything that was collected, and the end of the transfer. *)
ResetItems(p) ==
    /\ copyObj'  = [copyObj EXCEPT ![p] = NoCopies]
    /\ setPrio'  = [setPrio EXCEPT ![p] = NoSetPrio]
    /\ delCmd'   = [delCmd EXCEPT ![p] = {}]
    /\ newOwner' = [newOwner EXCEPT ![p] = {}]
    /\ delObj'   = [delObj EXCEPT ![p] = NoDelObj]
    /\ modCpl'   = [modCpl EXCEPT ![p] = {}]
    /\ coupled'  = [coupled EXCEPT ![p] = {}]
    /\ mode' = [mode EXCEPT ![p] = "IDLE"]
    /\ pc'   = [pc EXCEPT ![p] = "user"]

(* The exception is known to all processors and ends XferEnd on all of them. *)
XferEndAborted(p) ==
    /\ pc[p] = "connect" /\ Connected(p) /\ Exception(p)
    /\ ResetItems(p)
    /\ out' = [out EXCEPT ![p] = {}]
    /\ UNCHANGED <<objVars, conn, abortAt, rounds, msgs, fault>>

(* XferUnpack.  Its parts are operators of the receiving processor p; "in"   *)
(* is the set of object messages, Now and Old are the priorities of p's      *)
(* copies after and before.                                                  *)
Incoming(in, g)  == UNION {{o.prio : o \in {x \in m.objs : x.gid = g}} : m \in in}
IsReceived(in, g) == Incoming(in, g) # {}

(* AcceptReceivedObjects, AcceptObjFromMsg: rules XFER-C2 and XFER-C3.       *)
Newness(p, in, g) ==
    IF ~IsReceived(in, g) THEN "none"
    ELSE IF g \notin LocalCoupledObjects(p) THEN "TOTALNEW"
    ELSE IF g \in pruned[p] THEN "PRUNEDNEW"
    ELSE IF FirstWins(MergeAll(Incoming(in, g)), obj[p][g]) THEN "PARTNEW" ELSE "NOTNEW"

(* Mutant: the incoming priority always wins. *)
IncomingPrio(p, in, g) ==
    IF IsReceived(in, g) THEN MergeAll(Incoming(in, g)) ELSE obj[p][g]

(* A copy that was here before gets its new priority around the call of the  *)
(* SETPRIORITY handler, which all distributed types of UG have.              *)
AcceptedPrio(p, in, g) ==
    LET prio == MergeAll(Incoming(in, g))
    IN  CASE Newness(p, in, g) = "none" -> obj[p][g]
          [] Newness(p, in, g) \in {"TOTALNEW", "PRUNEDNEW"} -> prio
          [] OTHER -> MergedPrio(prio, obj[p][g])

(* The one message whose copy of g is accepted (THISMSG). *)
AcceptedMsg(in, g) ==
    LET with == {m \in in : \E o \in m.objs : o.gid = g}
        best == {m \in with : \E o \in m.objs : o.gid = g /\ o.prio = MergeAll(Incoming(in, g))}
    IN  IF best # {} THEN CHOOSE m \in best : TRUE ELSE CHOOSE m \in with : TRUE

(* UnpackOldCplTab *)
OldCpl(m, g, q) == {i.prio : i \in {x \in m.oldCpl : x.gid = g /\ x.proc = q}}

(* CompressNewCpl *)
NewCplPrios(in, g, d) ==
    UNION {{i.prio : i \in {x \in m.newCpl : x.gid = g /\ x.dest = d}} : m \in in}
NewCplDests(in, g) == {d \in Proc : NewCplPrios(in, g, d) # {}}

(* UpdateCouplings: the priority p now knows of d, a new owner to which p    *)
(* itself sends a copy of g, or of which p was told, or both.                *)
NewOwnerPrio(p, in, g, d) ==
    LET told == NewCplPrios(in, g, d)
    IN  IF d \notin Dests(newOwner[p], g) THEN MergeAll(told)
        ELSE IF told = {} THEN copyObj[p][g][d]
        ELSE MergedPrio(copyObj[p][g][d], MergeAll(told))

(* UpdateCouplings, after UnpackOldCplTab: the coupling to q of p's copy of  *)
(* g.  A copy deleted here and received again gets its old list back.        *)
UpdatedCpl(p, in, g, q) ==
    IF Newness(p, in, g) = "none" /\ obj[p][g] = NoPrio THEN NoPrio
    ELSE IF \/ q \in Dests(newOwner[p], g)
            \/ /\ q \in NewCplDests(in, g)
               /\ IsReceived(in, g) \/ g \in LocalCoupledObjects(p)
         THEN NewOwnerPrio(p, in, g, q)
    ELSE IF IsReceived(in, g) /\ g \in DOMAIN delObj[p]
            /\ delObj[p][g][q] \notin {NoPrio, PrioInvalid}
         THEN delObj[p][g][q]
    ELSE IF Newness(p, in, g) = "TOTALNEW" /\ OldCpl(AcceptedMsg(in, g), g, q) # {}
         THEN CHOOSE prio \in OldCpl(AcceptedMsg(in, g), g, q) : TRUE
    ELSE cpl[p][g][q]

(* XIAddCpl items: a received copy introduces itself to the new owners it    *)
(* was told of; a sender introduces all new owners it knows to its own.      *)
AddCplItems(p, in, now) ==
    (UNION {{[to |-> d, gid |-> g, proc |-> p, prio |-> now[g]] :
                 d \in IF IsReceived(in, g) THEN NewCplDests(in, g) ELSE {}} : g \in Gid})
    \cup
    (UNION {{[to |-> x[1], gid |-> g, proc |-> x[2], prio |-> NewOwnerPrio(p, in, g, x[2])] :
                 x \in {y \in Dests(newOwner[p], g) \X
                               (Dests(newOwner[p], g) \cup NewCplDests(in, g)) : y[1] # y[2]}} :
            g \in Gid})

(* Mutant: a new priority of a received copy is not propagated. *)
ModCplItemsOfCommands(p, in, now, list) ==
    modCpl[p]
    \cup (UNION {{[to |-> d, gid |-> g, prio |-> setPrio[p][g]] : d \in NewCplDests(in, g)} :
                 g \in {h \in Gid : setPrio[p][h] # NoPrio}})

(* XIModCpl items: PropagateCplInfos step 1, PropagateIncomings. *)
ModCplItems(p, in, now, list) ==
    modCpl[p]
    \cup (UNION {{[to |-> d, gid |-> g, prio |-> setPrio[p][g]] : d \in NewCplDests(in, g)} :
                 g \in {h \in Gid : setPrio[p][h] # NoPrio}})
    \cup (UNION {{[to |-> q, gid |-> g, prio |-> now[g]] :
                     q \in {r \in Proc : list[g][r] # NoPrio}
                          \cup (IF Newness(p, in, g) = "TOTALNEW" THEN {}
                                ELSE Dests(newOwner[p], g))} :
                 g \in {h \in Gid : Newness(p, in, h) \in {"TOTALNEW", "PARTNEW", "PRUNEDNEW"}}})

(* XIDelCpl items: those of the deletion are void if the object came back;   *)
(* PropagateCplInfos step 2 does not ask whether it did.                     *)
DelCplItems(p, in) ==
    UNION {{[to |-> q, gid |-> g] :
                q \in NewCplDests(in, g)
                     \cup (IF IsReceived(in, g) THEN {}
                           ELSE {r \in Proc : delObj[p][g][r] # NoPrio})} :
           g \in DOMAIN delObj[p]}

(* UnifyXIModCpl: several new priorities of the same copy for q are merged.  *)
NewPrios(mod, q, g)    == {i.prio : i \in {x \in mod : x.to = q /\ x.gid = g}}
AnyOfNewPrios(mod, q, g) == CHOOSE prio \in NewPrios(mod, q, g) : TRUE     \* mutant
UnifiedPrio(mod, q, g) == MergeAll(NewPrios(mod, q, g))

(* PrepareCplMsgs *)
CplMsgs(p, mod, del, add) ==
    LET Mods(q) == {[gid |-> g, prio |-> UnifiedPrio(mod, q, g)] :
                        g \in {i.gid : i \in {x \in mod : x.to = q}}}
        To(q)   == CplMsg(p, q, Mods(q), {i.gid : i \in {x \in del : x.to = q}},
                          {[gid |-> i.gid, proc |-> i.proc, prio |-> i.prio] :
                              i \in {x \in add : x.to = q}})
    IN  {m \in {To(q) : q \in Proc} : m.mod # {} \/ m.del # {} \/ m.add # {}}

XferUnpack(p) ==
    LET in   == Received(p, "obj")
        now  == [g \in Gid |-> AcceptedPrio(p, in, g)]
        list == [g \in Gid |-> [q \in Proc |-> UpdatedCpl(p, in, g, q)]]
    IN  /\ pc[p] = "comm" /\ Communicated(p, "obj")
        /\ obj' = [obj EXCEPT ![p] = now]
        /\ cpl' = [cpl EXCEPT ![p] = list]
        /\ pruned' = [pruned EXCEPT ![p] = {g \in @ : Newness(p, in, g) # "PRUNEDNEW"}]
        /\ coupled' = [coupled EXCEPT ![p] = LocalCoupledObjects(p)']
        /\ CallConnect(p, "connectCpl",
               CplMsgs(p, ModCplItems(p, in, now, list), DelCplItems(p, in),
                       AddCplItems(p, in, now)))
        /\ msgs' = msgs \ in
        /\ UNCHANGED <<resent, cmdVars, newOwner, delObj, modCpl, mode, abortAt, rounds, fault>>

------------------------------------------------------------------------------
(* XferEnd: communication phase 2 (CommunicateCplMsgs) *)

CplConnect(p) ==
    /\ pc[p] = "connectCpl" /\ Connected(p)
    /\ pc' = [pc EXCEPT ![p] = "commCpl"]
    /\ msgs' = msgs \cup out[p]
    /\ out' = [out EXCEPT ![p] = {}]
    /\ UNCHANGED <<objVars, cmdVars, itemVars, mode, conn, abortAt, rounds, fault>>

(* What one message does to a coupling list: first the new priorities, then  *)
(* the deletions, then the additions.                                        *)
ModsOf(m, g)    == {i.prio : i \in {x \in m.mod : x.gid = g}}
AddsOf(m, g, q) == {i.prio : i \in {x \in m.add : x.gid = g /\ x.proc = q}}
CplAfter(p, m, g, q) ==
    IF g \notin coupled[p] THEN cpl[p][g][q]
    ELSE IF AddsOf(m, g, q) # {} THEN CHOOSE prio \in AddsOf(m, g, q) : TRUE
    ELSE IF q = m.from /\ g \in m.del THEN NoPrio
    ELSE IF q = m.from /\ ModsOf(m, g) # {} /\ cpl[p][g][q] # NoPrio
         THEN CHOOSE prio \in ModsOf(m, g) : TRUE
    ELSE cpl[p][g][q]

(* ModCoupling only warns if there is no coupling at all; if there are some, *)
(* but none to the sender, it throws.                                        *)
Missing(p, m) ==
    {g \in coupled[p] : ModsOf(m, g) # {} /\ HasCpl(p, g) /\ cpl[p][g][m.from] = NoPrio}

(* One message after the other, in whatever order they are in recvMsgs. *)
CplMsgUnpackAgain(p, m) ==  \* mutant: the message stays in the queue
    pc[p] = "commCpl" /\ Communicated(p, "cpl") /\ m \in Received(p, "cpl") /\ UNCHANGED vars
CplMsgUnpackSingle(p, m) ==
    /\ pc[p] = "commCpl" /\ Communicated(p, "cpl")
    /\ m \in Received(p, "cpl")
    /\ cpl' = [cpl EXCEPT ![p] = [g \in Gid |-> [q \in Proc |-> CplAfter(p, m, g, q)]]]
    /\ fault' = IF Missing(p, m) = {} THEN fault ELSE fault \cup {p}
    /\ msgs' = msgs \ {m}
    /\ UNCHANGED <<obj, pruned, resent, cmdVars, itemVars, ctrlVars, out>>

XferEndReturn(p) ==
    /\ pc[p] = "commCpl" /\ Communicated(p, "cpl")
    /\ Received(p, "cpl") = {}
    /\ ResetItems(p)
    /\ UNCHANGED <<objVars, conn, abortAt, rounds, out, msgs, fault>>

------------------------------------------------------------------------------
(* The data distributions a program can have built before: every object has  *)
(* at least one copy, and all owners know each other.                        *)
Init ==
    /\ obj \in {f \in [Proc -> [Gid -> Prio \cup {NoPrio}]] :
                   \A g \in Gid : \E p \in Proc : f[p][g] # NoPrio}
    /\ cpl = [p \in Proc |-> [g \in Gid |-> [q \in Proc |->
                 IF obj[p][g] # NoPrio /\ q # p THEN obj[q][g] ELSE NoPrio]]]
    /\ pruned = [p \in Proc |-> {}] /\ resent = [p \in Proc |-> {}]
    /\ mode = [p \in Proc |-> "IDLE"] /\ pc = [p \in Proc |-> "user"]
    /\ conn = [p \in Proc |-> 0] /\ abortAt = [p \in Proc |-> {}]
    /\ rounds = [p \in Proc |-> 0]
    /\ copyObj = [p \in Proc |-> NoCopies] /\ setPrio = [p \in Proc |-> NoSetPrio]
    /\ delCmd = [p \in Proc |-> {}]
    /\ newOwner = [p \in Proc |-> {}] /\ delObj = [p \in Proc |-> NoDelObj]
    /\ modCpl = [p \in Proc |-> {}] /\ coupled = [p \in Proc |-> {}]
    /\ out = [p \in Proc |-> {}] /\ msgs = {} /\ fault = {}

Command(p) ==
    \/ XferBegin(p)
    \/ \E g \in Gid, d \in Proc, prio \in Prio : XferCopyObj(p, g, d, prio)
    \/ \E g \in Gid, prio \in Prio : XferPrioChange(p, g, prio)
    \/ \E g \in Gid : XferDeleteObj(p, g)

(* The steps inside XferEnd. *)
Transfer(p) ==
    \/ PruneConnect(p) \/ CmdMsgUnpack(p)
    \/ ExecLocalCommands(p) \/ XferEndAborted(p) \/ XferUnpack(p)
    \/ CplConnect(p) \/ XferEndReturn(p)
    \/ \E m \in msgs : CplMsgUnpackSingle(p, m)

(* All transfers of the bounded instance are over. *)
Finished ==
    /\ \A p \in Proc : mode[p] = "IDLE" /\ rounds[p] = MaxRounds
    /\ UNCHANGED vars

Next == Finished \/ \E p \in Proc : Command(p) \/ XferEnd(p) \/ Transfer(p)

Spec == Init /\ [][Next]_vars

(* Every processor takes part in every transfer (the calls are collective),  *)
(* and the library does not stop in the middle of XferEnd.                   *)
FairSpec ==
    /\ Spec
    /\ \A p \in Proc : WF_vars(XferBegin(p)) /\ WF_vars(XferEnd(p)) /\ WF_vars(Transfer(p))

------------------------------------------------------------------------------
(* Properties *)

PrioOrNone == Prio \cup {NoPrio}
CplItem    == [to : Proc, gid : Gid, prio : Prio]

(* Every variable has its type.  Of the messages this fixes what the control *)
(* flow depends on.                                                          *)
TypeOK ==
    /\ obj \in [Proc -> [Gid -> PrioOrNone]]
    /\ cpl \in [Proc -> [Gid -> [Proc -> PrioOrNone]]]
    /\ pruned \in [Proc -> SUBSET Gid] /\ resent \in [Proc -> SUBSET Gid]
    /\ mode \in [Proc -> {"IDLE", "CMDS", "BUSY"}]
    /\ pc \in [Proc -> {"user", "prune", "pruneComm", "connect", "comm",
                        "connectCpl", "commCpl"}]
    /\ conn \in [Proc -> Nat] /\ abortAt \in [Proc -> SUBSET Nat] /\ rounds \in [Proc -> 0 .. MaxRounds]
    /\ copyObj \in [Proc -> [Gid -> [Proc -> PrioOrNone]]]
    /\ setPrio \in [Proc -> [Gid -> PrioOrNone]]
    /\ delCmd \in [Proc -> SUBSET Gid] /\ newOwner \in [Proc -> SUBSET (Gid \X Proc)]
    /\ \A p \in Proc : modCpl[p] \subseteq CplItem /\ DOMAIN delObj[p] \subseteq Gid
    /\ coupled \in [Proc -> SUBSET Gid] /\ fault \subseteq Proc
    /\ \A m \in msgs \cup UNION {out[p] : p \in Proc} :
          m.kind \in {"cmd", "obj", "cpl"} /\ m.from \in Proc /\ m.to \in Proc

(* What XferEnd is for: on a processor that is back in the application the   *)
(* coupling lists say exactly who else owns a copy and with which priority,  *)
(* even while other processors still unpack their coupling messages.         *)
CouplingConsistency ==
    \A p, q \in Proc, g \in Gid : pc[p] = "user" =>
        cpl[p][g][q] = IF p # q /\ obj[p][g] # NoPrio THEN obj[q][g] ELSE NoPrio

(* ModCoupling never throws for want of the coupling (cplmgr.cc, the         *)
(* DUNE_THROW at its end): whoever announces a new priority is known.        *)
NoMissingCoupling == fault = {}

(* UnpackOldCplTab uses the table of one message and calls those of the      *)
(* others redundant: all of them are equal.                                  *)
OldCplTablesAgree ==
    \A m, n \in {x \in msgs : x.kind = "obj"} : \A i \in m.oldCpl, j \in n.oldCpl :
        (m.to = n.to /\ i.gid = j.gid) =>
            /\ i.proc = j.proc => i.prio = j.prio
            /\ \E k \in n.oldCpl : k.gid = i.gid /\ k.proc = i.proc

(* The coupling messages of a phase may be unpacked in any order: none of    *)
(* them carries an addition that another one contradicts.                    *)
AddsAgree ==
    \A m, n \in {x \in msgs : x.kind = "cpl"} : \A i \in m.add, j \in n.add :
        (m.to = n.to /\ i.gid = j.gid /\ i.proc = j.proc) => i.prio = j.prio

(* So the result of a transfer does not depend on who speaks first: neither  *)
(* the tables of old couplings nor the additions that one processor gets     *)
(* from several others in one phase contradict each other, and no message    *)
(* names a coupling that is not there.                                       *)
MessagesAgree == OldCplTablesAgree /\ AddsAgree /\ NoMissingCoupling

(* A message meets its receiver in the phase it was sent for: the receive    *)
(* buffers LC_Connect set up are the ones it lands in.                       *)
Takes(kind) == IF kind = "cmd" THEN {"prune", "pruneComm"}
               ELSE IF kind = "obj" THEN {"connect", "comm"} ELSE {"connectCpl", "commCpl"}
PhaseDiscipline == \A m \in msgs : pc[m.to] \in Takes(m.kind)

(* The processors call the collective operations in the same order: nobody   *)
(* is more than one call ahead; who is ahead waits in the next phase, and    *)
(* two processors in the same call are in the same phase of the same         *)
(* transfer, unless one of them has already left it at its end.              *)
SamePhase(p, q) == \E kind \in {"cmd", "obj", "cpl"} : {pc[p], pc[q]} \subseteq Takes(kind)
AtEnd(p) == \/ pc[p] \in {"user", "connectCpl", "commCpl"}
            \/ pc[p] = "connect" /\ Exception(p)
OneAhead(p, q) ==
    \/ pc[p] = (IF Prune THEN "prune" ELSE "connect") /\ AtEnd(q)
    \/ Prune /\ pc[p] = "connect" /\ pc[q] \in {"prune", "pruneComm"}
    \/ pc[p] = "connectCpl" /\ pc[q] \in {"connect", "comm"} /\ ~Exception(q)
Lockstep ==
    \A p, q \in Proc :
        /\ conn[p] <= conn[q] + 1
        /\ conn[p] = conn[q] + 1 => OneAhead(p, q)
        /\ conn[p] = conn[q] => \/ SamePhase(p, q)
                                \/ pc[p] = "user" /\ AtEnd(q)
                                \/ pc[q] = "user" /\ AtEnd(p)

(* "All other exceptions are known globally, shutdown safely" (XferEnd): a   *)
(* phase somebody aborted is the last one of the transfer for everybody.     *)
AbortEndsTransfer ==
    [][\A p, q \in Proc :
          (pc[p] # "user" /\ conn'[p] = conn[p] + 1) => conn[p] \notin abortAt[q]]_vars

(* Every call of XferEnd returns. *)
XferEndReturns == \A p \in Proc : mode[p] = "BUSY" ~> mode[p] = "IDLE"
==============================================================================
