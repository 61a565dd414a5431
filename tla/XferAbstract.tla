----------------------------- MODULE XferAbstract -----------------------------
(***************************************************************************)
(* What a DDD transfer promises to the application, without any message:    *)
(* XferEnd is a collective operation that executes the commands of all      *)
(* processors in one atomic step, or those of no processor at all.  The     *)
(* communication phases, the pruning of deletions and the couplings are not *)
(* visible here.                                                            *)
(***************************************************************************)
EXTENDS PrioMerge

CONSTANTS Proc, Gid, NoPrio

VARIABLES
    obj,        \* obj[p][g]: priority of p's copy of g, or NoPrio
    copyObj,    \* pending XferCopyObj commands
    setPrio,    \* pending XferPrioChange commands
    delCmd,     \* pending XferDeleteObj commands
    mode,       \* xferMode
    rounds,     \* number of transfers p has begun
    done        \* processors whose running XferEnd has had its effect

vars == <<obj, copyObj, setPrio, delCmd, mode, rounds, done>>

NoCopies  == [g \in Gid |-> [q \in Proc |-> NoPrio]]
NoSetPrio == [g \in Gid |-> NoPrio]

Init ==
    /\ obj \in [Proc -> [Gid -> Prio \cup {NoPrio}]]
    /\ copyObj = [p \in Proc |-> NoCopies] /\ setPrio = [p \in Proc |-> NoSetPrio]
    /\ delCmd = [p \in Proc |-> {}]
    /\ mode = [p \in Proc |-> "IDLE"] /\ rounds = [p \in Proc |-> 0] /\ done = {}

Begin(p) ==
    /\ mode[p] = "IDLE"
    /\ mode' = [mode EXCEPT ![p] = "CMDS"]
    /\ rounds' = [rounds EXCEPT ![p] = @ + 1]
    /\ UNCHANGED <<obj, copyObj, setPrio, delCmd, done>>

(* Commands for copies p owns; equal commands merge their priorities. *)
MergeInto(old, prio) == IF old = NoPrio THEN prio ELSE MergedPrio(old, prio)

Command(p, g) ==
    /\ mode[p] # "BUSY" /\ obj[p][g] # NoPrio
    /\ \/ \E d \in Proc \ {p}, prio \in Prio :
             /\ mode[p] = "CMDS"
             /\ copyObj' = [copyObj EXCEPT ![p][g][d] = MergeInto(@, prio)]
             /\ UNCHANGED <<setPrio, delCmd>>
       \/ \E prio \in Prio :
             /\ setPrio' = [setPrio EXCEPT ![p][g] = MergeInto(@, prio)]
             /\ UNCHANGED <<copyObj, delCmd>>
       \/ /\ delCmd' = [delCmd EXCEPT ![p] = @ \cup {g}]
          /\ UNCHANGED <<copyObj, setPrio>>
    /\ UNCHANGED <<obj, mode, rounds, done>>

End(p) ==
    /\ mode[p] = "CMDS"
    /\ mode' = [mode EXCEPT ![p] = "BUSY"]
    /\ UNCHANGED <<obj, copyObj, setPrio, delCmd, rounds, done>>

(* A deletion wins over a change of priority (XFER-M1).  The copies sent to  *)
(* p are merged (XFER-C2), and merged with the copy p keeps (XFER-C3).       *)
Kept(p, g) ==
    IF g \in delCmd[p] THEN NoPrio
    ELSE IF setPrio[p][g] # NoPrio THEN setPrio[p][g] ELSE obj[p][g]
Sent(p, g) == {copyObj[q][g][p] : q \in Proc} \ {NoPrio}
Result(p, g) ==
    IF Sent(p, g) = {} THEN Kept(p, g)
    ELSE IF Kept(p, g) = NoPrio THEN MergeAll(Sent(p, g))
    ELSE MergedPrio(MergeAll(Sent(p, g)), Kept(p, g))

Transfer ==
    /\ \A p \in Proc : mode[p] = "BUSY" /\ p \notin done
    /\ \A p, q \in Proc : rounds[p] = rounds[q]
    /\ obj' = [p \in Proc |-> [g \in Gid |-> Result(p, g)]]
    /\ copyObj' = [p \in Proc |-> NoCopies] /\ setPrio' = [p \in Proc |-> NoSetPrio]
    /\ delCmd' = [p \in Proc |-> {}]
    /\ done' = Proc
    /\ UNCHANGED <<mode, rounds>>

Return(p) ==
    /\ p \in done
    /\ mode' = [mode EXCEPT ![p] = "IDLE"]
    /\ done' = done \ {p}
    /\ UNCHANGED <<obj, copyObj, setPrio, delCmd, rounds>>

(* XferEnd fails, after everybody has called it and before it has an effect  *)
(* for anybody: p's commands are dropped.                                    *)
Abort(p) ==
    /\ mode[p] = "BUSY" /\ p \notin done
    /\ \A q \in Proc : \/ rounds[q] > rounds[p]
                       \/ rounds[q] = rounds[p] /\ mode[q] # "CMDS"
    /\ mode' = [mode EXCEPT ![p] = "IDLE"]
    /\ copyObj' = [copyObj EXCEPT ![p] = NoCopies]
    /\ setPrio' = [setPrio EXCEPT ![p] = NoSetPrio]
    /\ delCmd'  = [delCmd EXCEPT ![p] = {}]
    /\ UNCHANGED <<obj, rounds, done>>

Next ==
    \/ Transfer
    \/ \E p \in Proc : Begin(p) \/ End(p) \/ Return(p) \/ Abort(p) \/ \E g \in Gid : Command(p, g)

Spec == Init /\ [][Next]_vars
==============================================================================
