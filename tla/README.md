# TLA+ models of dune-uggrid

dune-uggrid is the grid manager UG as a Dune module. Its sequential part (`dune/uggrid/gm`) keeps
unstructured multigrids and refines them; its parallel part distributes the objects of a grid over
processors with the library DDD, "dynamic distributed data" (`dune/uggrid/parallel/ddd`), and
`dune/uggrid/parallel/dddif` puts UG on top of DDD. Every processor keeps copies of objects and, for each
copy, a list of *couplings* that says which other processors own a copy and with which *priority*. Copies
are sent, changed, identified, joined and deleted by collective operations, and after each of them all
coupling lists, all interfaces made from them, and the grid itself have to be right without any central
registry. This directory models these protocols and the distributed algorithms of the grid manager that
rely on them, checks them with TLC, and proves the ones at the bottom with TLAPS.

Paths are relative to `src/dune/uggrid/parallel/ddd` unless they start with `dddif/`, `ppif/` (both in
`src/dune/uggrid/parallel`) or `gm/` (in `src/dune/uggrid`). `PROJECT.json` lists the components, the
hazards by line, the source lines of every definition, the runs with a mutant for each property, and the
theorems.

## Inventory

| component | state | operations | hard behaviour | what makes it correct | |
|---|---|---|---|---|---|
| `xfer/` transfer | sets of commands, items derived from them, `xferMode`, flags `OBJ_PRUNED`, `OBJ_RESENT` | `DDD_XferBegin`, `XferCopyObj`, `PrioChange`, `DeleteObj`, `XferEnd` | three phases of messages, each processor knows only its own commands, equal commands are merged, failures in the middle | coupling lists equal on all sides; the transfer is atomic; everybody leaves it | partly |
| `mgr/cplmgr.cc` couplings | `cplTable`, `nCplTable`, `nCpls`, `nCplItems`, records, freelist | `AddCoupling`, `ModCoupling`, `DelCoupling` | slots move, tables grow, two kinds of memory, failing allocation | tables, headers, lists and counters agree; no record is lost | modelled |
| `mgr/objmgr.cc` headers | `objTable`, `nObjs`, `OBJ_INDEX`, `theIdCount` | constructor, copy, move, destructor | shares the tables; the counter of global ids overflows | index and table are inverse; ids are unique | partly |
| `mgr/prio.cc` priorities | merge matrix of each type | `PriorityMerge`, `PrioMergeDefine`, `DDD_PrioritySet` | merges happen in the order of unstable sorts | the merge is a semilattice | partly |
| `basic/lowcomm.cc`, `notify.cc` | message queues, buffers, the wave of infos | `LC_Connect`, `LC_Abort`, `LC_MsgAlloc`, `LC_Communicate`, `LC_Cleanup`, `DDD_Notify` | collective calls, global exceptions, scarce buffers, pending messages | calls of all processors belong together; every announced message is received | modelled |
| `ident/` | identification tuples per partner | `IdentifyBegin`, `IdentifyNumber`, `..String`, `..Object`, `IdentifyEnd` | both sides sort their tuples and match them by position | identified copies get one global id and couplings | modelled |
| `join/` | join items, coupling items | `JoinBegin`, `JoinObj`, `JoinEnd` | three phases like `xfer` | as for `xfer` | modelled |
| `prio/` | `prioMode` | `PrioBegin`, `PrioChange`, `PrioEnd` | an exchange between neighbours, no collective call | both sides of a coupling agree | modelled |
| `if/` interfaces | interface heads, sorted object lists, shortcuts | `IFDefine`, creation, `IFExchange`, local execution | rebuilt after each change of couplings | the lists of two neighbours match in length and order | partly |
| `ctrl/`, `analyser/` | none | `DDD_ConsCheck`, statistics | compares lists of two processors | no false alarm | partly |
| `ppif/` | MPI requests | send, receive, tree of processors, broadcast | - | MPI | partly |
| `dddif/` | PARTITION, flags of UG on top of DDD | handlers, load transfer, overlap, repair of the distribution, identification | order of handlers; every processor decides with its own copies | each processor has the ghosts it needs, and the family relation is right | partly |
| `gm/` | multigrid, element lists, marks | `AdaptMultiGrid`, creation and disposal of elements | copies of one element on several processors have to be refined alike | as a single processor would do it | partly |
| `mgr/typemgr.cc`, `attr.cc`; context and memory; `domain`; `low`; `initug`, `ugdevices` | descriptors, heaps, geometry | registration, utilities | sequential | - | not |

How they interact: the application (through `dddif`) calls `xfer`, `ident`, `join` and `prio` between their
`Begin` and `End`, on all processors. These call `mgr` for headers and couplings and `basic` for messages;
`basic` calls `ppif`. When an `End` has changed couplings, `if` rebuilds the interfaces from the coupling
tables, and `gm` sends marks, classes and partitions over the interfaces. State is shared inside one
processor only (`DDDContext`, `MULTIGRID`); processors share nothing but messages. Nothing is persistent, so
there are no crashes and restarts; MPI neither loses nor duplicates messages. What is hard is the order of
steps of different processors, what each of them knows at the time, and failures on one of them.

## Modules

    communication
      GlobalNotify            what DDD_Notify promises                    (specification)
      Notify                  the wave in the tree of processors          basic/notify.cc, ppif/ppif.cc
      NotifyRefinement        Notify implements GlobalNotify
      LowComm                 phases, message queues, buffers             basic/lowcomm.cc
      Notify_proofs (both), LowComm_proofs
    couplings of one processor
      CplMgr                  coupling tables                             mgr/cplmgr.cc, mgr/objmgr.cc, dddi.h
      CouplingLists           coupling lists as partial functions         (specification)
      CplMgrRefinement        CplMgr implements CouplingLists
      CplMgr_proofs (both)
    environments of DDD
      PrioMerge               merging of priorities                       mgr/prio.cc
      Xfer                    the transfer, all processors                xfer/
      XferAbstract            a transfer as one step                      (specification)
      XferRefinement          Xfer implements XferAbstract
      Xfer_proofs (merging, phases, couplings, refinement)
      Ident                   identification of copies                    ident/ident.cc
      Ident_proofs
      Interfaces              interfaces and their shortcuts              if/
      PrioEnv                 priority environment (on Interfaces)        prio/pcmds.cc
      ConsCheck               consistency check (on Interfaces)           ctrl/cons.cc, if/ifcheck.cc
      Join                    join environment; composes the last three   join/
      Join_proofs (couplings, progress; priorities, lists, checks)
                              Interfaces, PrioEnv, ConsCheck and Join together
    grid manager
      ListParts               an element list in two parts                gm/dlmgr.t
      Elements                families of elements on one processor       gm/ugm.cc, dddif/handler.cc, dddif/trans.cc
      Elements_proofs
      Partitioning            distribution of elements and its repair     dddif/partition.cc, dddif/trans.cc, gm/refine.cc
      Partitioning_proofs
      TriangleGrid            triangles and their refinement rules        gm/rm.cc, gm/refine.cc
      RefineSequential        AdaptMultiGrid on one processor             (specification, from gm/refine.cc)
      AdaptMultiGrid          AdaptMultiGrid on all processors            gm/refine.cc, gm/ugm.cc, dddif/overlap.cc

`MCxyz.tla` has the instances of `xyz` for TLC. What a module takes for granted is what another one shows:
`LowComm` uses the collective call of `GlobalNotify`, which `Notify` implements. `Xfer` assumes that a message
meets its receive, which `LowComm` shows; it uses coupling lists in the form of `CouplingLists`, which `CplMgr`
implements. `Partitioning` moves elements with one step of `XferAbstract`, which `Xfer` implements.
`AdaptMultiGrid` starts from the overlap that `Partitioning` establishes (`OverlapRight`).

### Communication: Notify, LowComm

`Notify` has the binary tree of PPIF (sons of p are 2p+1 and 2p+2). A processor that calls `DDD_Notify` has its
own infos, gets those of its sons, sends them up with the ones that stay in its subtree sorted out, and on
the way down gets what is for its subtree. The two halves of a message between neighbours in the tree - its
length, then its infos - are one step, as `MPI_Ssend` returns when the receiver has it. `DDD_NotifyBegin` with
too many destinations is `Refused`. Exceptions travel as infos with a negative code; the root finds the
maximum. The refinement to `GlobalNotify` takes a call to be made when the processor enters `DDD_Notify`.

`LowComm` is one phase after the other. In a *late* phase (objects of `xfer`) send buffers are allocated after
`LC_Connect`, one at a time, and `LC_MsgAlloc` polls sends *and* receives while there is no room; in all
others they are allocated before (`LC_MsgPrepareSend`). `MsgState` is that of the code. MPI matches the sends
and receives of two processors in order, and may copy a message early (`copied`). `LC_Abort` raises an
exception in a late phase only, as in `DDD_XferEnd` (`xfer/cmds.cc`), its only caller; `PhasesAssumption` says so.

### CplMgr

The variables are those of the code: `index` is `OBJ_INDEX` with the marks `Local` (INT_MAX) and `Invalid`
(INT_MAX - 1), slots 0 .. nCpls-1 of `objTable`, `cplTable` and `nCplTable` are in use. The actions are the
public operations. `record` is the memory of the COUPLING records; a record remembers where it was
allocated, `segments` and `memlist` are the memory the freelist manages. The contents of a list is a set.
`AddCouplingFails` is the run of `AddCoupling` in which the allocation throws. WithFullObjectTable is off,
as in the build.

### Xfer

One action per operation or per stretch of `XferEnd` between two points where it waits:

| action | code |
|---|---|
| `XferBegin`, `XferCopyObj`, `XferPrioChange`, `XferDeleteObj` | the calls of the same names; equal items are merged at once (in the code: by the sorted set they are inserted in) |
| `XferEnd` | up to the first `LC_Connect`: `PrepareCmdMsgs` with pruning, else `CplClosureEstimate` and `PrepareObjMsgs` |
| `PruneConnect`, `CmdMsgUnpack` | the rest of `PruneXIDelCmd`, up to the second `LC_Connect` |
| `ExecLocalCommands` | after `LC_Connect`: `XferPackMsgs`, `ExecLocalXIDelCmd`, `ExecLocalXISetPrio`, `ExecLocalXIDelObj` |
| `XferUnpack` | `LC_Communicate`, `XferUnpack` (`AcceptReceivedObjects`, `UnpackOldCplTab`, `UpdateCouplings`, `PropagateIncomings`, handlers), `PropagateCplInfos`, `UnifyXIModCpl`, `PrepareCplMsgs`, up to the third `LC_Connect` |
| `CplConnect`, `CplMsgUnpackSingle`, `XferEndReturn` | `CommunicateCplMsgs` and the end of `XferEnd` |
| `XferEndAborted` | the exit after an exception in `LC_Connect` |

`conn[p]` counts p's calls of `LC_Connect` (or `LC_Abort`); `LC_Connect` returns when everybody has called as
often. `abortAt` holds the calls in which somebody raised an exception. `out[p]` are the messages p
announced and will send when `LC_Connect` has returned; `LC_Communicate` returns when nothing announced to p
is unsent. Messages are records with sets of entries, because the code sorts them before use. Coupling
messages are unpacked one by one in any order, as the receive queue has no order one could rely on.

Objects are equal up to their global id and priority: dependent data, object contents and pointers are left
out. All distributed types have a SETPRIORITY handler, as in UG; a type without one keeps the old priority
of a copy that was there (`xfer/unpack.cc:1281`). Errors after `LC_Connect` has returned are in `LowComm`, not here.

### Ident

Each owner of a copy names it by a tuple of numbers, strings and other objects, once for each other owner.
`IdentifyEnd` sorts the tuples of each partner into a table by length, type and identifiers, sends the table's
global ids and priorities, and pairs both tables by position. `plist[p][q]` has the commands by object,
`indexmap[p][q]` the positions. Objects that are identified in the same session are replaced by their position,
so the tuples are sorted level by level: `NextTable` is one pass of the loop over levels of indirection (`loi`).
Both modes (lists of identifiers, sets) are modelled, priorities that change between `IdentifyObject` and
`IdentifyEnd`, and the exceptions for equal tuples and for tables of different length. `IdentifiedRight` says that
after `IdentifyEnd` the copies that were named alike, and no others, have one global id, and couplings for each
other with the right priorities. Identifiers are compared as numbers.

`ContractKept` is what the application owes: every owner commands every other one; an object that identifies
another is distributed to its owners already or is identified with it; at most 29 identifiers in a tuple, as
`TupleInit` codes them into a long; chains of `IdentifyObject` without cycles and not longer than 64, since
`SetLOI` takes more for a cycle (`Depth` is a bound on the chains from an object). Global ids are larger than positions
(`GidBase` stands for 2^24 in `MakeUnique`), because the two share a field.

### Interfaces, PrioEnv, ConsCheck, Join

`Interfaces` keeps copies, coupling lists and, for each processor, the lists of two interfaces: the standard
one and one between priorities A and B, sorted by attribute and global id, with the addresses of objects that
may have moved since (`shortcuts`). `PrioEnv` and `Join` extend it with their environments; all processors
run through the same sequence of environments, each at its own pace, and objects move in between
(`Moving`). `JoinEnd` has its three phases, in each of which a collective call ends when everybody has made
it. `ConsCheck` counts what `DDD_ConsCheck` would report. Join leaves out two processors that join one object
at the *same* target (`Shared`, see below).

### Elements

One processor with two families of three elements; the other processors are an environment that sends what
a new partition needs here. Refinement creates and disposes families; a transfer deletes copies, receives
copies, changes priorities, and calls the handlers of `dddif/handler.cc` in any order DDD allows (deletions
in the order of `Rank`: ghosts, then masters by level). `ListParts` is the element list with its pointers. Kinds
of ghosts of fathers are one kind. `inherit` says that sons move with their fathers (`InheritPartition`), as
all modes of `lbs` but 4 to 6 see to. After `FatherPointersValid` has failed the model stops, as the code then
writes through a stale pointer. `NSons` keeps the five bits of NSONS. An instance with three sons in one family
(221647 states) was checked as well, since NSONS can only wrap with three.

### Partitioning

Elements of small hierarchies (7 elements on 4 levels, and 5 elements that are moved twice) are distributed
over 4 processors in every way; `AdaptMultiGrid` then repairs the distribution (`CheckPartitioning`,
`RestrictPartitioning`, called TOPLEVEL times), and `TransferGridFromLevel` moves the elements with their ghosts.
All processors take a step together: a step writes copies of its own processor only and its exchanges wait
for the neighbours. Merging of priorities is the maximum. Marks for refinement classes stand for both
irregular classes (YELLOW).

### TriangleGrid, RefineSequential, AdaptMultiGrid

A distributed multigrid of triangles, refined with the complete set of triangle rules. `RefineSequential` is
the algorithm without processors: restrict marks from the finest level down; on the way up close each
level (`GridClosure`), compute the classes that are copied around, refine and unrefine. `AdaptMultiGrid` has the
marks of every copy, the exchanges over interfaces (marks of masters to ghosts, edge patterns over the
symmetric interface of ghosts, classes of nodes), and the overlap as it grows and is updated after each level.
The structure of the grid is kept once, because copies agree (which is checked); elements live where their
fathers live, hence there are no vertical ghosts (`Unrefine` asserts the same as `AdaptLocalGrid`).

## Properties and runs

| run | instance | properties | distinct states |
|---|---|---|---|
| xfer_max | 3 processors, 1 object, any 4 commands, no pruning, failing allocations | `Lockstep`, `CouplingConsistency`, `MessagesAgree`, `PhaseDiscipline`, `AbortEndsTransfer`, `ImplementsAtomicTransfer` | 712890 |
| xfer_prune | 3 processors, 1 object, any 3 commands, pruning, three priorities with merge(1,2) = 3 | `CouplingConsistency` | 1858955 |
| xfer_live | 2 processors, 3 commands, 2 transfers, failing allocations, fairness | `XferEndReturns` | 32533 |
| cplmgr | 2 headers, 2 other processors, 2 priorities, 3 records, tables of initial size 1, failing allocations | `TypeOK`, `SlotsConsistent`, `ListsConsistent`, `CountsConsistent`, `ImplementsCouplingLists` | 220188 |
| notify | 4 processors, 2 calls, 2 messages or exceptions, fairness | `Barrier`, `WaveInv`, `ImplementsGlobalNotify`, `NotifyReturns` | 100165 |
| lowcomm | 3 processors with room for 1, 1 and 0 buffers, a late and an early phase, 4 messages, exceptions, failing receive buffers, fairness | `BuffersInv`, `OneBufferIsEnough`, `AnnouncedIsReceived`, `PhaseReturns` | 216206 |
| ident | 3 processors, 10 objects, 3 sessions, 3 orders of creation, both modes, two objects alike in one | `TablesInv`, `IdentifiedRight`, `ThrowsTogether`, `AnswerComes` | 106062 |
| join | 4 processors, 2 distributed and 3 joining objects, two sequences of environments | `CouplingInv`, `InterfacesMatch`, `ExchangeMatches`, `ShortcutsCurrent`, `SomebodyGoesOn`, `NoFalseAlarm` | 306930 |
| elements | 2 families, 3 elements, any refinements and transfers | `ListsInv`, `FamiliesRight` | 483283 |
| partitioning | 4 processors, all hierarchies of 7 elements in strips, any distribution | `Restricted`, `OverlapRight`, `RepairKeepsTogether` | 418883 |
| adapt | 3 processors, star of 5 triangles and strip of 8, 3 adaptations with 1 refinement mark and 1 family to coarsen | `CopiesAgree`, `HierarchyRight`, `MarksHonoured`, `ImplementsSequential` | 202019 |
| elements_orphans | as elements | `FatherPointersValid` is violated | 350072 |

What they show:

* `CouplingConsistency`: on a processor that is back from `XferEnd` the list of each copy names exactly the
  other owners, with their priorities. It relates two processors, of which the other may still be unpacking
  its messages. `MessagesAgree` explains why: nobody announces a priority to a processor that does not know
  the sender (`ModCoupling` would throw), all senders describe the old owners alike (`UnpackOldCplTab` takes
  one table and drops the others), and no two messages contradict each other, so their order does not matter.
* `ImplementsAtomicTransfer`: the three phases implement one step in which all commands of all processors
  take effect by the rules the comments call XFER-C1 to C3, P1 and M1. The transfer takes effect when the
  first processor passes the barrier before the objects are sent. From this step on a processor that is
  late is mapped to the result it is going to compute, which is a function of the commands of all.
* `Lockstep`, `PhaseDiscipline`, `AbortEndsTransfer`: the collective calls belong together and a message meets
  the receive buffers of its own phase, also when some processors abort.
* `SlotsConsistent`, `ListsConsistent`, `CountsConsistent`: every access by `OBJ_INDEX` hits the slot of its own
  object after any number of moves; records are in one list, have the right owner and partner, are counted,
  and go back to the memory they came from even if `OPT_CPLMGR_USE_FREELIST` changes in between.
  `ImplementsCouplingLists`: seen from outside, each operation changes the list of its own object only.
* `Barrier`, `WaveInv`, `ImplementsGlobalNotify`: nobody leaves `DDD_Notify` before everybody has entered it; infos
  are routed and never lost, the arrays suffice; all calls return the same exception or exactly the senders.
* `BuffersInv`, `OneBufferIsEnough`, `AnnouncedIsReceived`: a message meets the receive of its own phase in whatever
  order processors run ahead; MPI never writes into a freed buffer of a processor that goes on; no send
  buffer leaks; the retries of `LC_MsgAlloc` always succeed if there is room for one buffer at all; whoever
  has left a phase has got everything that was announced.
* `TablesInv`, `IdentifiedRight`, `ThrowsTogether`: both sides of an identification have the same table although they
  know different global ids; an exception for equal tuples is thrown on both sides, before either has sent.
* `AnswerComes`: a partner that tells its objects apart has sent what another one waits for, or has the sending still
  before it; and while nobody has thrown, processors do not wait in a circle (`WaitingLeadsOn`). In the mode of sets,
  two objects of the run are alike; their two owners throw, and the third processor, which shares only an unambiguous
  object with one of them, waits in vain. `AnswerComes` claims nothing about a partner that gives two objects the same
  identifiers.
* `CouplingInv`: at every moment a coupling leads to a copy that exists, or to one that a transfer in the course
  of its end deletes; no message of `JoinEnd` finds an object it does not belong to; between environments
  every copy knows all others, also while some processors are in the next environment already.
* `InterfacesMatch`, `ExchangeMatches`, `ShortcutsCurrent`: when all are through, priorities are known and the lists
  of both sides agree in length, order and direction; a message over an interface that is still on its
  way fits the list the receiver has when it comes; addresses in use are current. `NoFalseAlarm`:
  `DDD_ConsCheck` finds nothing between environments. `SomebodyGoesOn`: no exchange waits for a message that
  nobody is going to send.
* `ListsInv`, `FamiliesRight`: the element list is well-formed at each step; after each transfer SON and the father
  pointers agree, and if sons move with their fathers, no element has lost its father and NSONS is the number
  of sons.
* `Restricted`, `OverlapRight`, `RepairKeepsTogether`: after the repair each family that is refined or coarsened
  is on one processor; after the transfer each processor has exactly the copies it needs, as masters and
  ghosts, with couplings; TOPLEVEL calls suffice, and the mutants show that fewer do not.
* `CopiesAgree`, `HierarchyRight`, `MarksHonoured`, `ImplementsSequential`: all copies of an element are refined alike,
  and the masters get what a single processor would give them.

Bounds. Conflicts in a transfer arise from several commands on one object: two senders to one destination,
a sender that deletes its copy while it receives another, an old owner that learns of two new ones. Three
processors and four commands reach these and still leave a processor that is only told; a second object
adds nothing to a protocol that treats objects one by one, and does not fit into the time. Equal priorities
in xfer_max, and a matrix that makes merged priorities differ from both arguments in xfer_prune.
`MixPrioDelete` of xfer_prune excludes a known disagreement (below). Four processors are the least number with a
tree of two levels (notify), with two joiners at two targets (join), and with a family, its neighbours and
its fathers all apart (partitioning). Two phases suffice for LowComm because at most one receive is pending
per sender, as the proof shows for any number. Three adaptations are needed to coarsen what was refined next
to copies. In CplMgr initial tables of size one make them grow with the second object. The proofs below
hold for any number of headers, processors and records. Symmetry is used where no definition orders the
processors, and in no run with a liveness property.

Fairness. `XferEndReturns`, `NotifyReturns` and `PhaseReturns` assume that every processor makes its collective calls
(an application that does not has no transfer) and is not stopped inside them (one thread that only waits
for messages); commands, exceptions and copies MPI may make get no fairness. `AnswerComes` of Ident and
`SomebodyGoesOn` of Join state progress as invariants: the partner has still to come to the point where it sends,
and somebody can take a step while anybody waits. In Ident this is said of programs that tell their objects apart.

Deadlock is not checked where a run ends because all sessions or rounds are used up (notify, lowcomm, ident,
join, adapt), or where a processor waits for one that has thrown (ident).

### What disagrees with the documentation

*elements_orphans* shows the one disagreement with a comment that a run demonstrates. `ElementPriorityUpdate` and
`ElementObjMkCons` ask `GetAllSons` whether a son is attached to its father; an element that happens to follow an
attached son in the list passes for attached, as DDD has set its father pointer already, and is not
counted. When the counted sons have gone, `DisposeElement` forgets the last son, whose father pointer then is
stale (`dddif/handler.cc:1466`, comments at 1447-1449 and `gm/ugm.cc:3177`). With three sons it gets worse: NSONS 0
with two sons attached wraps to 31 when one of them goes, `GetAllSons` works again, and a father that is
disposed of takes the father pointer even of a master that stays.

Also met while modelling; nothing in the repository says otherwise, or no run states it:

* Transfer. With OPT_XFER_PRUNE_DELETE, which UG sets (`dddif/initddd.cc:999`), SetPrio and DeleteObj of one copy
  by one processor lead to different priorities on two sides (`xfer/cmds.cc:246`). `PruneXIDelCmd` ignores the
  result of `LC_Connect`, so processors get out of step after an exception there. `OBJ_RESENT` flags are kept by a
  transfer without command messages (`xfer/cmdmsg.cc:241`), `OBJ_PRUNED` by an aborted one. `XferAddDataX`
  measures sizes it does not store. UG's merge matrix is commented out (`dddif/initddd.cc:224-231`).
* Coupling manager. `AddCoupling` registers the object before the allocation that may throw
  ("we will not register objects without coupling", `mgr/cplmgr.cc:447`).
* LowComm. `LC_Cleanup` does not free the buffers of messages that were allocated but not sent. Receives of a
  processor that gives up are still posted when `LC_FreeRecvQueue` frees their buffer (`basic/lowcomm.cc:558`).
  `xfer/cmdmsg.cc`, `xfer/cplmsg.cc`, `ctrl/cons.cc` and `join/jcmds.cc` ignore EXCEPTION_LOWCOMM_CONNECT. ERROR
  and EXCEPTION_NOTIFY are the same number.
* Identification. Codes of tuples overflow with more than 29 identifiers; the position in the table and the
  global id share a field; a difference in length is found by one side only. An exception for equal tuples leaves
  `DDD_IdentifyEnd` before anything is sent (`ident/ident.cc:488`): partners that share only other objects with the
  processor are not told and wait for its message without end, in this or in a later identification.
* Join. Two processors that join one object at one target are not introduced to each other, and only the first
  coupling of a global id is forwarded (`Shared`). Joining one object at two owners runs into an assertion.
  Equal joins are dropped silently. An uncoupled target throws.
* Interfaces. When the last coupling of a processor goes, `IFDeleteAll` frees its tables but leaves the number of
  items; with a stale shortcut the next use reads the freed table (`if/ifobjsc.cc:79`). Under
  OPT_IF_CREATE_EXPLICIT an object that has lost its couplings stays in the tables until `DDD_IFRefreshAll`, and
  moves without marking them (`mgr/objmgr.cc:644-658`): the shortcuts are stale then. The receive loop ends after MAX_TRIES and frees buffers with pending
  receives (`if/ifcmd.ct:328`).
* Checks. The second check of `DDD_ConsCheck` overwrites the result of the first (`ctrl/cons.cc:657`).
* Distribution. PARTITION of ghosts is that of before the repair (`dddif/partition.cc:439` overwrites what line
  331 has set). The doubt in `gm/refine.cc:5892-5899` is answered: TOPLEVEL calls suffice, for every hierarchy
  (`RepairHolds`), and with one call less the check can fail. In the first loop of `RestrictPartitioning` the test
  `USED(theElement)` is never true: masters get the flag from their ghosts after the loop over their own level
  (`dddif/partition.cc:384`, `413`). `CheckPartitioning` skips fathers on the first two levels.
  `ConnectVerticalOverlap` is never called.
* Refinement. A family coarsened next to a refined element gets an irregular element that is then refined
  irregularly, against the header of `gm/refine.cc` (20-22). A mark COARSEN on the top level stays if no new
  level is made, and a later mark of the last sibling then coarsens the family. `RestrictMarks` tests one
  son where its comment says "no (or not all) sons". Families that were copied cannot be coarsened by marks
  on leaves. Marks on ghosts are lost.


## Proofs

TLAPS proves the following for every value of the constants, that is for any number of processors, objects,
messages and calls. (The other THEOREMs and LEMMAs of these modules are what they rest on.)

| module | theorem | property | assumption |
|---|---|---|---|
| `Xfer_proofs` | `MergeCommutes` | the order of arguments does not matter, whatever matrix | |
| | `DefaultMergeIsLattice` | equal items may be merged in any order | a default merge |
| | `MergeAllIsLub` | all priorities that arrive are merged into their least upper bound | `IsMergeLattice` |
| | `LockstepHolds`, `PhaseDisciplineHolds`, `AbortEndsTransferHolds` | `Lockstep`, `PhaseDiscipline`, `AbortEndsTransfer` | not both pruning and failing allocations |
| | `CouplingsRight`, `MessagesRight`, `TransferTypes` | `CouplingConsistency`, `MessagesAgree`, `TypeOK` | `IsMergeLattice`; if deletions are pruned, no failing allocations and no processor that changes and deletes one copy |
| | `AtomicTransferImplemented` | `ImplementsAtomicTransfer` | the same |
| `Ident_proofs` | `TablesHold`, `IdentificationHolds`, `ThrowHolds`, `AnswerHolds` | `TablesInv` (with `TypeOK`), `IdentifiedRight`, `ThrowsTogether`, `AnswerComes` | |
| `CplMgr_proofs` | `TypeCorrect`, `SlotsHold`, `ListsHold`, `CountsHold` | `TypeOK`, `SlotsConsistent`, `ListsConsistent`, `CountsConsistent` | |
| | `NoEmptySlotHolds` | no object without couplings is registered | allocations do not fail |
| | `CouplingListsImplemented` | `ImplementsCouplingLists` | |
| `Notify_proofs` | `TypeCorrect`, `BarrierHolds` | `TypeOK`, `Barrier` | |
| | `WaveInvHolds`, `GlobalNotifyImplemented` | `WaveInv`, `ImplementsGlobalNotify` | |
| `LowComm_proofs` | `BuffersHold`, `OneBufferHolds`, `AnnouncedHolds` | `BuffersInv`, `OneBufferIsEnough`, `AnnouncedIsReceived` | |
| `Join_proofs` | `CouplingsHold`, `ProgressHolds` | `CouplingInv`, `SomebodyGoesOn` | no joins of one object at one target |
| | `ShortcutsHold` | `ShortcutsCurrent` | moving objects are not on processors with OPT_IF_CREATE_EXPLICIT |
| | `InterfacesHold`, `ExchangeHolds`, `NoAlarms` | `InterfacesMatch` (with `TypeOK`), `ExchangeMatches`, `NoFalseAlarm` | no joins of one object at one target |
| `Elements_proofs` | `ListsHold`, `FamiliesHold` | `ListsInv`, `FamiliesRight` | |
| `Partitioning_proofs` | `OverlapHolds`, `RepairHolds`, `TogetherHolds` | `OverlapRight`, `Restricted`, `RepairKeepsTogether` | |

Besides these there are the assumptions of the modules themselves, which TLC evaluates in each run:
`XferAssumption` (distinguished values, finitely many processors), `CplMgrAssumption` (one processor cannot have more couplings than fit
into an int below the marks), `PhasesAssumption` (exceptions are raised in late phases only, as the one caller
of `LC_Abort` does it; in others `LC_Cleanup` leaks buffers), `InterfacesAssumption` (processors and objects are
finite in number), `AttrAssumption` (copies of one object have one attribute, and what joins it has the same: the
attribute is set at construction and never sent), `RoomAssumption`, `JoinAssumption` (one copy of an
object per processor; an object is joined at targets that have a copy), `MeshAssumption` (what a hierarchy
is: finitely many elements, each on the level below its father; an irregular element has irregular sons, and all
sons of one father are of one class; elements to coarsen are leaves), `ElementsAssumption` (finitely many elements; a father
has fewer than 32 sons, as MAX_SONS is 30), `IdentAssumption` and `ContractKept` (see Ident), `NameAssumption`, and the type assumptions of `Notify`.

How they go:

* *Xfer.* `PhaseInv` extends `Lockstep` by what an exception leads to: aborts are in the last call of a processor
  (`AbortsInLastCall`), nobody who is past a call can learn of an exception in it (`NoLateException`), messages
  that are not sent yet meet their receiver too (`OutMeetsReceiver`), and all messages under way are of one call
  (`MsgsOfCommonCall`). The steps are of four kinds: those that leave `pc` alone, calls of `LC_Connect`, returns
  from it, and the end. With pruning and failing allocations together `Lockstep` is false: `PruneXIDelCmd` does
  not look at the result of `LC_Connect`.
* *Xfer, couplings.* Nobody sees all commands of a transfer at one time, so `TransferInv` asks for a `History`, the
  copies and commands the transfer started from, such that everything is what follows from it. It has three modes:
  `Quiet` (no messages of objects or couplings), `ObjMode(h)` (objects are under way or being unpacked) and
  `CplMode` (couplings are). `Before`, `Middle` and `Final` are the couplings and priorities of the three stages;
  `ObjMsgOk` and `CplMsgOk` say exactly what a message contains. Senders of a new copy tell all owners and each
  other's receivers (`Tellers`); two new owners that nobody told of each other are told by the owner that sent
  both. What arrives in several messages is merged piecewise, which gives the same as merging all at once, since
  `MergeAll` is the least upper bound in the order the matrix defines (`MergeAllIsLub`); for other matrices
  copies on different processors may end up with different ideas of a priority. TLC checked the same invariant, with
  the history as an additional variable, on small instances first. Its two assumptions on pruning are those under
  which the code is right: see "What disagrees with the documentation" for a change and a deletion of one copy, and for what a failed
  allocation leads to.
* *Xfer, refinement.* In `Quiet` and `CplMode` the abstract objects and commands are the concrete ones
  (`PlainView`), in `ObjMode(h)` every abstract object has its final priority already (`SentView`). So only one step
  can be the abstract `Transfer`: that of the first processor to execute commands. That all are in the same transfer
  then, and that nobody aborts before all have called XferEnd, needs `RoundsInv`: two processors in the same
  collective call have called XferEnd equally often, and who is one call ahead has called it once more exactly if
  this call is the first of a transfer.
* *Ident, tables.* Two processors sort with different global ids, and while p sorts they differ even from those
  that p and q will agree on. What matters is that those p knows `Fit`: they are final for objects of earlier
  sessions, tell all objects apart, and are no positions. Then every key is a function of places and final global ids
  (`KeyIs`), because a reference to an object of the session has been replaced before its tuple is looked at;
  so each level is (`NextIs`), and the table is the `FinalTable` that both find, whatever the order of the commands
  was (`SortSame`). In the mode of sets this needs that sorted identifiers are a function of the set although equal
  ones may repeat (`SortExists`, `IntoTupleSame`). A level is never empty: take an object of least `Depth` that
  has no place (`NoCycle`). Sorting gives up if and only if two objects have the same identifiers, seen by each
  processor that has both (`AmbiguousAlike`, `AlikeAmbiguous`): the first pair of equal places is of one level, its
  references have places of their own, so what was equal after the replacement was equal before.
* *Ident, messages.* p has *passed* a session when it has sent its tables, has *received* q's when it no longer
  waits for q, and has *heard* about x from those it has received from. `GidInv` and `CouplingInv` say that the global
  id of a copy is the least of those heard of and couplings are with those heard from; `GidsNow` that
  this does not change the global ids of a session before p has sent. `ChannelInv` lists the sessions whose
  messages are under way from q to p: those q has passed and p has not received, in order, with exactly what
  `LetterIs` says. So what p takes next is of p's own session (`HeadIs`) although q may be some sessions ahead, and
  the lengths agree. Priorities in a message are still right when it arrives, as a copy with partners changes
  its priority only before it is sent (`PrioStep`). Who has thrown found two places equal, so it was given the same
  identifiers twice (`ThrownGivesAlike`); any other partner of a waiting processor has sent, or has not passed yet
  (`SentOrNotPassed`). For `WaitingLeadsOn` take a blocked processor of the least session: whom it waits for is not
  blocked. TLC checked the invariant on the run's instance first.
* *CplMgr.* `SlotInv`, `ListInv` and `CountInv` are inductive together. The slot that moves into the gap may be the
  gap itself; counting is done with the cardinality of a finite set of pairs of slot and record. The refinement
  follows from them step by step, since each list is reached from one slot only.
* *Notify.* `TreeInv` relates the two ends of each edge of the tree: what a father has sent and a son has got. For
  `BarrierHolds` take the smallest processor that contradicts it; its father is smaller. For the infos,
  `Below(p)` is the intersection of all sets with p that are closed under sons, and `WaveAt(p)` says for each
  point of the wave exactly which infos p holds and in what the exception is the greatest. The array suffices as
  infos map one to one to pairs of processors. One lemma per action; the refinement is read off at the root.
* *LowComm.* `StreamInv` says which announced messages have been sent and which receives posted at each point of
  a phase. Both are in the order of phases, so the i-th send from one processor to another and the i-th
  receive are for the same phase (`RecvInv`). `CallInv` has the collective calls, `QueueInv` the queues and buffers.
* *Join.* `ProtocolInv` is exact: `KnownInv` says which couplings each copy has in each phase, `NetInv` which messages
  are prepared, under way or unpacked, `Barriers` how far apart processors can be, `GoneInv` that what was deleted
  does not come back before everybody has heard of it. With several joins of one object at one target it fails
  where the code does: the target introduces both to the owners and not to each other. For `ShortcutsHold` the tables
  may hold only objects with couplings (`ShortcutInv`). For `ProgressHolds` the messages between two neighbours
  are counted: as many as there are exchanges that one side has sent for and the other has not completed
  (`CountInv`), both have a list for the other (`StdInv`), and so the processor that is furthest behind can go
  on. The attempt to prove an early version of `GoneInv` showed that the model forgot the deletions of the
  first of two successive transfers; `deleted` has held rounds since.
* *Join, interfaces.* `sort_IFCouplings` is modelled as the choice of a sorted list. The position of an object in
  any such list is the number of objects before it (`SortedIs`), so two sets with the same global ids and
  attributes have lists that match (`ListsMatch`); that the two sides of a boundary have such sets follows from
  `ProtocolInv`. `PrioInv` adds the priorities: while nothing of q is on its way to p and q does not change any
  (`Fresh`), p's couplings have q's priorities (`KnownPrios`), otherwise the last message on its way has
  (`ChanInv`); items of a join have those of the copies they are about (`ItemInv`) - as long as the processor they
  are about is not in a later priority environment already, whose message then comes after them; standard lists
  are up to date whenever they are read (`ListsInv`). TLC checked `PrioInv` as an invariant first. Two things came
  out of the attempt: `TypeOK` claimed that standard lists have coupled objects only, also where interfaces are
  created explicitly, which a deletion makes false; and nothing had said where attributes come from
  (`AttrAssumption`). The fold in `DDD_ConsCheck` needs an induction of its own, over the size of sets, for the
  special case of zeros.
* *Elements, list.* A list is described by the order of its elements, a set `R` of pairs: `ListIs` says that SUCC,
  PRED and the ends of the two parts are those of `R` with the ghosts before the masters. Unlinking leaves `R` as
  it is, linking inserts one element behind an initial set (`InsertOf`). Where SUCC leads in n steps is the
  element at the n-th position (`NthIs`), which gives `ListsInv`. `Nth`, `CreateElements` and `DisposeElements` are
  recursive functions; that they exist is shown with a smallest counterexample.
* *Elements, families.* From SON to an attached son there are only sons of the same father and kind (`Attached`).
  `Family(u, S, R, P)` says that all sons in S are attached but those in P. While DDD unpacks, P are the
  elements whose priority handler has not run yet (`Misplaced`): their father pointer may be set already although
  they are elsewhere in the list. Each handler puts its own element in place and disturbs nobody (`Relinked`,
  `SetPriorityIs`, `NewObjectIs`), in any order. That a handler finds its son attached by GetAllSons needs NSONS to be
  right (`Counted`), which it is only with inherited partitions. After `FatherPointersValid` has failed only the list
  is claimed. An earlier form of `FamiliesRight` said that no master loses its father, with or without inherited
  partitions. The proof failed at the family of three described above; the run's families have two sons at most,
  and TLC then found the counterexample on an instance with three.
* *Partitioning, overlap.* `OverlapInv` has three parts: one master, ghosts where they are needed, and what copies
  know of the destination of their master. `SentIs` and `KeptIs` say what reaches and what stays on a processor, in
  terms of the destinations only; each processor decides with the copies it sees, and the lemma `Goes` says that
  this is enough: a father's master sees all neighbours, but a son of a ghost only if it is on the same
  processor. `ResultIs` puts them together for the rules of `XferAbstract`, where priorities are merged into their
  maximum (`MergeAllIsMax`).
* *Partitioning, repair.* Why is one call per level enough, when both an element and its father may move in the same
  call? Take the elements of a leaf's line of fathers that are irregular and not with their fathers (`Apart`).
  A call adds none (`NoneTakenApart`), as sons that are with their father get its flag and its destination.
  Among those that are to follow their fathers there is a coarsest one; nothing above it moves, so it arrives,
  and there is one less (`FewerApart`). This needs that the regular element at the top stays: no regular son of
  a flagged element is on the first `calls` levels (`Calm`), which holds as the first calls repair
  the coarse levels. So `Repaired(H, c)` - a leaf whose regular fathers are on the first c levels has at most as
  many elements apart as it is levels above c, and regular elements to coarsen on the first c + 1 levels are with
  their fathers - goes from c to c + 1 with every call (`RepairedOnceMore`), and c = TOPLEVEL is the assertion.
  `LeavesFlagged` says what the first loop has flagged, `MovedUpTo` what the second has done level by level. TLC
  checked all of these on the run's instance first. Lines of fathers are a recursive function;
  that it is well defined is an induction over levels (`LineExists`).

Only model-checked:

* AdaptMultiGrid: `CopiesAgree`, `HierarchyRight`, `MarksHonoured` and the refinement of RefineSequential. None of
  them is inductive: that two copies of an element get the same pattern depends on which processors have which
  elements around an edge, on every level at once, and that depends on the geometry of the sons (which edge of
  which son lies on which edge of the father) for every rule. The invariant this needs has not been written down
  and checked, so nothing is claimed beyond the two grids of the run.
* Liveness: `XferEndReturns`, `NotifyReturns`, `PhaseReturns`. `ProgressHolds` is the part of it that is an invariant.

## Not modelled

* Most of `gm/`: nodes, edges and vectors as objects, elements other than triangles and everything in three
  dimensions, the tables of refinement rules (`RefRules.cc`, `GenerateRules.cc`, `er.cc`), hanging nodes, the
  closure by FIFO, algebra, shape functions, extraction and I/O (`mgio.cc`, `bio.cc`). This is by far the largest part
  of the code, which is why the mapped lines are a small part of all: tables of data, geometry, and sequential
  loops over them without a protocol.
* `dddif/identify.cc` (what is identified after refinement; the identification itself is in Ident), handlers
  for other objects than elements, the geometry of load balancing, `ConnectGridOverlap`.
* In DDD: dependent data and the layout of messages, type and attribute managers, the counter of global ids,
  interfaces by attribute and type, one way and asynchronous exchange, statistics.
* `domain`, `low`, `initug`, `ugdevices`, and of `ppif` broadcast and global sums.

## Plan

1. More proofs: the part of `CouplingConsistency` that does not depend on how priorities merge (who has a
   coupling to whom) without `IsMergeLattice`.
2. A module for global ids and their overflow, and the creation of priorities and attributes outside of
   environments.
3. A proof of `CopiesAgree` for the closure alone, for any number of processors.
4. A two-object instance of Xfer was tried and is too large to check; objects do not interact in the
   protocol.
