------------------------------- MODULE Ident ----------------------------------
(***************************************************************************)
(* The identification of objects (parallel/ddd/ident/ident.cc): copies that *)
(* were created independently on several processors become one distributed  *)
(* object.  Between DDD_IdentifyBegin and DDD_IdentifyEnd each owner names   *)
(* the copy with a tuple of identifiers (numbers, strings, other objects),   *)
(* once for every other owner.  IdentifyEnd sorts the tuples of each partner *)
(* into a table, sends the table's global ids and priorities, and pairs the  *)
(* incoming table with its own BY POSITION: nothing in the message names the *)
(* tuple.  Both sides must therefore find the same order although they know  *)
(* different global ids for the objects they are identifying.                *)
(***************************************************************************)
EXTENDS Naturals, Sequences, FiniteSets, FiniteSetsExt, Functions

CONSTANTS
  Proc,        \* the processors
  Obj,         \* the objects the program identifies
  Owners,      \* [Obj -> SUBSET Proc]: the processors with a copy
  TypeOf,      \* [Obj -> Nat]: OBJ_TYPE
  Session,     \* [Obj -> 1..Sessions]: the identification that treats it
  Identifiers, \* [Obj -> Seq of <<typeId, value>>]: the commands for it
  Depth,       \* [Obj -> Nat]: bound on the chains of IdentifyObject from it
  Orders,      \* SUBSET [Proc -> Seq(Obj)]: orders of creation on the processors
  Reversing,   \* processors that may give an object's identifiers in reverse
  Changing,    \* objects whose priority may be raised
  Sessions,    \* bound: number of identifications
  GidBase      \* global ids are at least as large

(* types of IDENTINFO items, ID_OBJECT must be the smallest value *)
ID_OBJECT == 1
ID_NUMBER == 2
ID_STRING == 3

VARIABLES
  option,    \* OPT_IDENTIFY_MODE: "IDMODE_LISTS" or "IDMODE_SETS"
  created,   \* \in Orders: the order in which the copies were created
  identMode, \* [Proc -> {"IDLE", "CMDS", "BUSY", "THROWN"}]
  session,   \* [Proc -> Nat]: identifications begun
  issued,    \* [Proc -> BOOLEAN]: the program has given its commands
  gid,       \* [Proc -> [Obj -> Nat]]: OBJ_GID of the local copy
  prio,      \* [Proc -> [Obj -> {1, 2}]]: OBJ_PRIO of the local copy
  plist,     \* plist[p][q]: thePLists, by object its global id and identifiers
  indexmap,  \* indexmap[p][q]: the positions of the objects in q's table
  waiting,   \* [Proc -> SUBSET Proc]: the partners with msgin # NULL
  channel,   \* [Proc -> [Proc -> Seq]]: messages sent and not yet received
  coupling   \* [Proc -> [Obj -> [Proc -> {0, 1, 2}]]]: priorities, 0 for none

vars == << option, created, identMode, session, issued, gid, prio, plist,
           indexmap, waiting, channel, coupling >>

(* Global ids are made from a counter and the processor (MakeUnique); they   *)
(* are larger than the positions in a table, which share a field with them.  *)
MakeUnique(p, n) == n * GidBase + p

FirstGid == [p \in Proc |-> [x \in Obj |->
  MakeUnique(p, CHOOSE n \in DOMAIN created[p] : created[p][n] = x)]]

Partners(p, x) == Owners[x] \ {p}

(* The objects of the same identification by which x is known. *)
KnownBy(x) == {y \in Obj : Session[y] = Session[x] /\
                 \E n \in DOMAIN Identifiers[x] : Identifiers[x][n] = <<ID_OBJECT, y>>}

(* TupleInit codes a tuple in an unsigned long: two bits for each identifier *)
(* and six for their number.  SetLOI takes a chain of more than 64           *)
(* references for a cycle.                                                   *)
MaxTuple == 29
MaxLoi == 64

(* The contract of ident.cc: every owner of x commands every other owner, an *)
(* object x is known by is distributed to them already or identified with x, *)
(* and neither tuples nor chains of references are too long.                 *)
Contract ==
  \A x \in Obj :
    /\ Len(Identifiers[x]) \in 1..MaxTuple
    /\ \A n \in DOMAIN Identifiers[x] :
         LET i == Identifiers[x][n]
         IN  \/ i[1] \in {ID_NUMBER, ID_STRING} /\ i[2] \in Nat
             \/ i[1] = ID_OBJECT /\ i[2] \in Obj /\ Owners[x] \subseteq Owners[i[2]]
                  /\ Session[i[2]] <= Session[x]
    /\ Depth[x] \in 0..MaxLoi
    /\ \A y \in KnownBy(x) : Depth[y] < Depth[x]

Created ==
  \A order \in Orders : \A p \in Proc : \A x \in Obj :
    p \in Owners[x] => \E n \in DOMAIN order[p] : order[p][n] = x

ASSUME IdentAssumption ==
  /\ IsFiniteSet(Proc) /\ IsFiniteSet(Obj) /\ Sessions \in Nat
  /\ GidBase \in Nat /\ GidBase > Cardinality(Obj)
  /\ \A p \in Proc : p \in Nat /\ p < GidBase
  /\ \A x \in Obj : /\ Owners[x] \subseteq Proc /\ TypeOf[x] \in Nat
                    /\ Session[x] \in 1..Sessions
                    /\ Identifiers[x] \in Seq({ID_OBJECT, ID_NUMBER, ID_STRING} \X (Nat \cup Obj))
  /\ \A order \in Orders : \A p \in Proc : order[p] \in Seq(Obj)

ASSUME ContractKept == Contract /\ Created

(***************************************************************************)
(* The tables.                                                             *)
(***************************************************************************)
Nothing == [x \in {} |-> 0]

(* compareId, as a strict order on identifiers. *)
CompareId(a, b) ==
  \/ a.typeId < b.typeId
  \/ a.typeId = b.typeId /\ a.id < b.id

Arrangements(s) == {[i \in DOMAIN s |-> s[f[i]]] : f \in Bijection(DOMAIN s, DOMAIN s)}

(* sort_intoTuplesLists keeps the order of the commands for an object,       *)
(* sort_intoTuplesSets sorts them by the identifiers themselves.             *)
IntoTuple(mode, ids) ==
  IF mode = "IDMODE_LISTS" THEN ids
  ELSE CHOOSE s \in Arrangements(ids) :
         \A i, j \in DOMAIN s : i < j => ~CompareId(s[j], s[i])

(* An IdentifyObject that means y's tuple: global ids are compared.          *)
Means(entries, i, y) == i = [typeId |-> ID_OBJECT, id |-> entries[y].gid]

References(entries, x) ==
  {y \in DOMAIN entries : \E n \in DOMAIN entries[x].ids : Means(entries, entries[x].ids[n], y)}

(* ResolveDependencies and SetLOI: a tuple is sorted with those for which    *)
(* the longest chain of references is as long, after all it refers to.       *)
Level(entries, table) ==
  {x \in DOMAIN entries \ DOMAIN table : References(entries, x) \subseteq DOMAIN table}

(* A reference to a tuple of the table becomes the position of that tuple:   *)
(* its global id is not the same on the other side.                          *)
Resolved(entries, table, i) ==
  IF \E y \in DOMAIN table : Means(entries, i, y)
  THEN [typeId |-> ID_OBJECT, id |-> table[CHOOSE y \in DOMAIN table : Means(entries, i, y)]]
  ELSE i

(* What is compared: first the number in which TupleInit codes the length    *)
(* and the structure (longer tuples have greater ones), then the             *)
(* identifiers, then the object's type.                                      *)
Key(tuple, type) ==
  LET n == Len(tuple)
  IN  [k \in 0..(2 * n + 1) |-> IF k = 0 THEN n
                                ELSE IF k <= n THEN tuple[k].typeId
                                ELSE IF k <= 2 * n THEN tuple[k - n].id ELSE type]

(* Variants of TupleKey for the mutants: the tuple keeps the order of the     *)
(* global ids after the replacement; the type of the object is forgotten.    *)
KeyUnsorted(mode, entries, table, x) ==
  LET tuple == IntoTuple(mode, entries[x].ids)
  IN  Key([n \in DOMAIN tuple |-> Resolved(entries, table, tuple[n])], TypeOf[x])

KeyUntyped(mode, entries, table, x) ==
  LET ids == entries[x].ids
  IN  Key(IntoTuple(mode, [n \in DOMAIN ids |-> Resolved(entries, table, ids[n])]), 0)

(* A variant for the mutants: the option is forgotten.                       *)
KeyOfSets(mode, entries, table, x) ==
  LET ids == entries[x].ids
  IN  Key(IntoTuple("IDMODE_SETS", [n \in DOMAIN ids |-> Resolved(entries, table, ids[n])]), TypeOf[x])

(* A tuple as it is compared: after the replacement, sorted if the order of  *)
(* the commands does not count.                                              *)
TupleKey(mode, entries, table, x) ==
  LET ids == entries[x].ids
  IN  Key(IntoTuple(mode, [n \in DOMAIN ids |-> Resolved(entries, table, ids[n])]), TypeOf[x])

(* sort_tupleOrder. *)
TupleOrder(s, t) ==
  \E i \in DOMAIN s \cap DOMAIN t : s[i] < t[i] /\ \A j \in DOMAIN s : j < i => s[j] = t[j]

(* IdentifySort: the levels of indirection one after the other, each sorted  *)
(* with the positions that the earlier levels have got.                      *)
NextTable(mode, entries, table) ==
  LET level == Level(entries, table)
      keys  == [x \in level |-> TupleKey(mode, entries, table, x)]
  IN  [x \in DOMAIN table \cup level |->
         IF x \in DOMAIN table THEN table[x]
         ELSE Cardinality(DOMAIN table) + Cardinality({y \in level : TupleOrder(keys[y], keys[x])})]

Tables(mode, entries) ==
  LET table[n \in 0..Cardinality(DOMAIN entries)] ==
        IF n = 0 THEN Nothing ELSE NextTable(mode, entries, table[n - 1])
  IN  table

IdentifySort(mode, entries) == Tables(mode, entries)[Cardinality(DOMAIN entries)]

(* IdentifyObject-cycle: the tuples of a cycle never get a level. *)
Cyclic(entries, table) == DOMAIN table # DOMAIN entries

(* "same identification tuple for objects": two tuples which sort_tupleOrder *)
(* cannot tell apart have the same place.                                    *)
Ambiguous(table) == \E x, y \in DOMAIN table : x # y /\ table[x] = table[y]

(***************************************************************************)
(* The calls.                                                              *)
(***************************************************************************)
Nobody == [q \in Proc |-> Nothing]

Init ==
  /\ option \in {"IDMODE_LISTS", "IDMODE_SETS"}
  /\ created \in Orders
  /\ gid = [p \in Proc |-> [x \in Obj |-> IF p \in Owners[x] THEN FirstGid[p][x] ELSE 0]]
  /\ identMode = [p \in Proc |-> "IDLE"]
  /\ session = [p \in Proc |-> 0]
  /\ issued = [p \in Proc |-> FALSE]
  /\ prio = [p \in Proc |-> [x \in Obj |-> 1]]
  /\ plist = [p \in Proc |-> Nobody]
  /\ indexmap = [p \in Proc |-> Nobody]
  /\ waiting = [p \in Proc |-> {}]
  /\ channel = [p \in Proc |-> [q \in Proc |-> << >>]]
  /\ coupling = [p \in Proc |-> [x \in Obj |-> [q \in Proc |-> 0]]]

(* IdentStepMode: IDLE -> CMDS -> BUSY -> IDLE; any other call throws. *)
IdentStepMode(p, old, new) ==
  /\ identMode[p] = old
  /\ identMode' = [identMode EXCEPT ![p] = new]

DDD_IdentifyBegin(p) ==
  /\ session[p] < Sessions
  /\ IdentStepMode(p, "IDLE", "CMDS")
  /\ session' = [session EXCEPT ![p] = @ + 1]
  /\ issued' = [issued EXCEPT ![p] = FALSE]
  /\ plist' = [plist EXCEPT ![p] = Nobody]
  /\ UNCHANGED << option, created, gid, prio, indexmap, waiting, channel,
                  coupling >>

(* The objects for which p gives commands with q in its n-th identification. *)
Shared(p, q, n) == {x \in Obj : p \in Owners[x] /\ q \in Partners(p, x) /\ Session[x] = n}

(* The identifiers in the agreed order or, where the order does not count,   *)
(* in the reverse.                                                           *)
Given(x, order) ==
  LET ids == Identifiers[x]
  IN  [n \in DOMAIN ids |-> IF order = "agreed" THEN ids[n] ELSE ids[Len(ids) + 1 - n]]

(* The entries of commands for the objects of S: the global ids are those    *)
(* that the object and the identifying objects have as of now.               *)
IdentifyIdEntry(S, gids, order) ==
  [x \in S |-> [gid |-> gids[x],
                ids |-> [n \in DOMAIN Given(x, order) |->
                  LET i == Given(x, order)[n]
                  IN  [typeId |-> i[1], id |-> IF i[1] = ID_OBJECT THEN gids[i[2]] ELSE i[2]]]]]

(* DDD_IdentifyNumber, DDD_IdentifyString, DDD_IdentifyObject: all the        *)
(* commands between Begin and End.  They only write the plists, so nothing   *)
(* but the priorities can change in between, which are read later.           *)
Identify(p) ==
  /\ identMode[p] = "CMDS" /\ ~ issued[p]
  /\ \E order \in {"agreed"} \cup
         (IF option = "IDMODE_SETS" /\ p \in Reversing THEN {"reverse"} ELSE {}) :
       plist' = [plist EXCEPT ![p] = [q \in Proc |->
                   IdentifyIdEntry(Shared(p, q, session[p]), gid[p], order)]]
  /\ issued' = [issued EXCEPT ![p] = TRUE]
  /\ UNCHANGED << option, created, identMode, session, gid, prio, indexmap,
                  waiting, channel, coupling >>

(* DDD_PrioChange of a copy that has no couplings: allowed between the       *)
(* Identify-commands and IdentifyEnd.                                        *)
DDD_PrioChange(p, x) ==
  /\ identMode[p] = "CMDS"
  /\ x \in Changing /\ p \in Owners[x] /\ prio[p][x] = 1
  /\ \A q \in Proc : coupling[p][x][q] = 0
  /\ prio' = [prio EXCEPT ![p][x] = 2]
  /\ UNCHANGED << option, created, identMode, session, issued, gid, plist,
                  indexmap, waiting, channel, coupling >>

(* For the mutants: the priority the object was created with.                *)
MsgItemOfCommand(p, q, x) == [gid |-> plist[p][q][x].gid, prio |-> 1]

(* The message item of x: the priority is read from the header at the start  *)
(* of IdentifyEnd ("line L1"), the global id when the command was given.     *)
MsgItem(p, q, x) == [gid |-> plist[p][q][x].gid, prio |-> prio[p][x]]

ToIdentify(p) == {q \in Proc : DOMAIN plist[p][q] # {}}

Sorted(p) == [q \in Proc |-> IdentifySort(option, plist[p][q])]

(* IdentifySort gives up on a cycle and on tuples it cannot order. *)
Throws(p, tables) == \E q \in Proc : Cyclic(plist[p][q], tables[q]) \/ Ambiguous(tables[q])

(* What is sent to q: an item for each place of the table. *)
Message(p, q, table) ==
  [i \in Range(table) |-> MsgItem(p, q, CHOOSE x \in DOMAIN table : table[x] = i)]

(* DDD_IdentifyEnd up to InitComm: the tables are built and sent, and a      *)
(* receive is posted for every partner; or the exception leaves the call.    *)
DDD_IdentifyEnd(p) ==
  /\ identMode[p] = "CMDS" /\ issued[p]
  /\ \E tables \in {Sorted(p)} :
       IF Throws(p, tables)
       THEN /\ IdentStepMode(p, "CMDS", "THROWN")
            /\ UNCHANGED << indexmap, channel, waiting >>
       ELSE /\ IdentStepMode(p, "CMDS", "BUSY")
            /\ indexmap' = [indexmap EXCEPT ![p] = tables]
            /\ channel' = [channel EXCEPT ![p] = [q \in Proc |->
                 IF q \in ToIdentify(p) THEN Append(@[q], Message(p, q, tables[q])) ELSE @[q]]]
            /\ waiting' = [waiting EXCEPT ![p] = ToIdentify(p)]
  /\ UNCHANGED << option, created, session, issued, gid, prio, plist, coupling >>

(* One message of the receive loop: object by object the smaller global id   *)
(* wins, and a coupling with the partner's priority is added.                *)
Incoming(p, q, x) == Head(channel[q][p])[indexmap[p][q][x]]

Smaller(g, h) == IF g < h THEN g ELSE h

LengthAgrees(p, q) ==
  Cardinality(DOMAIN Head(channel[q][p])) = Cardinality(DOMAIN indexmap[p][q])

Receive(p, q) ==
  /\ identMode[p] = "BUSY" /\ q \in waiting[p] /\ channel[q][p] # << >>
  /\ LET found == IF LengthAgrees(p, q) THEN DOMAIN indexmap[p][q] ELSE {}
     IN  /\ gid' = [gid EXCEPT ![p] = [x \in Obj |->
               IF x \in found THEN Smaller(@[x], Incoming(p, q, x).gid) ELSE @[x]]]
         /\ coupling' = [coupling EXCEPT ![p] = [x \in Obj |->
               IF x \in found THEN [@[x] EXCEPT ![q] = Incoming(p, q, x).prio]
                              ELSE @[x]]]
  /\ identMode' = [identMode EXCEPT ![p] = IF LengthAgrees(p, q) THEN @ ELSE "THROWN"]
  /\ channel' = [channel EXCEPT ![q][p] = Tail(@)]
  /\ waiting' = [waiting EXCEPT ![p] = @ \ {q}]
  /\ UNCHANGED << option, created, session, issued, prio, plist, indexmap >>

(* The end of DDD_IdentifyEnd.  A partner posts its receive before it sends, *)
(* so p's sends can complete once p has received from everybody.             *)
IdentifyEndReturns(p) ==
  /\ waiting[p] = {}
  /\ IdentStepMode(p, "BUSY", "IDLE")
  /\ indexmap' = [indexmap EXCEPT ![p] = Nobody]
  /\ UNCHANGED << option, created, session, issued, gid, prio, plist, waiting,
                  channel, coupling >>

Step(p) ==
  \/ DDD_IdentifyBegin(p) \/ Identify(p) \/ DDD_IdentifyEnd(p)
  \/ \E q \in Proc : Receive(p, q)
  \/ IdentifyEndReturns(p)

Next == \E p \in Proc : Step(p) \/ \E x \in Obj : DDD_PrioChange(p, x)

Spec == Init /\ [][Next]_vars

(***************************************************************************)
(* Properties.                                                             *)
(***************************************************************************)
Prio == {1, 2}
IdentInfo == [typeId : {ID_OBJECT, ID_NUMBER, ID_STRING}, id : Nat]

TypeOK ==
  /\ identMode \in [Proc -> {"IDLE", "CMDS", "BUSY", "THROWN"}]
  /\ session \in [Proc -> 0..Sessions]
  /\ gid \in [Proc -> [Obj -> Nat]]
  /\ prio \in [Proc -> [Obj -> Prio]]
  /\ \A p, q \in Proc :
       /\ \A x \in DOMAIN plist[p][q] :
            {p, q} \subseteq Owners[x] /\ plist[p][q][x] \in [gid : Nat, ids : Seq(IdentInfo)]
       /\ \A x \in DOMAIN indexmap[p][q] : {p, q} \subseteq Owners[x] /\ indexmap[p][q][x] \in Nat
       /\ \A n \in DOMAIN channel[p][q] : \A i \in DOMAIN channel[p][q][n] :
            channel[p][q][n][i] \in [gid : Nat, prio : Prio]
  /\ coupling \in [Proc -> [Obj -> [Proc -> {0} \cup Prio]]]
  /\ waiting \in [Proc -> SUBSET Proc]

(* The tables that two processors build for each other, each from the global *)
(* ids it knows, list the same objects in the same order.  The messages of   *)
(* DDD_IdentifyEnd are paired by position, so any difference would silently  *)
(* make one object of two.                                                   *)
PairsMatch ==
  \A p, q \in Proc :
    (/\ {identMode[p], identMode[q]} = {"BUSY"} /\ session[p] = session[q])
      => indexmap[p][q] = indexmap[q][p]

(* What the exchange by position relies on: tables of objects both have, in  *)
(* the same order.                                                           *)
TablesInv == TypeOK /\ PairsMatch

Identified(x) == \A p \in Owners[x] :
  session[p] > Session[x] \/ (session[p] = Session[x] /\ identMode[p] = "IDLE")

(* When all owners are back from DDD_IdentifyEnd, their copies have one      *)
(* global id, "the minimum of both local object IDs" over all pairs, and no  *)
(* other object has it.                                                      *)
SameGid ==
  \A x \in Obj, p \in Proc : p \in Owners[x] /\ Identified(x) =>
    /\ gid[p][x] = Min({FirstGid[q][x] : q \in Owners[x]})
    /\ \A q \in Proc, y \in Obj : gid[q][y] = gid[p][x] => y = x

(* When all owners are back, each has exactly one coupling for every other   *)
(* owner, with the priority that owner's copy has: also when the priority    *)
(* changed after the Identify-commands.                                      *)
CouplingsRight ==
  \A x \in Obj : Identified(x) => \A p \in Owners[x], q \in Proc :
    coupling[p][x][q] = IF q \in Partners(p, x) THEN prio[q][x] ELSE 0

(* What an identification is for: the copies become copies of one object, in *)
(* name and in the coupling lists.                                           *)
IdentifiedRight == SameGid /\ CouplingsRight

(* The identifiers do not tell x and y apart, given the option. *)
SameIdentifiers(x, y) ==
  /\ TypeOf[x] = TypeOf[y]
  /\ \/ Identifiers[x] = Identifiers[y]
     \/ option = "IDMODE_SETS" /\ Identifiers[x] \in Arrangements(Identifiers[y])

(* DDD_IdentifyEnd throws only if the program gave the same identifiers to   *)
(* two objects, and then every processor that shares the two throws before   *)
(* it has sent anything: none of these waits for another one of them.        *)
ThrowsTogether ==
  \A p \in Proc : identMode[p] = "THROWN" =>
    \E x, y \in Obj :
      /\ x # y /\ SameIdentifiers(x, y) /\ Session[x] = session[p]
      /\ \A q \in Owners[x] \cap Owners[y] :
           /\ session[q] <= session[p]
           /\ session[q] = session[p] => identMode[q] \in {"CMDS", "THROWN"}

(* In its n-th identification q gives the same identifiers to two objects it *)
(* shares with one partner.                                                  *)
GivesAlike(q, n) ==
  \E r \in Proc : \E x, y \in Shared(q, r, n) : x # y /\ SameIdentifiers(x, y)

(* q has the sending part of its n-th DDD_IdentifyEnd before it, and has not *)
(* left an earlier one, or this one, by an exception.                        *)
StillToSend(q, n) ==
  /\ identMode[q] # "THROWN"
  /\ session[q] < n \/ (session[q] = n /\ identMode[q] = "CMDS")

(* A partner that tells its objects apart does not leave a processor that    *)
(* waits in DDD_IdentifyEnd: it has sent its message, or the sending is      *)
(* still before it, unless it waits in vain itself.  A partner that does not *)
(* tell its objects apart may throw, also for objects it shares with a third *)
(* processor only, and then who waits for it waits in vain.                  *)
PartnersAnswer ==
  \A p, q \in Proc :
    q \in waiting[p] /\ (\A n \in 1..session[p] : ~GivesAlike(q, n)) =>
      channel[q][p] # << >> \/ StillToSend(q, session[p])

(* q is not blocked, and what it does next leads it on to the n-th           *)
(* identification.                                                           *)
CanGoOn(q, n) ==
  \/ identMode[q] = "IDLE" /\ session[q] < n
  \/ identMode[q] = "CMDS"
  \/ identMode[q] = "BUSY" /\ (waiting[q] = {} \/ \E r \in waiting[q] : channel[r][q] # << >>)

(* There is no circle of processors that wait for each other in different    *)
(* identifications: while nobody has thrown and somebody waits, one of those *)
(* that are not ahead of it can go on.                                       *)
WaitingLeadsOn ==
  (\A q \in Proc : identMode[q] # "THROWN") =>
    \A p \in Proc : waiting[p] # {} =>
      \E q \in Proc : session[q] <= session[p] /\ CanGoOn(q, session[p])

(* In a program that tells its objects apart nobody waits in DDD_IdentifyEnd *)
(* in vain: nobody throws (ThrowsTogether), so that each partner that has    *)
(* not sent is on its way to do so, and one of those behind can go on.       *)
AnswerComes == PartnersAnswer /\ WaitingLeadsOn
===============================================================================
