------------------------------ MODULE ConsCheck -------------------------------
(* The consistency check of DDD (ctrl/cons.cc, if/ifcheck.cc), a debugging   *)
(* tool: every processor sends its coupling lists to the owners of the other *)
(* copies, who compare them with their own.  Each operator gives the number  *)
(* of errors a processor finds.                                              *)
EXTENDS Interfaces

(* ConsCheckDoubleObj: objects of the table, which are those with couplings, *)
(* sorted by id, neighbours with the same id.                                *)
ConsCheckDoubleObj(p) ==
    Cardinality(Coupled(p, cpl)) - Cardinality({gid[o] : o \in Coupled(p, cpl)})

(* ConsCheckGlobalCpl: there is an object with the right priority for each   *)
(* coupling of the others.                                                   *)
ConsCheckGlobalCpl(p) ==
    Cardinality({o \in Obj : p \in DOMAIN cpl[o] /\
                ~\E x \in Coupled(p, cpl) : gid[x] = gid[o] /\ prio[x] = cpl[o][p]})

(* Cons2CheckGlobalCpl: each has the couplings the other has.  Items of one  *)
(* object are in no particular order; the item about the receiver counts     *)
(* only if it comes first.  A missing object is no error here.               *)
KnownButOwn(o) == DOMAIN cpl[o] \* for the mutants
Known(o) == {Home[o]} \cup DOMAIN cpl[o]
Lists(p) == {c \in Coupled(p, cpl) \X Obj : gid[c[1]] = gid[c[2]] /\ p \in DOMAIN cpl[c[2]]}
Cons2CheckGlobalCpl(p, meFirst) ==
    Cardinality(UNION {{<<c, q>> : q \in DOMAIN cpl[c[1]] \ Known(c[2])} : c \in Lists(p)})
    + Cardinality({c \in Lists(p) \cap meFirst : prio[c[1]] # cpl[c[2]][p]})

(* DDD_CheckInterface: as many partners tell of a list as there are lists    *)
(* for partners, and the lists have the same lengths.                        *)
CheckInterface(p, items) ==    \* items[q][r]: length of q's list for r
    LET partners(q) == DOMAIN items[q]
    IN (IF Cardinality({q \in Proc : p \in partners(q)}) # Cardinality(partners(p)) THEN 1 ELSE 0)
       + Cardinality({q \in partners(p) : p \in partners(q) /\ items[p][q] # items[q][p]})

CheckInterfaces(p) ==
    CheckInterface(p, [q \in Proc |-> [r \in DOMAIN std[q] |-> Len(std[q][r])]])
    + CheckInterface(p, [q \in Proc |-> [r \in DOMAIN heads[q] |->
                            Cardinality(UNION {ToSet(heads[q][r][d]) : d \in Directions})]])

(* DDD_ConsCheck: the sum of all processors.  The result of the first check  *)
(* of couplings is overwritten by that of the second.                        *)
ErrorsOf(p, meFirst) == ConsCheckDoubleObj(p) + Cons2CheckGlobalCpl(p, meFirst) + CheckInterfaces(p)
DDD_ConsCheck(meFirst) == MapThenSumSet(LAMBDA p : ErrorsOf(p, meFirst), Proc)
===============================================================================
