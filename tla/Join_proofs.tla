----------------------------- MODULE Join_proofs ------------------------------
(* What every processor knows in every phase of the join environment, in     *)
(* transfers that delete copies and between them, for any number of          *)
(* processors, objects, joins and environments.                              *)
EXTENDS Join, FiniteSetTheorems, WellFoundedInduction, TLAPS

-------------------------------------------------------------------------------
(* The stages of a run.                                                      *)

Joins3 == {"phase1", "phase2", "phase3"}
JoinEnvs == {"joinCmds"} \cup Joins3
PrioEnvs == {"prioCmds", "prioExchange"}
Envs == {"idle", "xfer"} \cup JoinEnvs \cup PrioEnvs

(* p is through the first k environments. *)
Passed(p, k) == round[p] > k \/ (round[p] = k /\ env[p] = "idle")

StageInv ==
    /\ program \in Seq({"join", "prio", "xfer"})
    /\ env \in [Proc -> Envs] /\ round \in [Proc -> 0 .. Len(program)]
    /\ \A p \in Proc :
        /\ env[p] # "idle" => round[p] > 0
        /\ env[p] \in JoinEnvs => program[round[p]] = "join"
        /\ env[p] \in PrioEnvs => program[round[p]] = "prio"
        /\ env[p] = "xfer" => program[round[p]] = "xfer"

(* How far q is if p is as far as that. *)
Barrier(p, q) ==
    /\ \A k \in 1 .. Len(program) : Passed(p, k) =>
        /\ program[k] \in {"join", "xfer"} => round[q] >= k
        /\ program[k] = "join" /\ round[q] = k => env[q] \in {"phase3", "idle"}
    /\ env[p] = "phase3" =>
        round[q] >= round[p] /\ (round[q] = round[p] => env[q] \in {"phase2", "phase3", "idle"})
    /\ env[p] = "phase2" =>
        round[q] >= round[p] /\ (round[q] = round[p] => env[q] \in Joins3)
Barriers == \A p, q \in Proc : Barrier(p, q)

-------------------------------------------------------------------------------
(* Objects and couplings.                                                    *)

DataInv ==
    /\ gid \in [Obj -> Nat]
    /\ cpl = [o \in Obj |-> [q \in DOMAIN cpl[o] |-> cpl[o][q]]]
    /\ \A o \in Obj : gid[o] = NoGid => cpl[o] = NoCouplings
    /\ deleted \in [Proc -> SUBSET (Nat \X Nat)]
    /\ \A p \in Proc : \A d \in deleted[p] :
        /\ d[1] \in 1 .. round[p] /\ program[d[1]] = "xfer"
        /\ env[p] = "xfer" /\ d[1] = round[p] => Copy(p, d[2]) # {}

(* What p has deleted it does not get back before all others know. *)
GoneInv == \A p, q \in Proc : \A d \in deleted[p] :
    Passed(p, d[1]) /\ ~Passed(q, d[1]) => Copy(p, d[2]) = {}

OneCopy == \A o1, o2 \in Obj :
    Home[o1] = Home[o2] /\ gid[o1] = gid[o2] /\ gid[o1] # NoGid => o1 = o2

JoinTypeInv ==
    /\ joins \in [Proc -> SUBSET [obj : Joining, dest : Proc, gid : Nat \ {0}]]
    /\ \A p \in Proc : joins[p] # {} => env[p] \in JoinEnvs /\ \A q \in Proc : round[q] >= round[p]
    /\ \A p \in Proc : \A j \in joins[p] :
        /\ Home[j.obj] = p /\ j.dest # p /\ cpl[j.obj] = NoCouplings
        /\ \A i \in joins[p] : i.obj = j.obj \/ i.gid = j.gid => i = j
        /\ IF env[p] = "joinCmds" THEN gid[j.obj] # NoGid /\ Copy(p, j.gid) = {}
                                  ELSE gid[j.obj] = j.gid
        /\ \E x \in Copy(j.dest, j.gid) : cpl[x] # NoCouplings

(* Each target is asked for an object once. *)
Unshared == \A p, q \in Proc : \A i \in joins[p], j \in joins[q] :
    i.dest = j.dest /\ i.gid = j.gid => p = q /\ i = j

(* o has been given the global id it is to join. *)
Joiner(o) == env[Home[o]] \in Joins3 /\ \E j \in joins[Home[o]] : j.obj = o

(* Processor p has been told of copy x if that is a joining one. *)
Introduced(x, p) ==
    \/ ~Joiner(x)
    \/ env[p] = "phase3"
    \/ Passed(p, round[Home[x]])
    \/ env[p] = "phase2" /\ \E j \in joins[Home[x]] : j.obj = x /\ j.dest = p

(* x is being deleted, and p has finished that transfer already. *)
Going(x, p) == env[Home[x]] = "xfer" /\ Deletes(Home[x], Home[x], x) /\ Passed(p, round[Home[x]])

(* The couplings an object has to have, in any state. *)
Knows(o, q) ==
    /\ q # Home[o] /\ ~Joiner(o)
    /\ \/ \E x \in Copy(q, gid[o]) : Introduced(x, Home[o]) /\ ~Going(x, Home[o])
       \/ env[Home[o]] = "xfer" /\ Deletes(q, Home[o], o)
KnownInv == \A o \in Obj : gid[o] # NoGid => DOMAIN cpl[o] = {q \in Proc : Knows(o, q)}

-------------------------------------------------------------------------------
(* Messages: an item of global id g (and about processor r) from d to p.     *)

Item1(d, p, g) == \E m \in net : m.phase = "phase1" /\ m.from = d /\ m.to = p /\ \E i \in m.items : i.gid = g
ItemOf(x, d, p, g, r) ==
    \E m \in net : m.phase = x /\ m.from = d /\ m.to = p /\ \E i \in m.items : i.gid = g /\ i.proc = r
(* q joins the object of id g at d. *)
JoinsAt(q, d, g) == \E j \in joins[q] : j.dest = d /\ j.gid = g
(* r owned the object of id g before the join. *)
Owner(r, g) == \E y \in Copy(r, g) : cpl[y] # NoCouplings

Net1 ==
    /\ \A m \in net : m.phase = "phase1" =>
        /\ env[m.from] \in {"phase1", "phase2"} /\ env[m.to] \in {"joinCmds", "phase1"}
        /\ round[m.to] = round[m.from]
        /\ m.items # {} /\ \A i \in m.items : JoinsAt(m.from, m.to, i.gid)
    /\ \A q, d \in Proc : \A g \in Nat :
        JoinsAt(q, d, g) /\ env[q] \in Joins3 /\ env[d] \in {"joinCmds", "phase1"} /\ round[d] = round[q]
        => Item1(q, d, g)

Net2 ==
    /\ \A m \in net : m.phase = "phase2" =>
        /\ env[m.from] \in {"phase2", "phase3"} /\ env[m.to] \in {"phase1", "phase2"}
        /\ round[m.to] = round[m.from] /\ m.items # {} /\ m.from # m.to
        /\ \A i \in m.items : i.proc \in Proc /\ JoinsAt(i.proc, m.from, i.gid) /\ Owner(m.to, i.gid)
    /\ \A q, d, p \in Proc : \A g \in Nat :
        JoinsAt(q, d, g) /\ env[d] \in {"phase2", "phase3"} /\ env[p] \in {"phase1", "phase2"}
        /\ round[p] = round[q] /\ p # d /\ Owner(p, g) => ItemOf("phase2", d, p, g, q)

Told3(d) ==
    /\ \A i \in addCpl3[d] : i.proc \in Proc /\ i.dest \in Proc /\ JoinsAt(i.dest, d, i.gid) /\ Owner(i.proc, i.gid)
    /\ \A q, r \in Proc : \A g \in Nat : JoinsAt(q, d, g) /\ Owner(r, g) =>
        \E i \in addCpl3[d] : i.dest = q /\ i.gid = g /\ i.proc = r
    /\ \A c \in joinObjs[d] : c[1] \in Obj /\ c[2] \in Proc /\ Home[c[1]] = d /\ JoinsAt(c[2], d, gid[c[1]])
    /\ \A q \in Proc : \A o \in Obj : Home[o] = d /\ JoinsAt(q, d, gid[o]) => <<o, q>> \in joinObjs[d]
Tasks == \A d \in Proc : env[d] = "phase2" => Told3(d)

Net3 ==
    /\ \A m \in net : m.phase = "phase3" =>
        /\ env[m.to] \in {"phase2", "phase3"} /\ m.from \in Proc
        /\ \A i \in m.items : /\ JoinsAt(m.to, m.from, i.gid)
                              /\ i.proc \in Proc \ {m.to} /\ Copy(i.proc, i.gid) # {}
    /\ \A q, d, r \in Proc : \A g \in Nat :
        JoinsAt(q, d, g) /\ (env[d] = "phase3" \/ Passed(d, round[q])) /\ r # q /\ Copy(r, g) # {}
        => ItemOf("phase3", d, q, g, r)

NetInv ==
    /\ DOMAIN addCpl3 = Proc /\ DOMAIN joinObjs = Proc
    /\ \A m \in net : m.from \in Proc /\ m.to \in Proc /\ m.phase \in Joins3
    /\ Net1 /\ Net2 /\ Tasks /\ Net3

ProtocolInv ==
    /\ StageInv /\ Barriers /\ DataInv /\ GoneInv /\ OneCopy /\ JoinTypeInv /\ Unshared /\ KnownInv
    /\ NetInv /\ threw = {}

-------------------------------------------------------------------------------
(* The messages of the priority environment.                                 *)

(* The rounds whose messages q has sent, and p has received. *)
Sent(q) == IF env[q] = "prioCmds" THEN round[q] - 1 ELSE round[q]
Taken(p) == IF env[p] \in PrioEnvs THEN round[p] - 1 ELSE round[p]
Due(q, p) == {k \in Taken(p) + 1 .. Sent(q) : program[k] = "prio"}

(* p and q have copies of an object, and know it. *)
Share(p, q) == \E o, x \in Obj :
    /\ Home[o] = p /\ Home[x] = q /\ gid[o] = gid[x] /\ gid[o] # NoGid
    /\ ~Going(x, p) /\ ~Going(o, q)

(* A processor in the environment has a list for each neighbour (StdInv);    *)
(* between two that share an object the messages sent and not yet taken are  *)
(* those of the rounds in between, and there are none between others         *)
(* (CountInv); and of two that share an object neither is through a round    *)
(* the other has not sent its message of (NotAhead).                         *)
StdInv ==
    /\ DOMAIN std = Proc
    /\ \A p \in Proc : env[p] \in PrioEnvs => DOMAIN std[p] = Neighbours(p, cpl)
CountInv == \A p, q \in Proc : p # q =>
    Len(chan[q][p]) = IF Share(p, q) THEN Cardinality(Due(q, p)) ELSE 0
NotAhead == \A p, q \in Proc : p # q /\ Share(p, q) =>
    \A k \in 1 .. Taken(p) : program[k] = "prio" => k <= Sent(q)
SeqInv == \E S : chan \in [Proc -> [Proc -> Seq(S)]]
ExchangeInv == SeqInv /\ StdInv /\ CountInv /\ NotAhead

-------------------------------------------------------------------------------
(* Stages.                                                                   *)

LEMMA PhaseNumbers ==
    /\ PhaseOf("joinCmds") = 1 /\ PhaseOf("phase1") = 2 /\ PhaseOf("phase2") = 3
    /\ PhaseOf("phase3") = 4 /\ PhaseOf("idle") = 5
  BY DEF PhaseOf, Phases

(* Whoever gets through a collective call of the join is not ahead of those  *)
(* who have not called it.                                                   *)
LEMMA ConnectedStages ==
  ASSUME StageInv, NEW p \in Proc, NEW q \in Proc, NEW x \in Joins3, env[p] = x, Connected(p, x)
  PROVE  /\ round[q] >= round[p]
         /\ round[q] = round[p] =>
              /\ env[q] \in Joins3 \cup {"idle"}
              /\ x \in {"phase2", "phase3"} => env[q] # "phase1"
              /\ x = "phase3" => env[q] # "phase2"
<1>1. round[p] \in Nat /\ round[q] \in Nat
  BY DEF StageInv
<1>2. CASE round[q] > round[p]
  BY <1>1, <1>2
<1>3. CASE round[q] = round[p] /\ PhaseOf(env[q]) >= PhaseOf(x)
  <2>1. program[round[p]] = "join" /\ env[q] \in Envs
    BY DEF StageInv, Joins3, JoinEnvs
  <2>2. env[q] \in JoinEnvs \cup {"idle"}
    BY <1>3, <2>1 DEF StageInv, Envs, PrioEnvs
  <2> QED  BY <1>1, <1>3, <2>2, PhaseNumbers DEF JoinEnvs, Joins3
<1> QED  BY <1>2, <1>3 DEF Connected

LEMMA BeginStages ==
  ASSUME StageInv, Barriers, NEW p \in Proc, NEW x, NEW first, Begin(p, x, first),
         \/ x = "join" /\ first = "joinCmds"
         \/ x = "prio" /\ first = "prioCmds"
         \/ x = "xfer" /\ first = "xfer"
  PROVE  StageInv' /\ Barriers'
<1>1. /\ round[p] \in Nat /\ env[p] = "idle" /\ round[p] < Len(program) /\ Len(program) \in Nat
      /\ program[round[p] + 1] = x /\ program' = program
      /\ round' = [round EXCEPT ![p] = round[p] + 1] /\ env' = [env EXCEPT ![p] = first]
      /\ first \in Envs
  BY DEF StageInv, Begin, Envs, JoinEnvs, PrioEnvs, Joins3
<1>2. StageInv'
  <2>1. env' \in [Proc -> Envs] /\ round' \in [Proc -> 0 .. Len(program')]
    BY <1>1 DEF StageInv
  <2> QED  BY <1>1, <2>1 DEF StageInv, JoinEnvs, PrioEnvs, Joins3
<1>3. \A a \in Proc : /\ round[a] \in Nat /\ (a # p => round'[a] = round[a] /\ env'[a] = env[a])
                      /\ \A k \in 1 .. Len(program) : Passed(a, k)' <=> Passed(a, k)
  BY <1>1 DEF StageInv, Passed, Envs, JoinEnvs, PrioEnvs, Joins3
<1>4. round'[p] = round[p] + 1 /\ env'[p] = first
  BY <1>1 DEF StageInv
<1>5. ASSUME NEW a \in Proc, NEW b \in Proc PROVE Barrier(a, b)'
  <2> USE <1>1, <1>3, <1>4
  <2>1. Barrier(a, b)
    BY DEF Barriers
  <2>2. first \notin {"phase2", "phase3"}
    OBVIOUS
  <2>3. ASSUME NEW k \in 1 .. Len(program), Passed(a, k)
        PROVE  /\ program[k] \in {"join", "xfer"} => round'[b] >= k
               /\ program[k] = "join" /\ round'[b] = k => env'[b] \in {"phase3", "idle"}
    <3>1. CASE b = p
      BY <2>1, <2>3, <3>1 DEF Barrier
    <3>2. CASE b # p
      BY <2>1, <2>3, <3>2 DEF Barrier
    <3> QED  BY <3>1, <3>2
  <2>4. (env[a] = "phase3" =>
          round'[b] >= round[a] /\ (round'[b] = round[a] => env'[b] \in {"phase2", "phase3", "idle"}))
        /\ (env[a] = "phase2" =>
          round'[b] >= round[a] /\ (round'[b] = round[a] => env'[b] \in Joins3))
    <3>1. CASE b = p
      BY <2>1, <3>1 DEF Barrier
    <3>2. CASE b # p
      BY <2>1, <3>2 DEF Barrier
    <3> QED  BY <3>1, <3>2
  <2>5. env'[a] \in {"phase2", "phase3"} => env'[a] = env[a] /\ round'[a] = round[a]
    BY <2>2
  <2> QED  BY <2>3, <2>4, <2>5 DEF Barrier
<1> QED  BY <1>2, <1>5 DEF Barriers

(* The step of p into the next part of its environment, or out of it. *)
Onward(p) ==
    \/ Step(p, "joinCmds", "phase1")
    \/ Step(p, "phase1", "phase2") /\ Connected(p, "phase1")
    \/ Step(p, "phase2", "phase3") /\ Connected(p, "phase2")
    \/ Step(p, "phase3", "idle") /\ Connected(p, "phase3")
    \/ Step(p, "xfer", "idle") /\ \A q \in Proc : round[q] >= round[p]
    \/ Step(p, "prioCmds", "prioExchange")
    \/ Step(p, "prioExchange", "idle")

LEMMA OnwardStages ==
  ASSUME StageInv, Barriers, NEW p \in Proc, Onward(p)
  PROVE  StageInv' /\ Barriers'
<1> USE DEF Joins3, JoinEnvs, PrioEnvs, Envs
<1>1. PICK from \in Envs, to \in Envs :
        /\ Step(p, from, to)
        /\ <<from, to>> \in {<<"joinCmds", "phase1">>, <<"phase1", "phase2">>, <<"phase2", "phase3">>,
              <<"phase3", "idle">>, <<"xfer", "idle">>, <<"prioCmds", "prioExchange">>, <<"prioExchange", "idle">>}
        /\ from \in Joins3 => Connected(p, from)
        /\ from = "xfer" => \A q \in Proc : round[q] >= round[p]
  BY DEF Onward
<1>2. /\ round[p] \in Nat /\ env[p] = from /\ Len(program) \in Nat /\ program' = program
      /\ round' = round /\ env' = [env EXCEPT ![p] = to]
  BY <1>1 DEF StageInv, Step
<1>3. StageInv'
  <2>1. env' \in [Proc -> Envs]
    BY <1>2 DEF StageInv
  <2> QED  BY <1>1, <1>2, <2>1 DEF StageInv
<1>4. \A a \in Proc : round[a] \in Nat /\ (a # p => env'[a] = env[a])
  BY <1>2 DEF StageInv
<1>5. env'[p] = to
  BY <1>2 DEF StageInv
<1>6. \A q \in Proc : from \in Joins3 =>
        /\ round[q] >= round[p]
        /\ round[q] = round[p] => /\ env[q] \in Joins3 \cup {"idle"}
                                  /\ from \in {"phase2", "phase3"} => env[q] # "phase1"
                                  /\ from = "phase3" => env[q] # "phase2"
  BY <1>1, <1>2, ConnectedStages
<1>7. ASSUME NEW a \in Proc, NEW b \in Proc PROVE Barrier(a, b)'
  <2> USE <1>2, <1>4, <1>5
  <2>1. Barrier(a, b) /\ Barrier(b, a)
    BY DEF Barriers
  <2>2. CASE a # p /\ b # p
    BY <2>1, <2>2 DEF Barrier, Passed
  <2>3. CASE a = p /\ b # p
    <3>1. ASSUME NEW k \in 1 .. Len(program), Passed(p, k)', ~Passed(p, k)
          PROVE  /\ program[k] \in {"join", "xfer"} => round[b] >= k
                 /\ program[k] = "join" /\ round[b] = k => env[b] \in {"phase3", "idle"}
      <4>1. k = round[p] /\ to = "idle"
        BY <3>1 DEF Passed
      <4> QED  BY <1>1, <1>6, <4>1 DEF StageInv
    <3>2. ASSUME NEW k \in 1 .. Len(program), Passed(p, k)
          PROVE  /\ program[k] \in {"join", "xfer"} => round[b] >= k
                 /\ program[k] = "join" /\ round[b] = k => env[b] \in {"phase3", "idle"}
      BY <2>1, <2>3, <3>2 DEF Barrier
    <3>3. to = "phase3" =>
            round[b] >= round[p] /\ (round[b] = round[p] => env[b] \in {"phase2", "phase3", "idle"})
      BY <1>1, <1>6
    <3>4. to = "phase2" => round[b] >= round[p] /\ (round[b] = round[p] => env[b] \in Joins3)
      <4>1. ASSUME to = "phase2" PROVE ~(round[b] = round[p] /\ env[b] = "idle")
        <5>1. from = "phase1"
          BY <1>1, <4>1
        <5>2. round[p] \in 1 .. Len(program) /\ program[round[p]] = "join"
          BY <5>1 DEF StageInv
        <5> SUFFICES ASSUME round[b] = round[p], env[b] = "idle" PROVE FALSE
          OBVIOUS
        <5>3. Passed(b, round[p])
          BY DEF Passed
        <5> QED  BY <2>1, <2>3, <5>1, <5>2, <5>3 DEF Barrier
      <4> QED  BY <1>1, <1>6, <4>1
    <3> QED  BY <2>3, <3>1, <3>2, <3>3, <3>4 DEF Barrier
  <2>4. CASE a # p /\ b = p
    <3>1. ASSUME NEW k \in 1 .. Len(program), Passed(a, k)
          PROVE  /\ program[k] \in {"join", "xfer"} => round[p] >= k
                 /\ program[k] = "join" /\ round[p] = k => to \in {"phase3", "idle"}
      BY <1>1, <2>1, <2>4, <3>1 DEF Barrier
    <3>2. env[a] = "phase3" => 
            round[p] >= round[a] /\ (round[p] = round[a] => to \in {"phase2", "phase3", "idle"})
      BY <1>1, <2>1, <2>4 DEF Barrier
    <3>3. env[a] = "phase2" => round[p] >= round[a] /\ (round[p] = round[a] => to \in Joins3)
      <4>1. ASSUME env[a] = "phase2", round[p] = round[a] PROVE to \in Joins3
        <5>1. from \in Joins3
          BY <2>1, <2>4, <4>1 DEF Barrier
        <5>2. from # "phase3"
          BY <1>6, <4>1
        <5> QED  BY <1>1, <5>1, <5>2
      <4> QED  BY <2>1, <2>4, <4>1 DEF Barrier
    <3> QED  BY <2>4, <3>1, <3>2, <3>3 DEF Barrier, Passed
  <2>5. CASE a = p /\ b = p
    <3>1. ASSUME NEW k \in 1 .. Len(program), Passed(p, k)', ~Passed(p, k)
          PROVE  k = round[p] /\ to = "idle"
      BY <3>1 DEF Passed
    <3>2. ASSUME NEW k \in 1 .. Len(program), Passed(p, k)'
          PROVE  program[k] = "join" /\ round[p] = k => to \in {"phase3", "idle"}
      <4>1. CASE Passed(p, k)
        BY <1>1, <2>1, <2>5, <4>1 DEF Barrier
      <4> QED  BY <3>1, <3>2, <4>1
    <3>3. ASSUME NEW k \in 1 .. Len(program), Passed(p, k)' PROVE round[p] >= k
      BY <3>3 DEF Passed
    <3>4. Barrier(p, p)'
      BY <3>2, <3>3 DEF Barrier
    <3> QED  BY <2>5, <3>4
  <2> QED  BY <2>2, <2>3, <2>4, <2>5
<1> QED  BY <1>3, <1>7 DEF Barriers

-------------------------------------------------------------------------------
(* What follows from the invariant.                                          *)

LEMMA CoupledIff ==
  ASSUME DataInv
  PROVE  \A o \in Obj : cpl[o] = NoCouplings <=> DOMAIN cpl[o] = {}
<1> SUFFICES ASSUME NEW o \in Obj PROVE cpl[o] = NoCouplings <=> DOMAIN cpl[o] = {}
  OBVIOUS
<1>1. cpl[o] = [q \in DOMAIN cpl[o] |-> cpl[o][q]]
  BY DEF DataInv
<1>2. DOMAIN NoCouplings = {}
  BY DEF NoCouplings
<1>3. ASSUME DOMAIN cpl[o] = {} PROVE cpl[o] = NoCouplings
  <2>1. cpl[o] = [q \in {} |-> cpl[o][q]]
    BY <1>1, <1>3
  <2>2. NoCouplings = [q \in {} |-> cpl[o][q]]
    BY DEF NoCouplings
  <2> QED  BY <2>1, <2>2
<1> QED  BY <1>2, <1>3

(* Where the others are as long as a processor has something to join. *)
LEMMA JoinersStages ==
  ASSUME StageInv, Barriers, JoinTypeInv, NEW q \in Proc, joins[q] # {}, NEW a \in Proc
  PROVE  /\ env[q] \in JoinEnvs /\ round[q] \in Nat /\ round[a] \in Nat /\ round[a] >= round[q]
         /\ env[q] = "joinCmds" => round[a] = round[q] /\ env[a] \in {"joinCmds", "phase1"}
         /\ env[q] = "phase1" => round[a] = round[q] /\ env[a] \in {"joinCmds", "phase1", "phase2"}
         /\ env[q] = "phase2" => round[a] = round[q] /\ env[a] \in Joins3
         /\ env[q] = "phase3" => \/ round[a] = round[q] /\ env[a] \in {"phase2", "phase3"}
                                 \/ Passed(a, round[q])
         /\ env[q] # "phase3" => ~Passed(a, round[q])
<1> USE DEF Joins3, JoinEnvs
<1>1. env[q] \in JoinEnvs /\ round[a] >= round[q]
  BY DEF JoinTypeInv
<1>2. /\ round[q] \in 1 .. Len(program) /\ round[a] \in Nat /\ program[round[q]] = "join"
      /\ env[a] \in Envs /\ env[q] \in Envs
  BY <1>1 DEF StageInv
<1>3. Barrier(a, q) /\ Barrier(q, a)
  BY DEF Barriers
<1>4. env[q] # "phase3" => ~Passed(a, round[q])
  BY <1>1, <1>2, <1>3 DEF Barrier
<1>5. ~Passed(a, round[q]) => round[a] = round[q] /\ env[a] # "idle"
  BY <1>1, <1>2 DEF Passed
<1>6. round[a] = round[q] => env[a] \in JoinEnvs \cup {"idle"}
  BY <1>2 DEF StageInv, Envs, PrioEnvs
<1>7. round[a] = round[q] /\ env[a] = "phase3" => env[q] \in {"phase2", "phase3", "idle"}
  BY <1>3 DEF Barrier
<1>8. round[a] = round[q] /\ env[a] = "phase2" => env[q] \in Joins3
  BY <1>3 DEF Barrier
<1>9. round[a] = round[q] /\ env[q] = "phase3" => env[a] \in {"phase2", "phase3", "idle"}
  BY <1>3 DEF Barrier
<1>10. round[a] = round[q] /\ env[q] = "phase2" => env[a] \in Joins3
  BY <1>3 DEF Barrier
<1>11. round[a] = round[q] /\ env[a] = "idle" => Passed(a, round[q])
  BY DEF Passed
<1> QED  BY <1>1, <1>2, <1>4, <1>5, <1>6, <1>7, <1>8, <1>9, <1>10, <1>11

-------------------------------------------------------------------------------
(* Steps outside of the join: what they keep of its data, and of its stages. *)

Kept ==
    /\ gid' = gid /\ joins' = joins /\ addCpl3' = addCpl3 /\ joinObjs' = joinObjs
    /\ net' = net /\ threw' = threw
    /\ cpl' = [o \in Obj |-> [q \in DOMAIN cpl'[o] |-> cpl'[o][q]]]
    /\ \A o \in Obj : DOMAIN cpl'[o] = DOMAIN cpl[o]

StagesKept(envs) == \A a \in Proc :
    /\ round'[a] >= round[a]
    /\ env[a] \in envs => env'[a] = env[a] /\ round'[a] = round[a]
    /\ env'[a] \in envs => env'[a] = env[a] \/ (env'[a] = "joinCmds" /\ round'[a] > round[a])
    /\ \A b \in Proc : env[b] \in envs => (Passed(a, round[b])' <=> Passed(a, round[b]))
    /\ \A k \in 1 .. Len(program) : program[k] = "xfer" => (Passed(a, k)' <=> Passed(a, k))

LEMMA KeptCouplings ==
  ASSUME DataInv, Kept
  PROVE  /\ \A o \in Obj : cpl'[o] = NoCouplings <=> cpl[o] = NoCouplings
         /\ \A q \in Proc, g \in Nat : Copy(q, g)' = Copy(q, g) /\ (Owner(q, g)' <=> Owner(q, g))
<1>1. \A o \in Obj : cpl'[o] = NoCouplings <=> cpl[o] = NoCouplings
  <2> SUFFICES ASSUME NEW o \in Obj PROVE cpl'[o] = NoCouplings <=> cpl[o] = NoCouplings
    OBVIOUS
  <2>1. cpl'[o] = [q \in DOMAIN cpl'[o] |-> cpl'[o][q]] /\ DOMAIN cpl'[o] = DOMAIN cpl[o]
    BY DEF Kept
  <2>2. DOMAIN cpl'[o] = {} => cpl'[o] = NoCouplings
    <3> SUFFICES ASSUME DOMAIN cpl'[o] = {} PROVE cpl'[o] = NoCouplings
      OBVIOUS
    <3>1. cpl'[o] = [q \in {} |-> cpl'[o][q]]
      BY <2>1
    <3>2. NoCouplings = [q \in {} |-> cpl'[o][q]]
      BY DEF NoCouplings
    <3> QED  BY <3>1, <3>2
  <2>3. DOMAIN NoCouplings = {}
    BY DEF NoCouplings
  <2> QED  BY <2>1, <2>2, <2>3, CoupledIff
<1>2. \A q \in Proc, g \in Nat : Copy(q, g)' = Copy(q, g)
  BY DEF Kept, Copy, Copies
<1>3. \A q \in Proc, g \in Nat : Copy(q, g) \subseteq Obj
  BY DEF Copy, Copies
<1> QED  BY <1>1, <1>2, <1>3 DEF Owner

LEMMA KeptJoins ==
  ASSUME ProtocolInv, StageInv', Barriers', Kept, StagesKept(JoinEnvs)
  PROVE  OneCopy' /\ JoinTypeInv' /\ Unshared' /\ NetInv' /\ threw' = {}
<1> USE DEF Joins3, JoinEnvs
<1>1. /\ StageInv /\ Barriers /\ DataInv /\ OneCopy /\ JoinTypeInv /\ Unshared /\ KnownInv /\ NetInv
      /\ threw = {}
  BY DEF ProtocolInv
<1>2. /\ gid' = gid /\ joins' = joins /\ addCpl3' = addCpl3 /\ joinObjs' = joinObjs
      /\ net' = net /\ threw' = threw
  BY DEF Kept
<1>3. \A o \in Obj : cpl'[o] = NoCouplings <=> cpl[o] = NoCouplings
  BY <1>1, KeptCouplings
<1>4. \A q \in Proc, g \in Nat : Copy(q, g)' = Copy(q, g) /\ (Owner(q, g)' <=> Owner(q, g))
  BY <1>1, KeptCouplings
<1>5. \A q, d \in Proc : \A g : JoinsAt(q, d, g)' <=> JoinsAt(q, d, g)
  BY <1>2 DEF JoinsAt
<1>6. \A q, d \in Proc : \A g : JoinsAt(q, d, g) => joins[q] # {} /\ g \in Nat \ {0} /\ d \in Proc
  BY <1>1 DEF JoinsAt, JoinTypeInv
<1>7. \A a \in Proc : round[a] \in Nat /\ round'[a] \in Nat
  BY <1>1 DEF StageInv
<1>8. OneCopy'
  BY <1>1, <1>2 DEF OneCopy
<1>9. JoinTypeInv'
  <2>1. ASSUME NEW p \in Proc, joins[p] # {}
        PROVE  env'[p] = env[p] /\ env[p] \in JoinEnvs /\ \A q \in Proc : round'[q] >= round'[p]
    BY <1>1, <1>7, <2>1 DEF JoinTypeInv, StagesKept
  <2>2. ASSUME NEW p \in Proc, NEW j \in joins[p]
        PROVE  /\ Home[j.obj] = p /\ j.dest # p /\ cpl'[j.obj] = NoCouplings
               /\ \A i \in joins[p] : i.obj = j.obj \/ i.gid = j.gid => i = j
               /\ IF env'[p] = "joinCmds" THEN gid[j.obj] # NoGid /\ Copy(p, j.gid)' = {}
                                          ELSE gid[j.obj] = j.gid
               /\ \E x \in Copy(j.dest, j.gid)' : cpl'[x] # NoCouplings
    <3>1. j.obj \in Obj /\ j.dest \in Proc /\ j.gid \in Nat
      BY <1>1, JoinAssumption DEF JoinTypeInv
    <3>2. \A x \in Copy(j.dest, j.gid) : x \in Obj
      BY DEF Copy, Copies
    <3> QED  BY <1>1, <1>3, <1>4, <2>1, <3>1, <3>2 DEF JoinTypeInv
  <2> QED  BY <1>1, <1>2, <2>1, <2>2 DEF JoinTypeInv
<1>10. Unshared'
  BY <1>1, <1>2 DEF Unshared
<1>11. Net1'
  <2>1. ASSUME NEW m \in net, m.phase = "phase1"
        PROVE  /\ env'[m.from] \in {"phase1", "phase2"} /\ env'[m.to] \in {"joinCmds", "phase1"}
               /\ round'[m.to] = round'[m.from]
               /\ m.items # {} /\ \A i \in m.items : JoinsAt(m.from, m.to, i.gid)'
    <3>1. /\ m.from \in Proc /\ m.to \in Proc /\ env[m.from] \in {"phase1", "phase2"}
          /\ env[m.to] \in {"joinCmds", "phase1"} /\ round[m.to] = round[m.from]
          /\ m.items # {} /\ \A i \in m.items : JoinsAt(m.from, m.to, i.gid)
      BY <1>1, <2>1 DEF NetInv, Net1
    <3> QED  BY <1>5, <1>6, <3>1 DEF StagesKept
  <2>2. ASSUME NEW q \in Proc, NEW d \in Proc, NEW g \in Nat, JoinsAt(q, d, g)', env'[q] \in Joins3,
               env'[d] \in {"joinCmds", "phase1"}, round'[d] = round'[q]
        PROVE  Item1(q, d, g)'
    <3>1. JoinsAt(q, d, g) /\ joins[q] # {}
      BY <1>5, <1>6, <2>2
    <3>2. env'[q] = env[q] /\ round'[q] = round[q] /\ round[d] >= round[q]
      BY <1>1, <2>2, <3>1 DEF StagesKept, JoinTypeInv
    <3>3. env'[d] = env[d] /\ round'[d] = round[d]
      BY <1>7, <2>2, <3>2 DEF StagesKept
    <3>4. Item1(q, d, g)
      BY <1>1, <2>2, <3>1, <3>2, <3>3 DEF NetInv, Net1
    <3> QED  BY <1>2, <3>4 DEF Item1
  <2> QED  BY <1>2, <2>1, <2>2 DEF Net1
<1>12. Net2'
  <2>1. ASSUME NEW m \in net, m.phase = "phase2"
        PROVE  /\ env'[m.from] \in {"phase2", "phase3"} /\ env'[m.to] \in {"phase1", "phase2"}
               /\ round'[m.to] = round'[m.from] /\ m.items # {} /\ m.from # m.to
               /\ \A i \in m.items : i.proc \in Proc /\ JoinsAt(i.proc, m.from, i.gid)' /\ Owner(m.to, i.gid)'
    <3>1. /\ m.from \in Proc /\ m.to \in Proc /\ env[m.from] \in {"phase2", "phase3"}
          /\ env[m.to] \in {"phase1", "phase2"} /\ round[m.to] = round[m.from] /\ m.items # {} /\ m.from # m.to
          /\ \A i \in m.items : i.proc \in Proc /\ JoinsAt(i.proc, m.from, i.gid) /\ Owner(m.to, i.gid)
      BY <1>1, <2>1 DEF NetInv, Net2
    <3>2. \A i \in m.items : JoinsAt(i.proc, m.from, i.gid)' /\ Owner(m.to, i.gid)'
      BY <1>4, <1>5, <1>6, <3>1
    <3> QED  BY <3>1, <3>2 DEF StagesKept
  <2>2. ASSUME NEW q \in Proc, NEW d \in Proc, NEW p \in Proc, NEW g \in Nat, JoinsAt(q, d, g)',
               env'[d] \in {"phase2", "phase3"}, env'[p] \in {"phase1", "phase2"},
               round'[p] = round'[q], p # d, Owner(p, g)'
        PROVE  ItemOf("phase2", d, p, g, q)'
    <3>1. JoinsAt(q, d, g) /\ joins[q] # {} /\ Owner(p, g)
      BY <1>4, <1>5, <1>6, <2>2
    <3>2. env'[d] = env[d] /\ env'[p] = env[p] /\ round'[p] = round[p]
      BY <2>2 DEF StagesKept
    <3>3. round'[q] = round[q]
      BY <1>1, <3>1 DEF StagesKept, JoinTypeInv
    <3>4. ItemOf("phase2", d, p, g, q)
      BY <1>1, <2>2, <3>1, <3>2, <3>3 DEF NetInv, Net2
    <3> QED  BY <1>2, <3>4 DEF ItemOf
  <2> QED  BY <1>2, <2>1, <2>2 DEF Net2
<1>13. Tasks'
  <2> SUFFICES ASSUME NEW d \in Proc, env'[d] = "phase2" PROVE Told3(d)'
    BY DEF Tasks
  <2>1. Told3(d)
    BY <1>1 DEF NetInv, Tasks, StagesKept
  <2>2. \A i \in addCpl3[d] : JoinsAt(i.dest, d, i.gid)' /\ Owner(i.proc, i.gid)'
    BY <1>4, <1>5, <1>6, <2>1 DEF Told3
  <2>3. \A q, r \in Proc : \A g \in Nat : JoinsAt(q, d, g)' /\ Owner(r, g)' =>
          \E i \in addCpl3[d] : i.dest = q /\ i.gid = g /\ i.proc = r
    BY <1>4, <1>5, <2>1 DEF Told3
  <2>4. \A c \in joinObjs[d] : JoinsAt(c[2], d, gid[c[1]])'
    BY <1>2, <2>1 DEF Told3, JoinsAt
  <2>5. \A q \in Proc : \A o \in Obj : Home[o] = d /\ JoinsAt(q, d, gid[o])' => <<o, q>> \in joinObjs[d]
    <3>1. \A o \in Obj : gid[o] \in Nat
      BY <1>1 DEF DataInv
    <3> QED  BY <1>2, <2>1, <3>1 DEF Told3, JoinsAt
  <2> QED  BY <1>2, <2>1, <2>2, <2>3, <2>4, <2>5 DEF Told3
<1>14. Net3'
  <2>1. ASSUME NEW m \in net, m.phase = "phase3"
        PROVE  /\ env'[m.to] \in {"phase2", "phase3"} /\ m.from \in Proc
               /\ \A i \in m.items : /\ JoinsAt(m.to, m.from, i.gid)'
                                     /\ i.proc \in Proc \ {m.to} /\ Copy(i.proc, i.gid)' # {}
    <3>1. /\ m.from \in Proc /\ m.to \in Proc /\ env[m.to] \in {"phase2", "phase3"}
          /\ \A i \in m.items : /\ JoinsAt(m.to, m.from, i.gid)
                                /\ i.proc \in Proc \ {m.to} /\ Copy(i.proc, i.gid) # {}
      BY <1>1, <2>1 DEF NetInv, Net3
    <3>2. \A i \in m.items : JoinsAt(m.to, m.from, i.gid)' /\ Copy(i.proc, i.gid)' # {}
      BY <1>4, <1>5, <1>6, <3>1
    <3> QED  BY <3>1, <3>2 DEF StagesKept
  <2>2. ASSUME NEW q \in Proc, NEW d \in Proc, NEW r \in Proc, NEW g \in Nat, JoinsAt(q, d, g)',
               env'[d] = "phase3" \/ Passed(d, round[q])', r # q, Copy(r, g)' # {}
        PROVE  ItemOf("phase3", d, q, g, r)'
    <3>1. JoinsAt(q, d, g) /\ joins[q] # {} /\ Copy(r, g) # {}
      BY <1>4, <1>5, <1>6, <2>2
    <3>2. env[q] \in JoinEnvs
      BY <1>1, <3>1 DEF JoinTypeInv
    <3>3. env[d] = "phase3" \/ Passed(d, round[q])
      BY <2>2, <3>2 DEF StagesKept
    <3>4. ItemOf("phase3", d, q, g, r)
      BY <1>1, <2>2, <3>1, <3>3 DEF NetInv, Net3
    <3> QED  BY <1>2, <3>4 DEF ItemOf
  <2> QED  BY <1>2, <2>1, <2>2 DEF Net3
<1>15. NetInv'
  BY <1>1, <1>2, <1>11, <1>12, <1>13, <1>14 DEF NetInv
<1> QED  BY <1>1, <1>2, <1>8, <1>9, <1>10, <1>15

LEMMA KeptKnown ==
  ASSUME ProtocolInv, StageInv', Kept, StagesKept(JoinEnvs \cup {"xfer"}), deleted' = deleted, program' = program
  PROVE  DataInv' /\ KnownInv'
<1> USE DEF Joins3, JoinEnvs
<1>1. StageInv /\ DataInv /\ KnownInv
  BY DEF ProtocolInv
<1>2. gid' = gid /\ joins' = joins /\ \A o \in Obj : DOMAIN cpl'[o] = DOMAIN cpl[o]
  BY DEF Kept
<1>3. \A q \in Proc, g \in Nat : Copy(q, g)' = Copy(q, g)
  BY <1>1, KeptCouplings
<1>4. \A a \in Proc : round[a] \in Nat /\ round'[a] \in Nat
  BY <1>1 DEF StageInv
<1>5. DataInv'
  <2>1. \A o \in Obj : cpl'[o] = NoCouplings <=> cpl[o] = NoCouplings
    BY <1>1, KeptCouplings
  <2>2. ASSUME NEW p \in Proc, NEW d \in deleted[p]
        PROVE  /\ d[1] \in 1 .. round'[p] /\ program[d[1]] = "xfer"
               /\ env'[p] = "xfer" /\ d[1] = round'[p] => Copy(p, d[2])' # {}
    <3>1. /\ d[1] \in 1 .. round[p] /\ program[d[1]] = "xfer" /\ d[2] \in Nat
          /\ env[p] = "xfer" /\ d[1] = round[p] => Copy(p, d[2]) # {}
      BY <1>1, <2>2 DEF DataInv
    <3>2. round'[p] >= round[p]
      BY DEF StagesKept
    <3>3. env'[p] = "xfer" => env[p] = "xfer" /\ round'[p] = round[p]
      BY DEF StagesKept
    <3> QED  BY <1>3, <1>4, <3>1, <3>2, <3>3
  <2> QED  BY <1>1, <1>2, <2>1, <2>2 DEF DataInv, Kept
<1>6. ASSUME NEW o \in Obj, NEW q \in Proc PROVE Knows(o, q)' <=> Knows(o, q)
  <2>1. \A x \in Obj : Home[x] \in Proc
    BY InterfacesAssumption
  <2>2. \A x \in Obj : Joiner(x)' <=> Joiner(x)
    BY <1>2, <2>1 DEF Joiner, StagesKept
  <2>3. \A x \in Obj : env[Home[x]] \in JoinEnvs \cup {"xfer"} =>
           round'[Home[x]] = round[Home[x]] /\ env'[Home[x]] = env[Home[x]]
    BY <2>1 DEF StagesKept
  <2>4. \A x \in Obj : env'[Home[x]] \in {"xfer"} \cup Joins3 => env'[Home[x]] = env[Home[x]]
    BY <2>1 DEF StagesKept
  <2>5. \A x \in Obj, p \in Proc : env[Home[x]] \in JoinEnvs \cup {"xfer"} =>
           (Passed(p, round[Home[x]])' <=> Passed(p, round[Home[x]]))
    BY <2>1 DEF StagesKept
  <2>6. \A x \in Obj, p \in Proc : Introduced(x, p)' <=> Introduced(x, p)
    <3> SUFFICES ASSUME NEW x \in Obj, NEW p \in Proc PROVE Introduced(x, p)' <=> Introduced(x, p)
      OBVIOUS
    <3>1. (env'[p] = "phase3" <=> env[p] = "phase3") /\ (env'[p] = "phase2" <=> env[p] = "phase2")
      BY DEF StagesKept
    <3>2. Joiner(x) => env[Home[x]] \in JoinEnvs \cup {"xfer"}
      BY DEF Joiner
    <3> QED  BY <1>2, <2>2, <2>5, <3>1, <3>2 DEF Introduced
  <2>7. \A x \in Obj, p \in Proc : env[Home[x]] = "xfer" => (Deletes(p, Home[x], x)' <=> Deletes(p, Home[x], x))
    BY <1>2, <2>3 DEF Deletes
  <2>8. \A x \in Obj, p \in Proc : Going(x, p)' <=> Going(x, p)
    <3> SUFFICES ASSUME NEW x \in Obj, NEW p \in Proc PROVE Going(x, p)' <=> Going(x, p)
      OBVIOUS
    <3>1. env'[Home[x]] = "xfer" <=> env[Home[x]] = "xfer"
      BY <2>3, <2>4
    <3>2. CASE env[Home[x]] = "xfer"
      BY <2>1, <2>5, <2>7, <3>1, <3>2 DEF Going
    <3> QED  BY <3>1, <3>2 DEF Going
  <2>9. Copy(q, gid[o])' = Copy(q, gid[o]) /\ Copy(q, gid[o]) \subseteq Obj
    BY <1>2 DEF Copy, Copies
  <2>10. env'[Home[o]] = "xfer" <=> env[Home[o]] = "xfer"
    BY <2>3, <2>4
  <2> QED  BY <2>1, <2>2, <2>6, <2>7, <2>8, <2>9, <2>10 DEF Knows
<1>7. KnownInv'
  BY <1>1, <1>2, <1>6 DEF KnownInv
<1> QED  BY <1>5, <1>7

LEMMA KeptGone ==
  ASSUME ProtocolInv, StageInv', Kept, StagesKept({}), NEW p \in Proc, NEW d \in deleted[p], NEW q \in Proc,
         Passed(p, d[1])', ~Passed(q, d[1])'
  PROVE  Copy(p, d[2])' = {}
<1>1. d[1] \in 1 .. Len(program) /\ program[d[1]] = "xfer" /\ d[2] \in Nat
  BY DEF ProtocolInv, DataInv, StageInv
<1>2. Passed(p, d[1]) /\ ~Passed(q, d[1])
  <2>1. \A a \in Proc, k \in 1 .. Len(program) : program[k] = "xfer" => (Passed(a, k)' <=> Passed(a, k))
    BY DEF StagesKept
  <2> QED  BY <1>1, <2>1
<1>3. Copy(p, d[2]) = {}
  BY <1>2 DEF ProtocolInv, GoneInv
<1> QED  BY <1>1, <1>3, KeptCouplings DEF ProtocolInv

LEMMA BeginKeepsStages ==
  ASSUME StageInv, NEW p \in Proc, NEW x, NEW first, Begin(p, x, first),
         \/ x = "join" /\ first = "joinCmds"
         \/ x = "prio" /\ first = "prioCmds"
         \/ x = "xfer" /\ first = "xfer"
  PROVE  StagesKept(JoinEnvs) /\ (first # "xfer" => StagesKept(JoinEnvs \cup {"xfer"}))
<1> USE DEF Joins3, JoinEnvs, PrioEnvs, Envs
<1>1. /\ round[p] \in Nat /\ env[p] = "idle"
      /\ round' = [round EXCEPT ![p] = round[p] + 1] /\ env' = [env EXCEPT ![p] = first]
  BY DEF StageInv, Begin
<1>2. round'[p] = round[p] + 1 /\ env'[p] = first /\ first # "idle"
  BY <1>1 DEF StageInv
<1>3. \A a \in Proc : round[a] \in Nat /\ (a # p => round'[a] = round[a] /\ env'[a] = env[a])
  BY <1>1 DEF StageInv
<1>4. \A a \in Proc, k \in Nat : (round'[a] > k \/ (round'[a] = k /\ env'[a] = "idle")) <=> Passed(a, k)
  BY <1>1, <1>2, <1>3 DEF Passed
<1>5. ASSUME NEW a \in Proc, NEW b \in Proc, env[b] \in JoinEnvs \cup {"xfer"}
      PROVE  Passed(a, round[b])' <=> Passed(a, round[b])
  <2>1. b # p /\ round'[b] = round[b] /\ round[b] \in Nat
    BY <1>1, <1>3, <1>5
  <2> QED  BY <1>4, <2>1 DEF Passed
<1>6. ASSUME NEW a \in Proc
      PROVE  /\ round'[a] >= round[a]
             /\ env[a] \in JoinEnvs \cup {"xfer"} => env'[a] = env[a] /\ round'[a] = round[a]
             /\ env'[a] \in JoinEnvs => env'[a] = env[a] \/ (env'[a] = "joinCmds" /\ round'[a] > round[a])
             /\ first # "xfer" /\ env'[a] = "xfer" => env'[a] = env[a]
  <2>1. CASE a = p
    BY <1>1, <1>2, <2>1
  <2>2. CASE a # p
    BY <1>3, <2>2
  <2> QED  BY <2>1, <2>2
<1>7. \A a \in Proc : \A k \in 1 .. Len(program) : Passed(a, k)' <=> Passed(a, k)
  <2>1. Len(program) \in Nat
    BY DEF StageInv
  <2> QED  BY <1>4, <2>1 DEF Passed
<1> QED  BY <1>5, <1>6, <1>7 DEF StagesKept

LEMMA PrioStepKeepsStages ==
  ASSUME StageInv, NEW p \in Proc,
         Step(p, "prioCmds", "prioExchange") \/ Step(p, "prioExchange", "idle")
  PROVE  StagesKept(JoinEnvs \cup {"xfer"})
<1> USE DEF Joins3, JoinEnvs, PrioEnvs, Envs
<1>1. PICK to \in {"prioExchange", "idle"} :
        /\ round' = round /\ env' = [env EXCEPT ![p] = to] /\ env[p] \in PrioEnvs
  BY DEF Step
<1>2. env'[p] = to /\ program[round[p]] = "prio" /\ \A a \in Proc : a # p => env'[a] = env[a]
  BY <1>1 DEF StageInv
<1>3. \A a \in Proc : round[a] \in Nat
  BY DEF StageInv
<1>4. ASSUME NEW a \in Proc, NEW b \in Proc, env[b] \in JoinEnvs \cup {"xfer"}
      PROVE  Passed(a, round[b])' <=> Passed(a, round[b])
  <2>1. program[round[b]] # "prio"
    BY <1>4 DEF StageInv
  <2>2. a = p => round[a] # round[b]
    BY <1>2, <2>1
  <2> QED  BY <1>1, <1>2, <2>2 DEF Passed
<1>5. ASSUME NEW a \in Proc
      PROVE  /\ round'[a] >= round[a]
             /\ env[a] \in JoinEnvs \cup {"xfer"} => env'[a] = env[a]
             /\ env'[a] \in JoinEnvs \cup {"xfer"} => env'[a] = env[a]
  <2>1. CASE a = p
    BY <1>1, <1>2, <1>3, <2>1
  <2>2. CASE a # p
    BY <1>1, <1>2, <1>3, <2>2
  <2> QED  BY <2>1, <2>2
<1>6. ASSUME NEW a \in Proc, NEW k \in 1 .. Len(program), program[k] = "xfer"
      PROVE  Passed(a, k)' <=> Passed(a, k)
  <2>1. a = p => round[a] # k
    BY <1>2, <1>6
  <2> QED  BY <1>1, <1>2, <2>1 DEF Passed
<1> QED  BY <1>1, <1>4, <1>5, <1>6 DEF StagesKept

(* The steps of other environments than join and xfer, and those between     *)
(* environments.                                                             *)
Elsewhere ==
    \/ \E p \in Proc : JoinBegin(p)
    \/ \E p \in Proc : (PrioBegin(p) \/ PrioEnd(p) \/ PrioEndReturns(p)) /\ UNCHANGED joinVars
    \/ \E o \in Changing, r \in Prio : PrioChange(o, r) /\ UNCHANGED joinVars
    \/ \E o \in Moving : Move(o) /\ UNCHANGED joinVars
    \/ \E p \in Proc : UseInterfaces(p) /\ UNCHANGED joinVars
    \/ UNCHANGED vars

LEMMA ElsewhereStep ==
  ASSUME StageInv, DataInv, Elsewhere
  PROVE  Kept /\ deleted' = deleted /\ program' = program
         /\ \/ UNCHANGED <<env, round>>
            \/ \E p \in Proc : \/ Begin(p, "join", "joinCmds") \/ Begin(p, "prio", "prioCmds")
                               \/ Step(p, "prioCmds", "prioExchange") \/ Step(p, "prioExchange", "idle")
<1>1. ASSUME cpl' = cpl, gid' = gid, UNCHANGED joinVars PROVE Kept
  BY <1>1 DEF DataInv, Kept, joinVars
<1>2. CASE \E p \in Proc : JoinBegin(p)
  BY <1>1, <1>2 DEF JoinBegin, Begin, joinVars
<1>3. CASE \E p \in Proc : (PrioBegin(p) \/ PrioEnd(p)) /\ UNCHANGED joinVars
  BY <1>1, <1>3 DEF PrioBegin, PrioEnd, Begin, Step, joinVars
<1>4. CASE \E p \in Proc : PrioEndReturns(p) /\ UNCHANGED joinVars
  <2>1. PICK p \in Proc : PrioEndReturns(p) /\ UNCHANGED joinVars
    BY <1>4
  <2>2. cpl' = ScatterPrio(p) /\ gid' = gid /\ Step(p, "prioExchange", "idle")
    BY <2>1 DEF PrioEndReturns
  <2>3. \A o \in Obj : DOMAIN cpl'[o] = DOMAIN cpl[o] /\ cpl'[o] = [q \in DOMAIN cpl'[o] |-> cpl'[o][q]]
    <3> SUFFICES ASSUME NEW o \in Obj
                 PROVE  DOMAIN cpl'[o] = DOMAIN cpl[o] /\ cpl'[o] = [q \in DOMAIN cpl'[o] |-> cpl'[o][q]]
      OBVIOUS
    <3>1. CASE Home[o] # p
      <4>1. cpl'[o] = cpl[o]
        BY <2>2, <3>1 DEF ScatterPrio
      <4> QED  BY <4>1 DEF DataInv
    <3>2. CASE Home[o] = p
      BY <2>2, <3>2 DEF ScatterPrio
    <3> QED  BY <3>1, <3>2
  <2>4. cpl' = [o \in Obj |-> cpl'[o]]
    BY <2>2 DEF ScatterPrio
  <2>5. Kept
    BY <2>1, <2>2, <2>3, <2>4 DEF Kept, joinVars
  <2> QED  BY <2>1, <2>2, <2>5 DEF Step, joinVars
<1>5. CASE \/ \E o \in Changing, r \in Prio : PrioChange(o, r) /\ UNCHANGED joinVars
           \/ \E o \in Moving : Move(o) /\ UNCHANGED joinVars
           \/ \E p \in Proc : UseInterfaces(p) /\ UNCHANGED joinVars
           \/ UNCHANGED vars
  BY <1>1, <1>5 DEF PrioChange, Move, HdrConstructorMove, UseInterfaces, IFRefreshAll, IFExecLocal,
                    envVars, joinVars, vars
<1> QED  BY <1>2, <1>3, <1>4, <1>5 DEF Elsewhere

LEMMA ElsewhereInv ==
  ASSUME ProtocolInv, Elsewhere
  PROVE  ProtocolInv'
<1>1. StageInv /\ Barriers /\ DataInv
  BY DEF ProtocolInv
<1>2. Kept /\ deleted' = deleted /\ program' = program
  BY <1>1, ElsewhereStep
<1>3. StageInv' /\ Barriers' /\ StagesKept(JoinEnvs) /\ StagesKept(JoinEnvs \cup {"xfer"})
  <2>1. CASE UNCHANGED <<env, round>>
    <3>1. StageInv' /\ Barriers'
      BY <1>1, <1>2, <2>1 DEF StageInv, Barriers, Barrier, Passed
    <3>2. \A a \in Proc : round[a] >= round[a]
      BY <1>1 DEF StageInv
    <3> QED  BY <2>1, <3>1, <3>2 DEF StagesKept, Passed
  <2>2. CASE \E p \in Proc : Begin(p, "join", "joinCmds") \/ Begin(p, "prio", "prioCmds")
    BY <1>1, <2>2, BeginStages, BeginKeepsStages
  <2>3. CASE \E p \in Proc : Step(p, "prioCmds", "prioExchange") \/ Step(p, "prioExchange", "idle")
    <3>1. StageInv' /\ Barriers' /\ StagesKept(JoinEnvs \cup {"xfer"})
      BY <1>1, <2>3, OnwardStages, PrioStepKeepsStages DEF Onward
    <3> QED  BY <3>1 DEF StagesKept
  <2> QED  BY <1>1, <2>1, <2>2, <2>3, ElsewhereStep
<1>4. DataInv' /\ KnownInv' /\ GoneInv'
  <2>1. DataInv' /\ KnownInv' /\ StagesKept({})
    BY <1>2, <1>3, KeptKnown DEF StagesKept
  <2> QED  BY <1>2, <1>3, <2>1, KeptGone DEF GoneInv
<1>5. OneCopy' /\ JoinTypeInv' /\ Unshared' /\ NetInv' /\ threw' = {}
  BY <1>2, <1>3, KeptJoins
<1> QED  BY <1>3, <1>4, <1>5 DEF ProtocolInv

-------------------------------------------------------------------------------
(* Transfers that delete copies.                                             *)

LEMMA XferEndInv ==
  ASSUME ProtocolInv, NEW p \in Proc, NEW gids \in SUBSET {gid[o] : o \in Deletable \cap Copies(p)},
         XferEnd(p, gids)
  PROVE  ProtocolInv'
<1> USE DEF Joins3, JoinEnvs, PrioEnvs, Envs
<1>1. StageInv /\ Barriers /\ DataInv /\ OneCopy /\ JoinTypeInv /\ KnownInv
  BY DEF ProtocolInv
<1> DEFINE r == round[p] + 1
<1>2. /\ Begin(p, "xfer", "xfer") /\ gid' = gid /\ cpl' = cpl /\ joins' = joins /\ program' = program
      /\ deleted' = [deleted EXCEPT ![p] = @ \cup ({round'[p]} \X gids)]
  BY DEF XferEnd, Begin
<1>3. Kept
  BY <1>1, <1>2 DEF XferEnd, DataInv, Kept
<1>4. StageInv' /\ Barriers' /\ StagesKept(JoinEnvs)
  BY <1>1, <1>2, BeginStages, BeginKeepsStages
<1>5. OneCopy' /\ JoinTypeInv' /\ Unshared' /\ NetInv' /\ threw' = {}
  BY <1>3, <1>4, KeptJoins
<1>6. /\ round[p] \in Nat /\ env[p] = "idle" /\ program[r] = "xfer" /\ r \in 1 .. Len(program)
      /\ round'[p] = r /\ env'[p] = "xfer"
      /\ \A a \in Proc : round[a] \in Nat /\ (a # p => round'[a] = round[a] /\ env'[a] = env[a])
  BY <1>1, <1>2 DEF Begin, StageInv
<1>7. /\ deleted'[p] = deleted[p] \cup ({r} \X gids)
      /\ \A a \in Proc : a # p => deleted'[a] = deleted[a]
      /\ deleted' = [a \in Proc |-> IF a = p THEN deleted[p] \cup ({r} \X gids) ELSE deleted[a]]
  BY <1>1, <1>2, <1>6 DEF DataInv
<1>8. \A g \in gids : g \in Nat /\ g # NoGid /\ \E x \in Obj : Home[x] = p /\ x \in Copy(p, g)
  BY <1>1 DEF DataInv, Copy, Copies
<1> HIDE DEF r
<1>9. \A a \in Proc : ~Passed(a, r)
  <2> SUFFICES ASSUME NEW a \in Proc, Passed(a, r) PROVE FALSE
    OBVIOUS
  <2>1. Barrier(a, p)
    BY <1>1 DEF Barriers
  <2>2. round[p] >= r
    BY <1>6, <2>1 DEF Barrier
  <2> QED  BY <1>6, <2>2 DEF r
<1>10. \A a \in Proc, k \in Nat : (round'[a] > k \/ (round'[a] = k /\ env'[a] = "idle")) <=> Passed(a, k)
  BY <1>6 DEF Passed, r
<1>11. \A a, b \in Proc : a # p => (Passed(b, round[a])' <=> Passed(b, round[a]))
  BY <1>6, <1>10 DEF Passed
<1>12. \A q, a : Copy(q, a)' = Copy(q, a) /\ Copy(q, a) \subseteq Obj
  BY <1>2 DEF Copy, Copies
<1>13. DataInv'
  <2>1. deleted' \in [Proc -> SUBSET (Nat \X Nat)]
    <3>1. r \in Nat /\ deleted[p] \in SUBSET (Nat \X Nat) /\ gids \subseteq Nat
      BY <1>1, <1>6, <1>8 DEF DataInv
    <3>2. deleted[p] \cup ({r} \X gids) \in SUBSET (Nat \X Nat)
      BY <3>1
    <3>3. \A a \in Proc : deleted[a] \in SUBSET (Nat \X Nat)
      BY <1>1 DEF DataInv
    <3> QED  BY <1>7, <3>2, <3>3
  <2>2. ASSUME NEW a \in Proc, NEW d \in deleted'[a]
        PROVE  /\ d[1] \in 1 .. round'[a] /\ program'[d[1]] = "xfer"
               /\ env'[a] = "xfer" /\ d[1] = round'[a] => Copy(a, d[2])' # {}
    <3>1. CASE d \in deleted[a]
      <4>1. /\ d[1] \in 1 .. round[a] /\ program[d[1]] = "xfer"
            /\ env[a] = "xfer" /\ d[1] = round[a] => Copy(a, d[2]) # {}
        BY <1>1, <3>1 DEF DataInv
      <4> QED  BY <1>2, <1>6, <1>12, <4>1 DEF r
    <3>2. CASE d \notin deleted[a]
      <4>1. a = p /\ d[1] = r /\ d[2] \in gids
        BY <1>7, <2>2, <3>2
      <4>2. Copy(p, d[2]) # {}
        BY <1>8, <4>1
      <4> QED  BY <1>2, <1>6, <1>12, <4>1, <4>2
    <3> QED  BY <3>1, <3>2
  <2> QED  BY <1>1, <1>2, <2>1, <2>2 DEF DataInv
<1>14. ASSUME NEW o \in Obj, NEW q \in Proc PROVE Knows(o, q)' <=> Knows(o, q)
  <2>1. \A x \in Obj : Home[x] \in Proc
    BY InterfacesAssumption
  <2>2. \A x \in Obj : Joiner(x)' <=> Joiner(x)
    BY <1>2, <1>6, <2>1 DEF Joiner
  <2>3. \A x \in Obj, a \in Proc : Introduced(x, a)' <=> Introduced(x, a)
    <3> SUFFICES ASSUME NEW x \in Obj, NEW a \in Proc PROVE Introduced(x, a)' <=> Introduced(x, a)
      OBVIOUS
    <3>1. (env'[a] = "phase3" <=> env[a] = "phase3") /\ (env'[a] = "phase2" <=> env[a] = "phase2")
      BY <1>6
    <3>2. Joiner(x) => Home[x] # p
      BY <1>6 DEF Joiner
    <3> QED  BY <1>2, <1>11, <2>1, <2>2, <3>1, <3>2 DEF Introduced
  <2>4. \A x \in Obj : Home[x] # p => (Deletes(Home[x], Home[x], x)' <=> Deletes(Home[x], Home[x], x))
    BY <1>2, <1>6, <1>7, <2>1 DEF Deletes
  <2>5. \A x \in Obj, a \in Proc : Going(x, a)' <=> Going(x, a)
    <3> SUFFICES ASSUME NEW x \in Obj, NEW a \in Proc PROVE Going(x, a)' <=> Going(x, a)
      OBVIOUS
    <3>1. CASE Home[x] = p
      <4>1. ~(round'[a] > r \/ (round'[a] = r /\ env'[a] = "idle"))
        BY <1>6, <1>9, <1>10
      <4>2. ~Passed(a, round[p])'
        BY <1>6, <4>1 DEF Passed
      <4> QED  BY <1>6, <3>1, <4>2 DEF Going
    <3>2. CASE Home[x] # p
      BY <1>6, <1>11, <2>1, <2>4, <3>2 DEF Going
    <3> QED  BY <3>1, <3>2
  <2> DEFINE Present == \E x \in Copy(q, gid[o]) : Introduced(x, Home[o]) /\ ~Going(x, Home[o])
             Leaving == env[Home[o]] = "xfer" /\ Deletes(q, Home[o], o)
  <2>6. Present' <=> Present
    BY <1>2, <1>12, <2>1, <2>3, <2>5
  <2>7. Leaving => Leaving'
    <3>1. Home[o] # p /\ <<round[Home[o]], gid[o]>> \in deleted[q] => <<round'[Home[o]], gid'[o]>> \in deleted'[q]
      BY <1>2, <1>6, <1>7, <2>1
    <3> QED  BY <1>6, <2>1, <3>1 DEF Deletes
  <2>8. ASSUME Leaving', ~Leaving, q # Home[o] PROVE Present
    <3>1. env[q] # "xfer" => round[q] # r
      BY <1>1, <1>6, <1>9 DEF Passed, StageInv
    <3>2. ASSUME round[q] = r, env[q] = "xfer", NEW x \in Copy(q, gid[o]), ~Passed(Home[o], r) PROVE Present
      <4>1. Home[x] = q /\ x \in Obj
        BY DEF Copy, Copies
      <4> QED  BY <3>2, <4>1 DEF Introduced, Joiner, Going
    <3>3. CASE Home[o] = p
      <4>1. <<r, gid[o]>> \in deleted[q]
        BY <1>2, <1>6, <1>7, <2>8, <3>3 DEF Deletes
      <4>2. r <= round[q] /\ (env[q] = "xfer" /\ r = round[q] => Copy(q, gid[o]) # {})
        BY <1>1, <4>1 DEF DataInv
      <4>3. round[q] = r
        BY <1>6, <1>9, <4>2 DEF Passed
      <4> QED  BY <1>9, <2>1, <3>1, <3>2, <4>2, <4>3
    <3>4. CASE Home[o] # p
      <4>1. q = p /\ round[Home[o]] = r /\ gid[o] \in gids
        BY <1>2, <1>6, <1>7, <2>1, <2>8, <3>4 DEF Deletes
      <4>2. PICK x \in Obj : Home[x] = p /\ x \in Copy(p, gid[o])
        BY <1>8, <4>1
      <4>3. ~Joiner(x) /\ ~Going(x, Home[o])
        BY <1>6, <4>2 DEF Joiner, Going
      <4> QED  BY <4>1, <4>2, <4>3 DEF Introduced
    <3> QED  BY <3>3, <3>4
  <2>9. Knows(o, q) <=> q # Home[o] /\ ~Joiner(o) /\ (Present \/ Leaving)
    BY DEF Knows
  <2>10. Knows(o, q)' <=> q # Home[o] /\ ~Joiner(o)' /\ (Present' \/ Leaving')
    BY DEF Knows
  <2> HIDE DEF Present, Leaving
  <2> QED  BY <2>2, <2>6, <2>7, <2>8, <2>9, <2>10
<1>15. KnownInv'
  BY <1>1, <1>2, <1>14 DEF KnownInv
<1>16. GoneInv'
  <2> SUFFICES ASSUME NEW a \in Proc, NEW q \in Proc, NEW d \in deleted'[a], Passed(a, d[1])', ~Passed(q, d[1])'
               PROVE  Copy(a, d[2])' = {}
    BY DEF GoneInv
  <2>1. CASE d \in deleted[a]
    <3>1. StagesKept({})
      BY <1>4 DEF StagesKept
    <3> QED  BY <1>3, <1>4, <2>1, <3>1, KeptGone
  <2>2. CASE d \notin deleted[a]
    <3>1. d[1] = r /\ a = p
      BY <1>7, <2>2
    <3> QED  BY <1>6, <3>1 DEF Passed
  <2> QED  BY <2>1, <2>2
<1> QED  BY <1>4, <1>5, <1>13, <1>15, <1>16 DEF ProtocolInv

LEMMA XferEndReturnsInv ==
  ASSUME ProtocolInv, NEW p \in Proc, XferEndReturns(p)
  PROVE  ProtocolInv'
<1> USE DEF Joins3, JoinEnvs, PrioEnvs, Envs
<1>1. StageInv /\ Barriers /\ DataInv /\ GoneInv /\ OneCopy /\ JoinTypeInv /\ KnownInv /\ NetInv
  BY DEF ProtocolInv
<1> DEFINE k == round[p]
           Gone(o) == o \in Obj /\ Home[o] = p /\ gid[o] # NoGid /\ <<k, gid[o]>> \in deleted[p]
<1>2. /\ Step(p, "xfer", "idle") /\ \A q \in Proc : round[q] >= k
      /\ joins' = joins /\ addCpl3' = addCpl3 /\ joinObjs' = joinObjs /\ net' = net
      /\ deleted' = deleted /\ threw' = threw
      /\ round' = round /\ program' = program /\ env' = [env EXCEPT ![p] = "idle"]
  BY DEF XferEndReturns, Step
<1>3. \A o \in Obj : Home[o] \in Proc
  BY InterfacesAssumption
<1>4. \A o : o \in Deleted(p) <=> Gone(o)
  BY DEF Deleted, Deletes, Copies
<1>5. /\ gid' = [o \in Obj |-> IF Gone(o) THEN NoGid ELSE gid[o]]
      /\ cpl' = [o \in Obj |-> IF Gone(o) THEN NoCouplings
                               ELSE IF o \in Copies(p) THEN [q \in Keeping(o) |-> cpl[o][q]]
                               ELSE cpl[o]]
  BY <1>4 DEF XferEndReturns
<1>6. /\ env[p] = "xfer" /\ k \in 1 .. Len(program) /\ program[k] = "xfer" /\ env'[p] = "idle"
      /\ \A a \in Proc : round[a] \in Nat /\ (a # p => env'[a] = env[a])
  BY <1>1, <1>2 DEF StageInv, Step
<1> HIDE DEF k
<1>7. k = round[p] /\ k \in Nat
  BY <1>6 DEF k
<1>8. StageInv' /\ Barriers'
  BY <1>1, <1>2, OnwardStages DEF Onward, k
<1>9. \A a \in Proc : \A n \in Nat : a # p => (Passed(a, n)' <=> Passed(a, n))
  BY <1>2, <1>6 DEF Passed
<1>10. /\ \A n \in Nat : (round'[p] > n \/ (round'[p] = n /\ env'[p] = "idle")) <=> n <= k
       /\ \A n \in Nat : Passed(p, n) <=> n < k
  BY <1>2, <1>6, <1>7 DEF Passed
<1>11. \A q \in Proc : joins[q] = {}
  <2> SUFFICES ASSUME NEW q \in Proc, joins[q] # {} PROVE FALSE
    OBVIOUS
  <2>1. env[q] \in JoinEnvs /\ round[p] >= round[q]
    BY <1>1 DEF JoinTypeInv
  <2>2. round[q] = round[p]
    BY <1>2, <1>6, <1>7, <2>1
  <2>3. program[round[q]] = "join"
    BY <1>1, <2>1 DEF StageInv
  <2> QED  BY <1>6, <1>7, <2>2, <2>3
<1>12. \A o \in Obj : ~Joiner(o) /\ ~Joiner(o)'
  BY <1>2, <1>3, <1>11 DEF Joiner
<1>13. \A o \in Obj, a \in Proc : Introduced(o, a) /\ Introduced(o, a)'
  BY <1>12 DEF Introduced
<1>14. \A q \in Proc : \A g : /\ Copy(q, g) \subseteq Obj /\ Copy(q, g)' \subseteq Copy(q, g)
                              /\ q # p => Copy(q, g)' = Copy(q, g)
                              /\ <<k, g>> \in deleted[p] => Copy(p, g)' = {}
                              /\ <<k, g>> \notin deleted[p] => Copy(p, g)' = Copy(p, g)
  BY <1>5 DEF Copy, Copies
<1>15. DataInv'
  <2>1. gid' \in [Obj -> Nat]
    BY <1>1, <1>5 DEF DataInv, NoGid
  <2>2. ASSUME NEW o \in Obj
        PROVE  /\ cpl'[o] = [q \in DOMAIN cpl'[o] |-> cpl'[o][q]]
               /\ gid'[o] = NoGid => cpl'[o] = NoCouplings
    <3>1. CASE Gone(o)
      BY <1>5, <3>1 DEF NoCouplings
    <3>2. CASE ~Gone(o) /\ o \in Copies(p)
      BY <1>5, <3>2 DEF Copies
    <3>3. CASE ~Gone(o) /\ o \notin Copies(p)
      <4>1. cpl'[o] = cpl[o] /\ gid'[o] = gid[o]
        BY <1>5, <3>3
      <4> QED  BY <1>1, <4>1 DEF DataInv
    <3> QED  BY <3>1, <3>2, <3>3
  <2>3. cpl' = [o \in Obj |-> cpl'[o]]
    BY <1>5
  <2>4. ASSUME NEW a \in Proc, NEW d \in deleted[a]
        PROVE  /\ d[1] \in 1 .. round[a] /\ program[d[1]] = "xfer"
               /\ env'[a] = "xfer" /\ d[1] = round[a] => Copy(a, d[2])' # {}
    <3>1. /\ d[1] \in 1 .. round[a] /\ program[d[1]] = "xfer"
          /\ env[a] = "xfer" /\ d[1] = round[a] => Copy(a, d[2]) # {}
      BY <1>1, <2>4 DEF DataInv
    <3> QED  BY <1>6, <1>14, <3>1
  <2> QED  BY <1>1, <1>2, <2>1, <2>2, <2>3, <2>4 DEF DataInv
<1>16. GoneInv'
  <2> SUFFICES ASSUME NEW a \in Proc, NEW q \in Proc, NEW d \in deleted[a], Passed(a, d[1])', ~Passed(q, d[1])'
               PROVE  Copy(a, d[2])' = {}
    BY <1>2 DEF GoneInv
  <2>1. d[1] \in Nat /\ d = <<d[1], d[2]>>
    BY <1>1 DEF DataInv
  <2>2. ~Passed(q, d[1])
    BY <1>2, <1>6, <1>9, <1>10, <2>1 DEF Passed
  <2>3. CASE Passed(a, d[1])
    BY <1>1, <1>14, <2>2, <2>3 DEF GoneInv
  <2>4. CASE ~Passed(a, d[1])
    <3>1. a = p
      BY <1>9, <2>1, <2>4
    <3>2. d[1] = k
      BY <1>7, <1>10, <2>1, <2>4, <3>1 DEF Passed
    <3> QED  BY <1>14, <2>1, <3>1, <3>2
  <2> QED  BY <2>3, <2>4
<1>17. OneCopy'
  BY <1>1, <1>5 DEF OneCopy
<1>18. JoinTypeInv' /\ Unshared'
  BY <1>1, <1>2, <1>11 DEF JoinTypeInv, Unshared
<1>19. \A q, d, g : JoinsAt(q, d, g) => q \notin Proc
  BY <1>11 DEF JoinsAt
<1>20. \A q, d, g : JoinsAt(q, d, g)' => q \notin Proc
  BY <1>2, <1>11 DEF JoinsAt
<1>21. NetInv'
  <2>1. Net1'
    <3>1. \A m \in net : m.phase # "phase1"
      BY <1>1, <1>19 DEF NetInv, Net1
    <3> QED  BY <1>2, <1>20, <3>1 DEF Net1
  <2>2. Net2'
    <3>1. \A m \in net : m.phase # "phase2"
      BY <1>1, <1>19 DEF NetInv, Net2
    <3> QED  BY <1>2, <1>20, <3>1 DEF Net2
  <2>3. Tasks'
    <3> SUFFICES ASSUME NEW d \in Proc, env'[d] = "phase2" PROVE Told3(d)'
      BY DEF Tasks
    <3>1. Told3(d)
      BY <1>1, <1>6 DEF NetInv, Tasks
    <3>2. addCpl3[d] = {} /\ joinObjs[d] = {}
      BY <1>19, <3>1 DEF Told3
    <3> QED  BY <1>2, <1>20, <3>2 DEF Told3
  <2>4. Net3'
    <3>1. \A m \in net : m.phase = "phase3" =>
            env[m.to] \in {"phase2", "phase3"} /\ m.to \in Proc /\ m.from \in Proc /\ m.items = {}
      BY <1>1, <1>19 DEF NetInv, Net3
    <3> QED  BY <1>2, <1>6, <1>20, <3>1 DEF Net3
  <2> QED  BY <1>1, <1>2, <2>1, <2>2, <2>3, <2>4 DEF NetInv
<1>22. ASSUME NEW o \in Obj, gid'[o] # NoGid PROVE DOMAIN cpl'[o] = {q \in Proc : Knows(o, q)'}
  <2>1. PICK g, a : /\ g = gid[o] /\ a = Home[o] /\ a \in Proc /\ g \in Nat
                    /\ ~Gone(o) /\ gid'[o] = g /\ g # NoGid
    <3>1. ~Gone(o) /\ gid'[o] = gid[o] /\ gid[o] # NoGid /\ Home[o] \in Proc /\ gid[o] \in Nat
      BY <1>1, <1>3, <1>5, <1>22 DEF NoGid, DataInv
    <3> QED  BY <3>1
  <2>2. DOMAIN cpl[o] = {q \in Proc : Knows(o, q)}
    BY <1>1, <2>1 DEF KnownInv
  <2>3. \A q \in Proc : Knows(o, q) <=>
          /\ q # a
          /\ \/ \E x \in Copy(q, g) : ~Going(x, a)
             \/ env[a] = "xfer" /\ <<round[a], g>> \in deleted[q]
    BY <1>12, <1>13, <1>14, <2>1 DEF Knows, Deletes
  <2>4. \A q \in Proc : Knows(o, q)' <=>
          /\ q # a
          /\ \/ \E x \in Copy(q, g)' : ~Going(x, a)'
             \/ env'[a] = "xfer" /\ <<round[a], g>> \in deleted[q]
    <3>1. \A q \in Proc : Knows(o, q)' <=>
          /\ q # a
          /\ \/ \E x \in Copy(q, gid[o])' : ~Going(x, a)'
             \/ env'[a] = "xfer" /\ <<round'[a], gid'[o]>> \in deleted'[q]
      BY <1>12, <1>13, <1>14, <2>1 DEF Knows, Deletes
    <3>2. \A q \in Proc : Copy(q, gid[o])' = Copy(q, g)'
      BY <2>1 DEF Copy, Copies
    <3> QED  BY <1>2, <2>1, <3>1, <3>2
  <2>5. \A q \in Proc : \A x \in Copy(q, g) : Home[x] = q /\ gid[x] = g /\ x \in Obj
    BY DEF Copy, Copies
  <2>6. \A q \in Proc : \A x \in Copy(q, g) :
          Going(x, a) <=> env[q] = "xfer" /\ <<round[q], g>> \in deleted[q] /\ Passed(a, round[q])
    BY <2>1, <2>5 DEF Going, Deletes
  <2>7. \A q \in Proc : \A x \in Copy(q, g)' : x \in Copy(q, g) /\ gid'[x] = g
    BY <1>14, <2>1 DEF Copy, Copies
  <2>8. \A q \in Proc : \A x \in Copy(q, g)' :
          Going(x, a)' <=> env'[q] = "xfer" /\ <<round[q], g>> \in deleted[q] /\ Passed(a, round[q])'
    BY <1>2, <2>5, <2>7 DEF Going, Deletes
  <2>9. CASE a = p
    <3>1. DOMAIN cpl'[o] = {q \in DOMAIN cpl[o] : <<k, g>> \notin deleted[q]}
      <4>1. o \in Copies(p)
        BY <1>22, <2>1, <2>9 DEF Copies
      <4>2. cpl'[o] = [q \in Keeping(o) |-> cpl[o][q]]
        BY <1>5, <2>1, <4>1
      <4> QED  BY <1>7, <2>1, <2>9, <4>2 DEF Keeping, Deletes
    <3>2. ASSUME NEW q \in Proc, q # p
          PROVE  Knows(o, q) /\ <<k, g>> \notin deleted[q] <=> Knows(o, q)'
      <4>1. Copy(q, g)' = Copy(q, g) /\ env'[q] = env[q]
        BY <1>6, <1>14, <3>2
      <4>2. \A x \in Copy(q, g) : ~Going(x, p)
        <5>1. ~Passed(p, round[q])
          BY <1>2, <1>6, <1>7, <1>10
        <5> QED  BY <2>6, <2>9, <5>1
      <4>3. Passed(p, round[q])' <=> round[q] <= k
        BY <1>2, <1>6, <1>10 DEF Passed
      <4>4. Passed(a, round[q])' <=> round[q] = k
        <5>1. round[q] <= k <=> round[q] = k
          BY <1>2, <1>6, <1>7
        <5> QED  BY <2>9, <4>3, <5>1
      <4>5. \A x \in Copy(q, g) : Going(x, p)' <=> env[q] = "xfer" /\ <<k, g>> \in deleted[q] /\ round[q] = k
        <5>1. ASSUME NEW x \in Copy(q, g)
              PROVE  Going(x, a)' <=> env[q] = "xfer" /\ <<k, g>> \in deleted[q] /\ round[q] = k
          BY <2>8, <4>1, <4>4, <5>1
        <5> QED  BY <2>9, <5>1
      <4>6. ASSUME <<k, g>> \in deleted[q], ~(env[q] = "xfer" /\ round[q] = k) PROVE Copy(q, g) = {}
        <5>1. Passed(q, k)
          <6>1. round[q] = k => env[q] = "idle"
            BY <1>1, <1>6, <4>6 DEF StageInv
          <6> QED  BY <1>2, <1>6, <1>7, <6>1 DEF Passed
        <5>2. ~Passed(p, k)
          BY <1>7, <1>10
        <5> QED  BY <1>1, <4>6, <5>1, <5>2 DEF GoneInv
      <4>7. Knows(o, q) <=> Copy(q, g) # {} \/ <<k, g>> \in deleted[q]
        BY <1>6, <1>7, <2>3, <2>9, <3>2, <4>2
      <4>8. Knows(o, q)' <=> \E x \in Copy(q, g) : ~Going(x, p)'
        BY <1>6, <2>4, <2>9, <3>2, <4>1
      <4> QED  BY <4>5, <4>6, <4>7, <4>8
    <3>3. ~Knows(o, p) /\ ~Knows(o, p)'
      BY <2>1, <2>9 DEF Knows
    <3> QED  BY <2>2, <3>1, <3>2, <3>3
  <2>10. CASE a # p
    <3>1. cpl'[o] = cpl[o]
      BY <1>5, <2>1, <2>10 DEF Copies
    <3>2. env'[a] = env[a] /\ \A q \in Proc : Passed(a, round[q])' <=> Passed(a, round[q])
      BY <1>2, <1>6, <1>9, <2>1, <2>10 DEF Passed
    <3>3. ASSUME NEW q \in Proc, q # p PROVE Knows(o, q)' <=> Knows(o, q)
      <4>1. Copy(q, g)' = Copy(q, g) /\ env'[q] = env[q]
        BY <1>6, <1>14, <3>3
      <4>2. \A x \in Copy(q, g) : Going(x, a)' <=> Going(x, a)
        BY <2>6, <2>8, <3>2, <4>1
      <4> QED  BY <2>3, <2>4, <3>2, <4>1, <4>2
    <3>4. Knows(o, p)' <=> Knows(o, p)
      <4>1. \A x \in Copy(p, g)' : ~Going(x, a)'
        BY <1>6, <2>8
      <4>2. CASE <<k, g>> \notin deleted[p]
        <5>1. \A x \in Copy(p, g) : ~Going(x, a)
          BY <1>7, <2>6, <4>2
        <5> QED  BY <1>14, <2>3, <2>4, <3>2, <4>1, <4>2, <5>1
      <4>3. CASE <<k, g>> \in deleted[p]
        <5>1. Copy(p, g)' = {}
          BY <1>14, <4>3
        <5>3. ~Passed(a, k) => env[a] = "xfer" /\ round[a] = k
          <6>1. ~Passed(a, k) => round[a] = k /\ env[a] # "idle"
            BY <1>2, <1>6, <1>7, <2>1 DEF Passed
          <6> QED  BY <1>1, <1>6, <2>1, <6>1 DEF StageInv
        <5>4. \A x \in Copy(p, g) : Going(x, a) <=> Passed(a, k)
          BY <1>6, <1>7, <2>6, <4>3
        <5> QED  BY <2>1, <2>3, <2>4, <3>2, <4>3, <5>1, <5>3, <5>4
      <4> QED  BY <4>2, <4>3
    <3> QED  BY <2>2, <3>1, <3>3, <3>4
  <2> QED  BY <2>9, <2>10
<1>23. KnownInv'
  BY <1>22 DEF KnownInv
<1> QED  BY <1>1, <1>2, <1>8, <1>15, <1>16, <1>17, <1>18, <1>21, <1>23 DEF ProtocolInv

-------------------------------------------------------------------------------
(* Preparing a join.                                                         *)

LEMMA JoinObjInv ==
  ASSUME ProtocolInv, ~Shared, NEW p \in Proc, NEW o \in Joining, NEW dest \in Proc, NEW g \in Targets[o],
         Home[o] = p, JoinObj(p, o, dest, g)
  PROVE  ProtocolInv'
<1> USE DEF Joins3, JoinEnvs
<1>1. StageInv /\ Barriers /\ DataInv /\ GoneInv /\ OneCopy /\ JoinTypeInv /\ Unshared /\ KnownInv /\ NetInv
  BY DEF ProtocolInv
<1> DEFINE new == [obj |-> o, dest |-> dest, gid |-> g]
<1>2. /\ env[p] = "joinCmds" /\ gid[o] # NoGid /\ cpl[o] = NoCouplings /\ dest # p
      /\ Copy(dest, g) \cap Coupled(dest, cpl) # {} /\ Copy(p, g) = {}
      /\ \A q \in Proc : round[q] >= round[p]
      /\ \A j \in joins[p] : j.obj # o /\ j.gid # g
      /\ \A q \in Proc : \A j \in joins[q] : ~(j.dest = dest /\ j.gid = g)
      /\ joins' = [joins EXCEPT ![p] = @ \cup {new}]
      /\ UNCHANGED <<gid, cpl, addCpl3, joinObjs, net, deleted, threw, program, round, env>>
  BY DEF JoinObj, envVars
<1>3. /\ joins'[p] = joins[p] \cup {new} /\ \A q \in Proc : q # p => joins'[q] = joins[q]
      /\ joins' \in [Proc -> SUBSET [obj : Joining, dest : Proc, gid : Nat \ {0}]]
      /\ g \in Nat \ {0} /\ o \in Obj
  <2>1. g \in Nat \ {0} /\ o \in Obj
    BY JoinAssumption
  <2>2. new \in [obj : Joining, dest : Proc, gid : Nat \ {0}]
    BY <2>1
  <2> QED  BY <1>1, <1>2, <2>1, <2>2 DEF JoinTypeInv
<1>4. \A d \in Proc : env[d] \notin {"phase2", "phase3"} /\ ~Passed(d, round[p])
  <2> SUFFICES ASSUME NEW d \in Proc, env[d] \in {"phase2", "phase3"} \/ Passed(d, round[p]) PROVE FALSE
    OBVIOUS
  <2>1. Barrier(d, p) /\ round[p] \in 1 .. Len(program) /\ program[round[p]] = "join" /\ round[d] \in Nat
    BY <1>1, <1>2 DEF Barriers, StageInv
  <2>2. round[d] >= round[p]
    BY <1>2
  <2> QED  BY <1>2, <2>1, <2>2 DEF Barrier
<1>5. StageInv' /\ Barriers' /\ DataInv' /\ GoneInv' /\ OneCopy'
  BY <1>1, <1>2 DEF StageInv, Barriers, Barrier, Passed, DataInv, GoneInv, OneCopy, Copy, Copies
<1>6. \A q, h : Copy(q, h)' = Copy(q, h) /\ (Owner(q, h)' <=> Owner(q, h))
  BY <1>2 DEF Copy, Copies, Owner
<1>7. JoinTypeInv'
  <2>1. ASSUME NEW q \in Proc, joins'[q] # {}
        PROVE  env[q] \in JoinEnvs /\ \A a \in Proc : round[a] >= round[q]
    BY <1>1, <1>2, <1>3, <2>1 DEF JoinTypeInv
  <2>2. ASSUME NEW q \in Proc, NEW j \in joins'[q]
        PROVE  /\ Home[j.obj] = q /\ j.dest # q /\ cpl[j.obj] = NoCouplings
               /\ \A i \in joins'[q] : i.obj = j.obj \/ i.gid = j.gid => i = j
               /\ IF env[q] = "joinCmds" THEN gid[j.obj] # NoGid /\ Copy(q, j.gid) = {}
                                         ELSE gid[j.obj] = j.gid
               /\ \E x \in Copy(j.dest, j.gid) : cpl[x] # NoCouplings
    <3>1. CASE j \in joins[q]
      <4>1. q = p => j.obj # o /\ j.gid # g
        BY <1>2, <3>1
      <4>2. \A i \in joins'[q] : i.obj = j.obj \/ i.gid = j.gid => i \in joins[q]
        BY <1>3, <4>1
      <4> QED  BY <1>1, <3>1, <4>2 DEF JoinTypeInv
    <3>2. CASE j \notin joins[q]
      <4>1. q = p /\ j = new
        BY <1>3, <2>2, <3>2
      <4>2. j.obj = o /\ j.dest = dest /\ j.gid = g
        BY <4>1
      <4>3. \A i \in joins'[q] : i.obj = j.obj \/ i.gid = j.gid => i = j
        BY <1>2, <1>3, <4>1
      <4>4. PICK x \in Copy(dest, g) : x \in Coupled(dest, cpl)
        BY <1>2
      <4>5. cpl[x] # NoCouplings
        BY <4>4 DEF Coupled
      <4> QED  BY <1>2, <4>1, <4>2, <4>3, <4>4, <4>5
    <3> QED  BY <3>1, <3>2
  <2> QED  BY <1>2, <1>3, <1>6, <2>1, <2>2 DEF JoinTypeInv
<1>8. Unshared'
  <2> SUFFICES ASSUME NEW a \in Proc, NEW b \in Proc, NEW i \in joins'[a], NEW j \in joins'[b],
                      i.dest = j.dest, i.gid = j.gid
               PROVE  a = b /\ i = j
    BY DEF Unshared
  <2>1. CASE i \in joins[a] /\ j \in joins[b]
    BY <1>1, <2>1 DEF Unshared
  <2>2. CASE i \notin joins[a] \/ j \notin joins[b]
    BY <1>2, <1>3, <2>2
  <2> QED  BY <2>1, <2>2
<1>9. \A q \in Proc : \A d, h : JoinsAt(q, d, h) => JoinsAt(q, d, h)'
  BY <1>3 DEF JoinsAt
<1>10. \A q \in Proc : \A d, h : JoinsAt(q, d, h)' /\ q # p => JoinsAt(q, d, h)
  BY <1>3 DEF JoinsAt
<1>11. KnownInv'
  <2>1. \A x \in Obj : Home[x] \in Proc
    BY InterfacesAssumption
  <2>2. \A x \in Obj : Joiner(x)' <=> Joiner(x)
    BY <1>2, <1>3, <2>1 DEF Joiner
  <2>3. \A x \in Obj, a \in Proc : Introduced(x, a)' <=> Introduced(x, a)
    <3>1. \A x \in Obj : Joiner(x) => Home[x] # p
      BY <1>2 DEF Joiner
    <3> QED  BY <1>2, <1>3, <2>1, <2>2, <3>1 DEF Introduced, Passed
  <2>4. \A x \in Obj, a \in Proc : Going(x, a)' <=> Going(x, a)
    BY <1>2 DEF Going, Deletes, Passed
  <2>5. \A x \in Obj, a \in Proc : Knows(x, a)' <=> Knows(x, a)
    <3> SUFFICES ASSUME NEW x \in Obj, NEW a \in Proc PROVE Knows(x, a)' <=> Knows(x, a)
      OBVIOUS
    <3>1. Copy(a, gid[x])' = Copy(a, gid[x]) /\ Copy(a, gid[x]) \subseteq Obj
      BY <1>2 DEF Copy, Copies
    <3> QED  BY <1>2, <2>1, <2>2, <2>3, <2>4, <3>1 DEF Knows, Deletes
  <2> QED  BY <1>1, <1>2, <2>5 DEF KnownInv
<1>12. Net1'
  <2>1. \A m \in net : m.phase = "phase1" =>
        /\ env[m.from] \in {"phase1", "phase2"} /\ env[m.to] \in {"joinCmds", "phase1"}
        /\ round[m.to] = round[m.from]
        /\ m.items # {} /\ \A i \in m.items : JoinsAt(m.from, m.to, i.gid)'
    BY <1>1, <1>9 DEF NetInv, Net1
  <2>2. ASSUME NEW q \in Proc, NEW d \in Proc, NEW h \in Nat, JoinsAt(q, d, h)', env[q] \in Joins3,
               env[d] \in {"joinCmds", "phase1"}, round[d] = round[q]
        PROVE  Item1(q, d, h)'
    <3>1. JoinsAt(q, d, h)
      BY <1>2, <1>10, <2>2
    <3> QED  BY <1>1, <1>2, <2>2, <3>1 DEF NetInv, Net1, Item1
  <2> QED  BY <1>2, <2>1, <2>2 DEF Net1
<1>13. Net2'
  <2>1. \A m \in net : m.phase = "phase2" => FALSE
    BY <1>1, <1>4 DEF NetInv, Net2
  <2> QED  BY <1>2, <1>4, <2>1 DEF Net2
<1>14. Tasks'
  BY <1>2, <1>4 DEF Tasks
<1>15. Net3'
  <2>1. \A m \in net : m.phase = "phase3" => FALSE
    BY <1>1, <1>4 DEF NetInv, Net3
  <2>2. ASSUME NEW q \in Proc, NEW d \in Proc, NEW h \in Nat, JoinsAt(q, d, h)', Passed(d, round[q])
        PROVE  FALSE
    <3>1. round[p] >= round[q] /\ round[q] >= round[p]
      BY <1>2, <1>7, <2>2 DEF JoinTypeInv, JoinsAt
    <3>2. round[p] = round[q]
      BY <1>1, <3>1 DEF StageInv
    <3> QED  BY <1>4, <2>2, <3>2
  <2> QED  BY <1>2, <1>4, <2>1, <2>2 DEF Net3, Passed
<1>16. NetInv' /\ threw' = {}
  BY <1>1, <1>2, <1>12, <1>13, <1>14, <1>15 DEF NetInv, ProtocolInv
<1> QED  BY <1>5, <1>7, <1>8, <1>11, <1>16 DEF ProtocolInv

LEMMA MsgsFromItems ==
  ASSUME NEW p, NEW x, NEW items
  PROVE  /\ \A m \in MsgsFrom(p, x, items) :
              /\ m.from = p /\ m.phase = x /\ m.items # {}
              /\ \A i : i \in m.items <=> i \in items /\ i.dest = m.to
         /\ \A i \in items : \E m \in MsgsFrom(p, x, items) :
              m.from = p /\ m.phase = x /\ m.to = i.dest /\ i \in m.items
<1> DEFINE To(d) == {i \in items : i.dest = d}
           Msg(d) == [from |-> p, to |-> d, phase |-> x, items |-> To(d)]
<1>1. MsgsFrom(p, x, items) = {Msg(d) : d \in {i.dest : i \in items}}
  BY DEF MsgsFrom
<1>2. \A d : Msg(d).from = p /\ Msg(d).to = d /\ Msg(d).phase = x /\ Msg(d).items = To(d)
  OBVIOUS
<1>3. \A d, i : i \in To(d) <=> i \in items /\ i.dest = d
  OBVIOUS
<1> HIDE DEF To, Msg
<1>4. ASSUME NEW m \in MsgsFrom(p, x, items)
      PROVE  /\ m.from = p /\ m.phase = x /\ m.items # {}
             /\ \A i : i \in m.items <=> i \in items /\ i.dest = m.to
  <2>1. PICK j \in items : m = Msg(j.dest)
    BY <1>1
  <2> QED  BY <1>2, <1>3, <2>1
<1>5. ASSUME NEW i \in items
      PROVE  \E m \in MsgsFrom(p, x, items) : m.from = p /\ m.phase = x /\ m.to = i.dest /\ i \in m.items
  <2>1. Msg(i.dest) \in MsgsFrom(p, x, items)
    BY <1>1
  <2> QED  BY <1>2, <1>3, <2>1
<1> QED  BY <1>4, <1>5

LEMMA JoinEndInv ==
  ASSUME ProtocolInv, NEW p \in Proc, JoinEnd(p)
  PROVE  ProtocolInv'
<1> USE DEF Joins3, JoinEnvs
<1>1. StageInv /\ Barriers /\ DataInv /\ GoneInv /\ OneCopy /\ JoinTypeInv /\ Unshared /\ KnownInv /\ NetInv
  BY DEF ProtocolInv
<1> DEFINE items == {[dest |-> j.dest, gid |-> j.gid, prio |-> prio[j.obj]] : j \in joins[p]}
           msgs == MsgsFrom(p, "phase1", items)
           Joined(x) == \E j \in joins[p] : j.obj = x
<1>2. /\ Step(p, "joinCmds", "phase1")
      /\ gid' = [o \in Obj |-> IF \E j \in joins[p] : j.obj = o
                               THEN (CHOOSE j \in joins[p] : j.obj = o).gid ELSE gid[o]]
      /\ net' = net \cup msgs
      /\ cpl' = cpl /\ joins' = joins /\ addCpl3' = addCpl3 /\ joinObjs' = joinObjs
      /\ deleted' = deleted /\ threw' = threw /\ round' = round /\ program' = program
  BY DEF JoinEnd, Step
<1>3. env[p] = "joinCmds" /\ env'[p] = "phase1" /\ \A a \in Proc : a # p => env'[a] = env[a]
  BY <1>1, <1>2 DEF Step, StageInv
<1>4. StageInv' /\ Barriers'
  BY <1>1, <1>2, OnwardStages DEF Onward
<1>5. \A a \in Proc : round[a] \in Nat /\ \A k : Passed(a, k)' <=> Passed(a, k)
  BY <1>1, <1>2, <1>3 DEF StageInv, Passed
<1>6. \A j \in joins[p] : /\ j.obj \in Obj /\ Home[j.obj] = p /\ j.gid \in Nat /\ j.gid # NoGid /\ j.dest \in Proc
                          /\ j.dest # p /\ cpl[j.obj] = NoCouplings /\ Copy(p, j.gid) = {}
                          /\ \A i \in joins[p] : i.obj = j.obj \/ i.gid = j.gid => i = j
  BY <1>1, <1>3, JoinAssumption DEF JoinTypeInv, NoGid
<1>7. \A j \in joins[p] : gid'[j.obj] = j.gid
  <2> SUFFICES ASSUME NEW j \in joins[p] PROVE gid'[j.obj] = j.gid
    OBVIOUS
  <2>1. (CHOOSE i \in joins[p] : i.obj = j.obj) = j
    BY <1>6
  <2> QED  BY <1>2, <1>6, <2>1
<1>8. \A x \in Obj : ~Joined(x) => gid'[x] = gid[x]
  BY <1>2
<1>9. \A x \in Obj : Joined(x) => Home[x] = p /\ cpl[x] = NoCouplings /\ gid'[x] \in Nat /\ gid'[x] # NoGid
  BY <1>6, <1>7
<1>10. joins[p] # {} => \A d \in Proc : round[d] = round[p] /\ env[d] \in {"joinCmds", "phase1"} /\ ~Passed(d, round[p])
  BY <1>1, <1>3, JoinersStages
<1>11. joins[p] = {} => gid' = gid /\ msgs = {}
  <2>1. gid = [o \in Obj |-> gid[o]]
    BY <1>1 DEF DataInv
  <2> QED  BY <1>2, <2>1 DEF MsgsFrom
<1> HIDE DEF items, msgs, Joined
<1>12. \A q, g : Copy(q, g) \subseteq Obj /\ Copy(q, g)' \subseteq Obj
  BY DEF Copy, Copies
<1>13. \A q, g : q # p => Copy(q, g)' = Copy(q, g)
  <2> SUFFICES ASSUME NEW q, NEW g, q # p PROVE Copy(q, g)' = Copy(q, g)
    OBVIOUS
  <2>1. \A x \in Obj : Home[x] = q => gid'[x] = gid[x]
    BY <1>8, <1>9
  <2> QED  BY <2>1 DEF Copy, Copies
<1>14. \A g : \A x \in Obj : ~Joined(x) => (x \in Copy(p, g)' <=> x \in Copy(p, g))
  BY <1>8 DEF Copy, Copies
<1>15. \A q, g : Owner(q, g)' <=> Owner(q, g)
  <2> SUFFICES ASSUME NEW q, NEW g PROVE Owner(q, g)' <=> Owner(q, g)
    OBVIOUS
  <2>1. CASE q = p
    BY <1>2, <1>9, <1>12, <1>14, <2>1 DEF Owner
  <2>2. CASE q # p
    BY <1>2, <1>13, <2>2 DEF Owner
  <2> QED  BY <2>1, <2>2
<1>16. \A q, d, g : JoinsAt(q, d, g)' <=> JoinsAt(q, d, g)
  BY <1>2 DEF JoinsAt
<1>17. \A q \in Proc : \A d, g : JoinsAt(q, d, g) => joins[q] # {} /\ d \in Proc /\ g \in Nat /\ g # NoGid
  BY <1>1 DEF JoinsAt, JoinTypeInv, NoGid
<1>18. DataInv'
  <2>1. gid' \in [Obj -> Nat]
    BY <1>1, <1>2, <1>8, <1>9 DEF DataInv
  <2>2. \A o \in Obj : gid'[o] = NoGid => cpl'[o] = NoCouplings
    BY <1>1, <1>2, <1>8, <1>9 DEF DataInv
  <2>3. ASSUME NEW a \in Proc, NEW d \in deleted[a]
        PROVE  /\ d[1] \in 1 .. round[a] /\ program[d[1]] = "xfer"
               /\ env'[a] = "xfer" /\ d[1] = round[a] => Copy(a, d[2])' # {}
    BY <1>1, <1>3, <1>13 DEF DataInv
  <2> QED  BY <1>1, <1>2, <2>1, <2>2, <2>3 DEF DataInv
<1>19. GoneInv'
  <2> SUFFICES ASSUME NEW a \in Proc, NEW q \in Proc, NEW d \in deleted[a], Passed(a, d[1])', ~Passed(q, d[1])'
               PROVE  Copy(a, d[2])' = {}
    BY <1>2 DEF GoneInv
  <2>1. Passed(a, d[1]) /\ ~Passed(q, d[1])
    BY <1>5
  <2>2. Copy(a, d[2]) = {}
    BY <1>1, <2>1 DEF GoneInv
  <2>3. CASE a # p
    BY <1>13, <2>2, <2>3
  <2>4. CASE joins[p] = {}
    BY <1>11, <2>2, <2>4 DEF Copy, Copies
  <2>5. CASE a = p /\ joins[p] # {}
    <3>1. round[q] = round[p]
      BY <1>10, <2>5
    <3> QED  BY <1>3, <2>1, <2>5, <3>1 DEF Passed
  <2> QED  BY <2>3, <2>4, <2>5
<1>20. OneCopy'
  <2> SUFFICES ASSUME NEW x \in Obj, NEW y \in Obj, Home[x] = Home[y], gid'[x] = gid'[y], gid'[x] # NoGid
               PROVE  x = y
    BY DEF OneCopy
  <2>1. CASE ~Joined(x) /\ ~Joined(y)
    BY <1>1, <1>8, <2>1 DEF OneCopy
  <2>2. ASSUME NEW z \in Obj, NEW w \in Obj, Joined(z), ~Joined(w), Home[z] = Home[w], gid'[z] = gid'[w],
               gid'[z] # NoGid
        PROVE  FALSE
    <3>1. PICK j \in joins[p] : j.obj = z
      BY <2>2 DEF Joined
    <3>2. Home[w] = p /\ gid[w] = j.gid /\ gid[w] # NoGid
      BY <1>6, <1>7, <1>8, <2>2, <3>1
    <3> QED  BY <1>6, <3>2 DEF Copy, Copies
  <2>3. CASE Joined(x) /\ Joined(y)
    BY <1>6, <1>7, <2>3 DEF Joined
  <2> QED  BY <2>1, <2>2, <2>3
<1>21. JoinTypeInv'
  <2>1. ASSUME NEW q \in Proc, joins[q] # {}
        PROVE  env'[q] \in JoinEnvs /\ \A a \in Proc : round[a] >= round[q]
    BY <1>1, <1>3, <2>1 DEF JoinTypeInv
  <2>2. ASSUME NEW q \in Proc, NEW j \in joins[q]
        PROVE  /\ Home[j.obj] = q /\ j.dest # q /\ cpl[j.obj] = NoCouplings
               /\ \A i \in joins[q] : i.obj = j.obj \/ i.gid = j.gid => i = j
               /\ IF env'[q] = "joinCmds" THEN gid'[j.obj] # NoGid /\ Copy(q, j.gid)' = {}
                                          ELSE gid'[j.obj] = j.gid
               /\ \E x \in Copy(j.dest, j.gid)' : cpl[x] # NoCouplings
    <3>1. /\ Home[j.obj] = q /\ j.dest # q /\ cpl[j.obj] = NoCouplings /\ j.obj \in Obj
          /\ \A i \in joins[q] : i.obj = j.obj \/ i.gid = j.gid => i = j
          /\ IF env[q] = "joinCmds" THEN gid[j.obj] # NoGid /\ Copy(q, j.gid) = {}
                                    ELSE gid[j.obj] = j.gid
          /\ Owner(j.dest, j.gid)
      BY <1>1, JoinAssumption DEF JoinTypeInv, Owner
    <3>2. Owner(j.dest, j.gid)'
      BY <1>15, <3>1
    <3>3. \E x \in Copy(j.dest, j.gid)' : cpl[x] # NoCouplings
      BY <1>2, <3>2 DEF Owner
    <3>4. CASE q = p
      BY <1>3, <1>7, <3>1, <3>3, <3>4
    <3>5. CASE q # p
      <4>1. gid'[j.obj] = gid[j.obj] /\ env'[q] = env[q]
        BY <1>3, <1>8, <1>9, <3>1, <3>5
      <4> QED  BY <1>13, <3>1, <3>3, <3>5, <4>1
    <3> QED  BY <3>4, <3>5
  <2>3. joins' = joins /\ cpl' = cpl /\ round' = round
    BY <1>2
  <2>4. joins \in [Proc -> SUBSET [obj : Joining, dest : Proc, gid : Nat \ {0}]]
    BY <1>1 DEF JoinTypeInv
  <2> QED  BY <2>1, <2>2, <2>3, <2>4 DEF JoinTypeInv
<1>22. Unshared'
  BY <1>1, <1>2 DEF Unshared
<1>23. KnownInv'
  <2>1. \A x \in Obj : Home[x] \in Proc
    BY InterfacesAssumption
  <2>2. \A x \in Obj : Joiner(x)' <=> Joiner(x) \/ Joined(x)
    <3> SUFFICES ASSUME NEW x \in Obj PROVE Joiner(x)' <=> Joiner(x) \/ Joined(x)
      OBVIOUS
    <3>1. CASE Home[x] = p
      BY <1>2, <1>3, <3>1 DEF Joiner, Joined
    <3>2. CASE Home[x] # p
      BY <1>2, <1>3, <1>9, <2>1, <3>2 DEF Joiner
    <3> QED  BY <3>1, <3>2
  <2>3. \A x \in Obj, a \in Proc : ~Joined(x) => (Introduced(x, a)' <=> Introduced(x, a))
    <3> SUFFICES ASSUME NEW x \in Obj, NEW a \in Proc, ~Joined(x) PROVE Introduced(x, a)' <=> Introduced(x, a)
      OBVIOUS
    <3>1. (env'[a] = "phase3" <=> env[a] = "phase3") /\ (env'[a] = "phase2" <=> env[a] = "phase2")
      BY <1>3
    <3> QED  BY <1>2, <1>5, <2>2, <3>1 DEF Introduced
  <2>4. \A x \in Obj : Joined(x) => \A a \in Proc : a # p => ~Introduced(x, a)'
    <3> SUFFICES ASSUME NEW x \in Obj, Joined(x), NEW a \in Proc, a # p PROVE ~Introduced(x, a)'
      OBVIOUS
    <3>1. joins[p] # {} /\ Joiner(x)' /\ Home[x] = p
      BY <1>9, <2>2 DEF Joined
    <3>2. env'[a] \notin {"phase2", "phase3"} /\ ~Passed(a, round[p])'
      BY <1>2, <1>3, <1>10, <3>1 DEF Passed
    <3> QED  BY <1>2, <3>1, <3>2 DEF Introduced
  <2>5. \A x \in Obj, a \in Proc : ~Joined(x) => (Going(x, a)' <=> Going(x, a))
    <3> SUFFICES ASSUME NEW x \in Obj, NEW a \in Proc, ~Joined(x) PROVE Going(x, a)' <=> Going(x, a)
      OBVIOUS
    <3>1. env'[Home[x]] = "xfer" <=> env[Home[x]] = "xfer"
      BY <1>3, <2>1
    <3> QED  BY <1>2, <1>5, <1>8, <3>1 DEF Going, Deletes
  <2>6. \A x \in Obj : Joined(x) => Introduced(x, p) /\ \A a \in Proc : Introduced(x, a) /\ ~Going(x, a)
    BY <1>3, <1>9 DEF Introduced, Joiner, Going
  <2>7. ASSUME NEW o \in Obj, gid'[o] # NoGid PROVE DOMAIN cpl[o] = {q \in Proc : Knows(o, q)'}
    <3>1. CASE Joiner(o)'
      <4>1. \A q \in Proc : ~Knows(o, q)'
        BY <3>1 DEF Knows
      <4>2. DOMAIN cpl[o] = {}
        <5>1. CASE Joined(o)
          BY <1>9, <5>1 DEF NoCouplings
        <5>2. CASE ~Joined(o)
          <6>1. gid[o] # NoGid /\ Joiner(o)
            BY <1>8, <2>2, <2>7, <3>1, <5>2
          <6> QED  BY <1>1, <6>1 DEF KnownInv, Knows
        <5> QED  BY <5>1, <5>2
      <4> QED  BY <4>1, <4>2
    <3>2. CASE ~Joiner(o)'
      <4>1. ~Joined(o) /\ ~Joiner(o) /\ gid'[o] = gid[o] /\ gid[o] # NoGid
        BY <1>8, <2>2, <2>7, <3>2
      <4>2. DOMAIN cpl[o] = {q \in Proc : Knows(o, q)}
        BY <1>1, <4>1 DEF KnownInv
      <4>3. ASSUME NEW q \in Proc, q # Home[o] PROVE Knows(o, q)' <=> Knows(o, q)
        <5>1. PICK g, a : g = gid[o] /\ a = Home[o] /\ a \in Proc
          BY <2>1
        <5>2. env'[a] = "xfer" <=> env[a] = "xfer"
          BY <1>3, <5>1
        <5>3. Knows(o, q) <=> \/ \E x \in Copy(q, g) : Introduced(x, a) /\ ~Going(x, a)
                              \/ env[a] = "xfer" /\ <<round[a], g>> \in deleted[q]
          BY <4>1, <4>3, <5>1 DEF Knows, Deletes
        <5>4. Knows(o, q)' <=> \/ \E x \in Copy(q, g)' : Introduced(x, a)' /\ ~Going(x, a)'
                               \/ env'[a] = "xfer" /\ <<round[a], g>> \in deleted[q]
          <6>1. Copy(q, gid[o])' = Copy(q, g)'
            BY <4>1, <5>1 DEF Copy, Copies
          <6> QED  BY <1>2, <3>2, <4>1, <4>3, <5>1, <6>1 DEF Knows, Deletes
        <5>5. ASSUME NEW x \in Copy(q, g), Introduced(x, a), ~Going(x, a)
              PROVE  x \in Copy(q, g)' /\ Introduced(x, a)' /\ ~Going(x, a)'
          <6>1. x \in Obj /\ Home[x] = q /\ gid[x] = g
            BY DEF Copy, Copies
          <6>2. ASSUME Joined(x) PROVE FALSE
            <7>1. DOMAIN cpl[x] = {} /\ gid[x] # NoGid /\ Home[x] = p
              BY <1>9, <4>1, <5>1, <6>1, <6>2 DEF NoCouplings
            <7>2. ~Knows(x, a)
              BY <1>1, <5>1, <6>1, <7>1 DEF KnownInv
            <7>3. ~Joiner(x) /\ a # Home[x] /\ joins[p] # {}
              BY <1>3, <4>3, <5>1, <6>1, <6>2, <7>1 DEF Joiner, Joined
            <7>4. o \in Copy(a, gid[x])
              BY <4>1, <5>1, <6>1 DEF Copy, Copies
            <7>5. Introduced(o, p) /\ ~Going(o, p)
              <8>1. env[a] # "xfer"
                BY <1>10, <5>1, <7>3
              <8> QED  BY <4>1, <5>1, <8>1 DEF Introduced, Going
            <7> QED  BY <6>1, <7>1, <7>2, <7>3, <7>4, <7>5 DEF Knows
          <6>3. x \in Copy(q, g)'
            BY <1>8, <6>1, <6>2 DEF Copy, Copies
          <6> QED  BY <2>3, <2>5, <5>1, <5>5, <6>1, <6>2, <6>3
        <5>6. ASSUME NEW x \in Copy(q, g)', Introduced(x, a)', ~Going(x, a)'
              PROVE  x \in Copy(q, g) /\ Introduced(x, a) /\ ~Going(x, a)
          <6>1. x \in Obj /\ Home[x] = q
            BY DEF Copy, Copies
          <6>2. ~Joined(x)
            BY <1>9, <2>4, <4>3, <5>1, <5>6, <6>1
          <6> QED  BY <1>13, <1>14, <2>3, <2>5, <5>1, <5>6, <6>1, <6>2
        <5> QED  BY <1>2, <5>2, <5>3, <5>4, <5>5, <5>6
      <4>4. \A q \in Proc : q = Home[o] => ~Knows(o, q) /\ ~Knows(o, q)'
        BY DEF Knows
      <4> QED  BY <4>2, <4>3, <4>4
    <3> QED  BY <3>1, <3>2
  <2> QED  BY <1>2, <2>7 DEF KnownInv
<1>24. \A m \in msgs : /\ m.from = p /\ m.phase = "phase1" /\ m.items # {} /\ m.to \in Proc /\ joins[p] # {}
                       /\ \A i \in m.items : JoinsAt(p, m.to, i.gid)
  <2> SUFFICES ASSUME NEW m \in msgs
               PROVE  /\ m.from = p /\ m.phase = "phase1" /\ m.items # {} /\ m.to \in Proc /\ joins[p] # {}
                      /\ \A i \in m.items : JoinsAt(p, m.to, i.gid)
    OBVIOUS
  <2>1. /\ m.from = p /\ m.phase = "phase1" /\ m.items # {}
        /\ \A i : i \in m.items <=> i \in items /\ i.dest = m.to
    BY MsgsFromItems DEF msgs
  <2>2. \A i \in m.items : JoinsAt(p, m.to, i.gid)
    BY <2>1 DEF items, JoinsAt
  <2> QED  BY <1>17, <2>1, <2>2
<1>25. \A d, g : JoinsAt(p, d, g) => \E m \in msgs :
         m.from = p /\ m.phase = "phase1" /\ m.to = d /\ \E i \in m.items : i.gid = g
  <2> SUFFICES ASSUME NEW d, NEW g, JoinsAt(p, d, g)
               PROVE  \E m \in msgs : m.from = p /\ m.phase = "phase1" /\ m.to = d /\ \E i \in m.items : i.gid = g
    OBVIOUS
  <2>1. PICK i \in items : i.dest = d /\ i.gid = g
    <3>1. PICK j \in joins[p] : j.dest = d /\ j.gid = g
      BY DEF JoinsAt
    <3>2. [dest |-> j.dest, gid |-> j.gid, prio |-> prio[j.obj]] \in items
      BY DEF items
    <3> QED  BY <3>1, <3>2
  <2> QED  BY <2>1, MsgsFromItems DEF msgs
<1>26. Net1'
  <2>1. ASSUME NEW m \in net', m.phase = "phase1"
        PROVE  /\ env'[m.from] \in {"phase1", "phase2"} /\ env'[m.to] \in {"joinCmds", "phase1"}
               /\ round[m.to] = round[m.from]
               /\ m.items # {} /\ \A i \in m.items : JoinsAt(m.from, m.to, i.gid)
    <3>1. CASE m \in net
      <4>1. /\ env[m.from] \in {"phase1", "phase2"} /\ env[m.to] \in {"joinCmds", "phase1"}
            /\ round[m.to] = round[m.from] /\ m.from \in Proc /\ m.to \in Proc
            /\ m.items # {} /\ \A i \in m.items : JoinsAt(m.from, m.to, i.gid)
        BY <1>1, <2>1, <3>1 DEF NetInv, Net1
      <4> QED  BY <1>3, <4>1
    <3>2. CASE m \in msgs
      BY <1>3, <1>10, <1>24, <3>2
    <3> QED  BY <1>2, <3>1, <3>2
  <2>2. ASSUME NEW q \in Proc, NEW d \in Proc, NEW g \in Nat, JoinsAt(q, d, g), env'[q] \in Joins3,
               env'[d] \in {"joinCmds", "phase1"}, round[d] = round[q]
        PROVE  \E m \in net' : m.phase = "phase1" /\ m.from = q /\ m.to = d /\ \E i \in m.items : i.gid = g
    <3>1. CASE q = p
      BY <1>2, <1>25, <2>2, <3>1
    <3>2. CASE q # p
      <4>1. env[q] \in Joins3 /\ env[d] \in {"joinCmds", "phase1"}
        BY <1>3, <2>2, <3>2
      <4>2. Item1(q, d, g)
        BY <1>1, <2>2, <4>1 DEF NetInv, Net1
      <4> QED  BY <1>2, <4>2 DEF Item1
    <3> QED  BY <3>1, <3>2
  <2>3. \A q \in Proc, d \in Proc, g \in Nat : Item1(q, d, g)' <=>
          \E m \in net' : m.phase = "phase1" /\ m.from = q /\ m.to = d /\ \E i \in m.items : i.gid = g
    BY DEF Item1
  <2> QED  BY <1>2, <1>16, <2>1, <2>2, <2>3 DEF Net1
<1>27. \A m : m.phase \in {"phase2", "phase3"} => (m \in net' <=> m \in net)
  BY <1>2, <1>24
<1>28. Net2'
  <2>1. ASSUME NEW m \in net', m.phase = "phase2"
        PROVE  /\ env'[m.from] \in {"phase2", "phase3"} /\ env'[m.to] \in {"phase1", "phase2"}
               /\ round[m.to] = round[m.from] /\ m.items # {} /\ m.from # m.to
               /\ \A i \in m.items : i.proc \in Proc /\ JoinsAt(i.proc, m.from, i.gid) /\ Owner(m.to, i.gid)
    <3>1. /\ env[m.from] \in {"phase2", "phase3"} /\ env[m.to] \in {"phase1", "phase2"}
          /\ round[m.to] = round[m.from] /\ m.items # {} /\ m.from # m.to /\ m.from \in Proc /\ m.to \in Proc
          /\ \A i \in m.items : i.proc \in Proc /\ JoinsAt(i.proc, m.from, i.gid) /\ Owner(m.to, i.gid)
      BY <1>1, <1>27, <2>1 DEF NetInv, Net2
    <3> QED  BY <1>3, <3>1
  <2>2. ASSUME NEW q \in Proc, NEW d \in Proc, NEW a \in Proc, NEW g \in Nat, JoinsAt(q, d, g),
               env'[d] \in {"phase2", "phase3"}, env'[a] \in {"phase1", "phase2"},
               round[a] = round[q], a # d, Owner(a, g)
        PROVE  ItemOf("phase2", d, a, g, q)
    <3>1. env[d] \in {"phase2", "phase3"}
      BY <1>3, <2>2
    <3>2. ASSUME a = p PROVE FALSE
      <4>1. /\ joins[q] # {} /\ env[q] \in JoinEnvs /\ round[d] >= round[q] /\ round[p] = round[q]
            /\ round[d] \in Nat /\ round[q] \in Nat
        BY <1>1, <1>5, <1>17, <2>2, <3>2 DEF JoinTypeInv
      <4>2. Barrier(d, p)
        BY <1>1 DEF Barriers
      <4>3. round[d] = round[p] => FALSE
        BY <1>3, <3>1, <4>2 DEF Barrier
      <4>4. round[d] > round[q] => Passed(d, round[q])
        BY DEF Passed
      <4>5. round[q] \in 1 .. Len(program) /\ program[round[q]] = "join"
        BY <1>1, <4>1 DEF StageInv
      <4> QED  BY <1>3, <4>1, <4>2, <4>3, <4>4, <4>5 DEF Barrier
    <3> QED  BY <1>1, <1>3, <2>2, <3>1, <3>2 DEF NetInv, Net2
  <2>3. \A q, d, a \in Proc, g \in Nat : ItemOf("phase2", d, a, g, q)' <=> ItemOf("phase2", d, a, g, q)
    BY <1>27 DEF ItemOf
  <2>4. \A m \in net' : \A i : Owner(m.to, i.gid)' <=> Owner(m.to, i.gid)
    BY <1>15
  <2> QED  BY <1>2, <1>15, <1>16, <2>1, <2>2, <2>3 DEF Net2
<1>29. Tasks'
  <2> SUFFICES ASSUME NEW d \in Proc, env'[d] = "phase2" PROVE Told3(d)'
    BY DEF Tasks
  <2>1. Told3(d) /\ env[d] = "phase2"
    BY <1>1, <1>3 DEF NetInv, Tasks
  <2>2. CASE joins[p] = {}
    <3>1. gid' = gid
      BY <1>11, <2>2
    <3>2. \A i \in addCpl3[d] : JoinsAt(i.dest, d, i.gid)' /\ Owner(i.proc, i.gid)'
      BY <1>15, <1>16, <2>1 DEF Told3
    <3>3. \A q, r \in Proc : \A g \in Nat : JoinsAt(q, d, g)' /\ Owner(r, g)' =>
             \E i \in addCpl3[d] : i.dest = q /\ i.gid = g /\ i.proc = r
      BY <1>15, <1>16, <2>1 DEF Told3
    <3>4. \A c \in joinObjs[d] : JoinsAt(c[2], d, gid[c[1]])'
      <4>1. \A c \in joinObjs[d] : JoinsAt(c[2], d, gid[c[1]])
        BY <2>1 DEF Told3
      <4>2. joins' = joins
        BY <1>2
      <4> QED  BY <3>1, <4>1, <4>2 DEF JoinsAt
    <3>5. \A q \in Proc : \A o \in Obj : Home[o] = d /\ JoinsAt(q, d, gid[o])' => <<o, q>> \in joinObjs[d]
      <4>1. \A o \in Obj : gid[o] \in Nat
        BY <1>1 DEF DataInv
      <4> QED  BY <1>2, <2>1, <3>1, <4>1 DEF Told3, JoinsAt
    <3> QED  BY <1>2, <2>1, <3>1, <3>2, <3>3, <3>4, <3>5 DEF Told3
  <2>3. CASE joins[p] # {}
    BY <1>10, <2>1, <2>3
  <2> QED  BY <2>2, <2>3
<1>30. Net3'
  <2>1. CASE joins[p] = {}
    <3>1. gid' = gid /\ net' = net
      BY <1>2, <1>11, <2>1
    <3>2. ASSUME NEW m \in net, m.phase = "phase3"
          PROVE  /\ env'[m.to] \in {"phase2", "phase3"} /\ m.from \in Proc
                 /\ \A i \in m.items : /\ JoinsAt(m.to, m.from, i.gid)
                                       /\ i.proc \in Proc \ {m.to} /\ Copy(i.proc, i.gid) # {}
      BY <1>1, <1>3, <3>2 DEF NetInv, Net3
    <3>3. ASSUME NEW q \in Proc, NEW d \in Proc, NEW r \in Proc, NEW g \in Nat, JoinsAt(q, d, g),
                 env'[d] = "phase3" \/ Passed(d, round[q])', r # q, Copy(r, g) # {}
          PROVE  ItemOf("phase3", d, q, g, r)
      <4>1. env[d] = "phase3" \/ Passed(d, round[q])
        BY <1>2, <1>3, <3>3 DEF Passed
      <4> QED  BY <1>1, <3>3, <4>1 DEF NetInv, Net3
    <3>4. \A q, g : Copy(q, g)' = Copy(q, g)
      BY <3>1 DEF Copy, Copies
    <3>5. \A q, d, r, g : ItemOf("phase3", d, q, g, r)' <=> ItemOf("phase3", d, q, g, r)
      BY <3>1 DEF ItemOf
    <3> QED  BY <1>16, <3>1, <3>2, <3>3, <3>4, <3>5 DEF Net3
  <2>2. CASE joins[p] # {}
    <3>1. \A m \in net' : m.phase # "phase3"
      <4>1. \A m \in net : m.phase = "phase3" => env[m.to] \in {"phase2", "phase3"} /\ m.to \in Proc
        BY <1>1 DEF NetInv, Net3
      <4> QED  BY <1>10, <1>27, <2>2, <4>1
    <3>2. ASSUME NEW q \in Proc, NEW d \in Proc, env'[d] = "phase3" \/ Passed(d, round[q])'
          PROVE  FALSE
      <4>1. round[q] = round[p] /\ ~Passed(d, round[p]) /\ env[d] # "phase3"
        BY <1>10, <2>2
      <4> QED  BY <1>2, <1>3, <3>2, <4>1 DEF Passed
    <3> QED  BY <3>1, <3>2 DEF Net3
  <2> QED  BY <2>1, <2>2
<1>31. NetInv' /\ threw' = {}
  <2>1. \A m \in net' : m.from \in Proc /\ m.to \in Proc /\ m.phase \in Joins3
    BY <1>1, <1>2, <1>24 DEF NetInv
  <2> QED  BY <1>2, <1>26, <1>28, <1>29, <1>30, <2>1 DEF NetInv, ProtocolInv
<1> QED  BY <1>4, <1>18, <1>19, <1>20, <1>21, <1>22, <1>23, <1>31 DEF ProtocolInv

-------------------------------------------------------------------------------
(* The messages of a join are unpacked.                                      *)

(* Nobody is in another environment while some processor unpacks the first   *)
(* two messages.                                                             *)
LEMMA UnpackStages ==
  ASSUME StageInv, Barriers, NEW p \in Proc, NEW q \in Proc,
         \/ env[p] = "phase1" /\ Connected(p, "phase1")
         \/ env[p] = "phase2" /\ Connected(p, "phase2")
  PROVE  /\ round[q] = round[p] /\ round[p] \in Nat /\ env[q] \in Joins3 /\ ~Passed(q, round[p])
         /\ env[p] = "phase1" => env[q] \in {"phase1", "phase2"}
         /\ env[p] = "phase2" => env[q] \in {"phase2", "phase3"}
<1> USE DEF Joins3, JoinEnvs
<1>1. /\ round[q] >= round[p]
      /\ round[q] = round[p] => env[q] \in Joins3 \cup {"idle"}
      /\ round[q] = round[p] /\ env[p] = "phase2" => env[q] # "phase1"
  BY ConnectedStages
<1>2. /\ round[p] \in 1 .. Len(program) /\ round[q] \in Nat /\ program[round[p]] = "join"
      /\ Barrier(q, p) /\ Barrier(p, q)
  BY DEF StageInv, Barriers
<1>3. ~Passed(q, round[p])
  BY <1>2 DEF Barrier
<1>4. round[q] = round[p] /\ env[q] # "idle"
  BY <1>1, <1>2, <1>3 DEF Passed
<1>5. env[p] = "phase1" => env[q] # "phase3"
  BY <1>2, <1>4 DEF Barrier
<1> QED  BY <1>1, <1>2, <1>3, <1>4, <1>5

(* The couplings in that state. *)
LEMMA JoinCouplings ==
  ASSUME DataInv, OneCopy, JoinTypeInv, KnownInv, \A q \in Proc : env[q] \in Joins3
  PROVE  /\ \A x \in Obj : Joiner(x) => gid[x] # NoGid /\ cpl[x] = NoCouplings
         /\ \A o \in Obj : cpl[o] # NoCouplings => gid[o] # NoGid /\ ~Joiner(o)
         /\ \A o \in Obj, q \in Proc : gid[o] # NoGid =>
              (q \in DOMAIN cpl[o] <=> /\ q # Home[o] /\ ~Joiner(o)
                                       /\ \E x \in Copy(q, gid[o]) : Introduced(x, Home[o]))
         /\ \A o \in Obj : DOMAIN cpl[o] \subseteq Proc
         /\ \A o, x \in Obj :
              cpl[o] # NoCouplings /\ gid[x] = gid[o] /\ Home[x] # Home[o] /\ ~Joiner(x)
              => Home[x] \in DOMAIN cpl[o] /\ cpl[x] # NoCouplings
         /\ \A q, d \in Proc : \A g : JoinsAt(q, d, g) =>
              q # d /\ g \in Nat /\ g # NoGid /\ Owner(d, g)
              /\ \E x \in Copy(q, g) : Joiner(x) /\ \E j \in joins[q] : j.obj = x /\ j.dest = d
         /\ \A x \in Obj, q, d \in Proc : \A j \in joins[q] :
              Home[x] = q /\ j.obj = x => gid[x] = j.gid /\ Joiner(x)
<1> USE DEF Joins3, JoinEnvs
<1>1. \A x \in Obj : Home[x] \in Proc
  BY InterfacesAssumption
<1>2. \A q \in Proc : \A j \in joins[q] :
        /\ j.obj \in Obj /\ Home[j.obj] = q /\ j.dest # q /\ cpl[j.obj] = NoCouplings /\ gid[j.obj] = j.gid
        /\ j.gid \in Nat /\ j.gid # NoGid /\ Owner(j.dest, j.gid)
  BY JoinAssumption DEF JoinTypeInv, Owner, NoGid
<1>3. \A x \in Obj : Joiner(x) => gid[x] # NoGid /\ cpl[x] = NoCouplings
  BY <1>1, <1>2 DEF Joiner
<1>4. \A o \in Obj : cpl[o] # NoCouplings => gid[o] # NoGid /\ ~Joiner(o)
  BY <1>3 DEF DataInv
<1>5. \A o \in Obj, q \in Proc : gid[o] # NoGid =>
        (q \in DOMAIN cpl[o] <=> /\ q # Home[o] /\ ~Joiner(o)
                                 /\ \E x \in Copy(q, gid[o]) : Introduced(x, Home[o]))
  <2> SUFFICES ASSUME NEW o \in Obj, NEW q \in Proc, gid[o] # NoGid
               PROVE  q \in DOMAIN cpl[o] <=> /\ q # Home[o] /\ ~Joiner(o)
                                              /\ \E x \in Copy(q, gid[o]) : Introduced(x, Home[o])
    OBVIOUS
  <2>1. q \in DOMAIN cpl[o] <=> Knows(o, q)
    BY DEF KnownInv
  <2>2. \A x \in Copy(q, gid[o]) : ~Going(x, Home[o])
    BY <1>1 DEF Going, Copy, Copies
  <2>3. env[Home[o]] # "xfer"
    BY <1>1
  <2> QED  BY <2>1, <2>2, <2>3 DEF Knows
<1>6. \A o \in Obj : DOMAIN cpl[o] \subseteq Proc
  <2>1. \A o \in Obj : gid[o] = NoGid => DOMAIN cpl[o] = {}
    BY CoupledIff DEF DataInv
  <2> QED  BY <2>1 DEF KnownInv
<1>7. ASSUME NEW o \in Obj, NEW x \in Obj, cpl[o] # NoCouplings, gid[x] = gid[o], Home[x] # Home[o], ~Joiner(x)
      PROVE  Home[x] \in DOMAIN cpl[o] /\ cpl[x] # NoCouplings
  <2>1. gid[o] # NoGid /\ ~Joiner(o) /\ x \in Copy(Home[x], gid[o]) /\ o \in Copy(Home[o], gid[x])
    BY <1>4, <1>7 DEF Copy, Copies
  <2>2. Introduced(x, Home[o]) /\ Introduced(o, Home[x])
    BY <1>7, <2>1 DEF Introduced
  <2>3. Home[x] \in DOMAIN cpl[o] /\ Home[o] \in DOMAIN cpl[x]
    BY <1>1, <1>5, <1>7, <2>1, <2>2
  <2> QED  BY <2>3, CoupledIff
<1>8. \A q, d \in Proc : \A g : JoinsAt(q, d, g) =>
        q # d /\ g \in Nat /\ g # NoGid /\ Owner(d, g)
        /\ \E x \in Copy(q, g) : Joiner(x) /\ \E j \in joins[q] : j.obj = x /\ j.dest = d
  <2> SUFFICES ASSUME NEW q \in Proc, NEW d \in Proc, NEW g, JoinsAt(q, d, g)
               PROVE  q # d /\ g \in Nat /\ g # NoGid /\ Owner(d, g)
                      /\ \E x \in Copy(q, g) : Joiner(x) /\ \E j \in joins[q] : j.obj = x /\ j.dest = d
    OBVIOUS
  <2>1. PICK j \in joins[q] : j.dest = d /\ j.gid = g
    BY DEF JoinsAt
  <2>2. j.obj \in Copy(q, g) /\ Joiner(j.obj)
    BY <1>2, <2>1 DEF Copy, Copies, Joiner
  <2> QED  BY <1>2, <2>1, <2>2
<1>9. \A x \in Obj, q, d \in Proc : \A j \in joins[q] :
        Home[x] = q /\ j.obj = x => gid[x] = j.gid /\ Joiner(x)
  BY <1>2 DEF Joiner
<1> QED  BY <1>3, <1>4, <1>5, <1>6, <1>7, <1>8, <1>9

(* What both steps keep. *)
Unpacking(p) ==
    /\ \/ Step(p, "phase1", "phase2") /\ Connected(p, "phase1")
       \/ Step(p, "phase2", "phase3") /\ Connected(p, "phase2")
    /\ gid' = gid /\ joins' = joins /\ deleted' = deleted
    /\ cpl' = [o \in Obj |-> [q \in DOMAIN cpl'[o] |-> cpl'[o][q]]]
    /\ \A o \in Obj : DOMAIN cpl'[o] = {} <=> DOMAIN cpl[o] = {}

LEMMA UnpackingKeeps ==
  ASSUME ProtocolInv, NEW p \in Proc, Unpacking(p)
  PROVE  /\ StageInv' /\ Barriers' /\ DataInv' /\ GoneInv' /\ OneCopy' /\ JoinTypeInv' /\ Unshared'
         /\ \A q, g : Copy(q, g)' = Copy(q, g) /\ (Owner(q, g)' <=> Owner(q, g))
         /\ \A q, d, g : JoinsAt(q, d, g)' <=> JoinsAt(q, d, g)
         /\ \A x \in Obj : Joiner(x)' <=> Joiner(x)
         /\ \A a \in Proc : round[a] \in Nat /\ (a # p => env'[a] = env[a]) /\ \A k : Passed(a, k)' <=> Passed(a, k)
<1> USE DEF Joins3, JoinEnvs
<1>1. StageInv /\ Barriers /\ DataInv /\ GoneInv /\ OneCopy /\ JoinTypeInv /\ Unshared
  BY DEF ProtocolInv
<1>2. /\ gid' = gid /\ joins' = joins /\ deleted' = deleted /\ round' = round /\ program' = program
      /\ env[p] \in {"phase1", "phase2"}
  BY DEF Unpacking, Step
<1>3. StageInv' /\ Barriers'
  BY <1>1, OnwardStages DEF Onward, Unpacking
<1>4. env'[p] \in {"phase2", "phase3"} /\ \A a \in Proc : a # p => env'[a] = env[a]
  BY <1>1 DEF StageInv, Unpacking, Step
<1>5. \A a \in Proc : round[a] \in Nat /\ \A k : Passed(a, k)' <=> Passed(a, k)
  BY <1>1, <1>2, <1>4 DEF StageInv, Passed
<1>6. \A o \in Obj : cpl'[o] = NoCouplings <=> cpl[o] = NoCouplings
  <2> SUFFICES ASSUME NEW o \in Obj PROVE cpl'[o] = NoCouplings <=> cpl[o] = NoCouplings
    OBVIOUS
  <2>1. cpl'[o] = [q \in DOMAIN cpl'[o] |-> cpl'[o][q]] /\ (DOMAIN cpl'[o] = {} <=> DOMAIN cpl[o] = {})
    BY DEF Unpacking
  <2>2. DOMAIN cpl'[o] = {} => cpl'[o] = NoCouplings
    <3> SUFFICES ASSUME DOMAIN cpl'[o] = {} PROVE cpl'[o] = NoCouplings
      OBVIOUS
    <3>1. cpl'[o] = [q \in {} |-> cpl'[o][q]]
      BY <2>1
    <3>2. NoCouplings = [q \in {} |-> cpl'[o][q]]
      BY DEF NoCouplings
    <3> QED  BY <3>1, <3>2
  <2>3. DOMAIN NoCouplings = {}
    BY DEF NoCouplings
  <2> QED  BY <1>1, <2>1, <2>2, <2>3, CoupledIff
<1>7. \A q, g : Copy(q, g)' = Copy(q, g) /\ Copy(q, g) \subseteq Obj
  BY <1>2 DEF Copy, Copies
<1>8. \A q, g : Owner(q, g)' <=> Owner(q, g)
  BY <1>6, <1>7 DEF Owner
<1>9. \A q, d, g : JoinsAt(q, d, g)' <=> JoinsAt(q, d, g)
  BY <1>2 DEF JoinsAt
<1>10. \A x \in Obj : Joiner(x)' <=> Joiner(x)
  <2>1. \A x \in Obj : Home[x] \in Proc
    BY InterfacesAssumption
  <2> QED  BY <1>2, <1>4, <2>1 DEF Joiner
<1>11. DataInv'
  <2>1. ASSUME NEW a \in Proc, NEW d \in deleted[a]
        PROVE  /\ d[1] \in 1 .. round[a] /\ program[d[1]] = "xfer"
               /\ env'[a] = "xfer" /\ d[1] = round[a] => Copy(a, d[2])' # {}
    BY <1>1, <1>4, <1>7 DEF DataInv
  <2> QED  BY <1>1, <1>2, <1>6, <2>1 DEF DataInv, Unpacking
<1>12. GoneInv'
  BY <1>1, <1>2, <1>5, <1>7 DEF GoneInv
<1>13. OneCopy' /\ Unshared'
  BY <1>1, <1>2 DEF OneCopy, Unshared
<1>14. JoinTypeInv'
  <2>1. ASSUME NEW q \in Proc, joins[q] # {}
        PROVE  env'[q] \in JoinEnvs /\ \A a \in Proc : round[a] >= round[q]
    BY <1>1, <1>4, <2>1 DEF JoinTypeInv
  <2>2. ASSUME NEW q \in Proc, NEW j \in joins[q]
        PROVE  /\ Home[j.obj] = q /\ j.dest # q /\ cpl'[j.obj] = NoCouplings
               /\ \A i \in joins[q] : i.obj = j.obj \/ i.gid = j.gid => i = j
               /\ IF env'[q] = "joinCmds" THEN gid[j.obj] # NoGid /\ Copy(q, j.gid)' = {}
                                          ELSE gid[j.obj] = j.gid
               /\ \E x \in Copy(j.dest, j.gid)' : cpl'[x] # NoCouplings
    <3>1. /\ Home[j.obj] = q /\ j.dest # q /\ cpl[j.obj] = NoCouplings /\ j.obj \in Obj
          /\ \A i \in joins[q] : i.obj = j.obj \/ i.gid = j.gid => i = j
          /\ IF env[q] = "joinCmds" THEN gid[j.obj] # NoGid /\ Copy(q, j.gid) = {}
                                    ELSE gid[j.obj] = j.gid
          /\ Owner(j.dest, j.gid)
      BY <1>1, JoinAssumption DEF JoinTypeInv, Owner
    <3>2. Owner(j.dest, j.gid)'
      BY <1>8, <3>1
    <3>3. \E x \in Copy(j.dest, j.gid)' : cpl'[x] # NoCouplings
      BY <3>2 DEF Owner
    <3> QED  BY <1>2, <1>4, <1>6, <1>7, <3>1, <3>3
  <2>3. joins' = joins /\ round' = round /\ gid' = gid
    BY <1>2
  <2>4. joins \in [Proc -> SUBSET [obj : Joining, dest : Proc, gid : Nat \ {0}]]
    BY <1>1 DEF JoinTypeInv
  <2> QED  BY <2>1, <2>2, <2>3, <2>4 DEF JoinTypeInv
<1> QED  BY <1>3, <1>4, <1>5, <1>7, <1>8, <1>9, <1>10, <1>11, <1>12, <1>13, <1>14

LEMMA AskedIs ==
  ASSUME NEW p \in Proc
  PROVE  /\ \A c \in Asked(p) :
              /\ c[1] \in Obj /\ Home[c[1]] = p /\ cpl[c[1]] # NoCouplings
              /\ \E m \in net : m.phase = "phase1" /\ m.from = c[2] /\ m.to = p
                                /\ \E i \in m.items : i.gid = gid[c[1]]
         /\ \A o \in Obj, q \in Proc : Home[o] = p /\ cpl[o] # NoCouplings /\ Item1(q, p, gid[o]) =>
              \E c \in Asked(p) : c[1] = o /\ c[2] = q
<1> DEFINE Of(o, m) == {<<o, m.from, i.prio>> : i \in {x \in m.items : x.gid = gid[o]}}
<1>1. Asked(p) = UNION {Of(o, m) : o \in Coupled(p, cpl), m \in Received(p, "phase1")}
  BY DEF Asked
<1>2. \A o, m : \A c \in Of(o, m) : c[1] = o /\ c[2] = m.from /\ \E i \in m.items : i.gid = gid[o]
  OBVIOUS
<1>3. \A o, m : (\E i \in m.items : i.gid = gid[o]) => \E c \in Of(o, m) : c[1] = o /\ c[2] = m.from
  <2> SUFFICES ASSUME NEW o, NEW m, NEW i \in m.items, i.gid = gid[o]
               PROVE  \E c \in Of(o, m) : c[1] = o /\ c[2] = m.from
    OBVIOUS
  <2>1. <<o, m.from, i.prio>> \in Of(o, m)
    OBVIOUS
  <2> QED  BY <2>1
<1> HIDE DEF Of
<1>4. ASSUME NEW c \in Asked(p)
      PROVE  /\ c[1] \in Obj /\ Home[c[1]] = p /\ cpl[c[1]] # NoCouplings
             /\ \E m \in net : m.phase = "phase1" /\ m.from = c[2] /\ m.to = p
                               /\ \E i \in m.items : i.gid = gid[c[1]]
  <2>1. PICK o \in Coupled(p, cpl), m \in Received(p, "phase1") : c \in Of(o, m)
    BY <1>1
  <2>2. c[1] = o /\ c[2] = m.from /\ \E i \in m.items : i.gid = gid[o]
    BY <1>2, <2>1
  <2> QED  BY <2>1, <2>2 DEF Coupled, Received
<1>5. ASSUME NEW o \in Obj, NEW q \in Proc, Home[o] = p, cpl[o] # NoCouplings, Item1(q, p, gid[o])
      PROVE  \E c \in Asked(p) : c[1] = o /\ c[2] = q
  <2>1. PICK m \in net : m.phase = "phase1" /\ m.from = q /\ m.to = p /\ \E i \in m.items : i.gid = gid[o]
    BY <1>5 DEF Item1
  <2>2. PICK c \in Of(o, m) : c[1] = o /\ c[2] = q
    BY <1>3, <2>1
  <2>3. o \in Coupled(p, cpl) /\ m \in Received(p, "phase1")
    BY <1>5, <2>1 DEF Coupled, Received
  <2> QED  BY <1>1, <2>2, <2>3
<1> QED  BY <1>4, <1>5

LEMMA WithCouplingsDomain ==
  ASSUME NEW list, NEW adds
  PROVE  /\ \A q : q \in DOMAIN WithCouplings(list, adds) <=> q \in DOMAIN list \/ \E a \in adds : a[1] = q
         /\ WithCouplings(list, adds) =
              [q \in DOMAIN WithCouplings(list, adds) |-> WithCouplings(list, adds)[q]]
  BY DEF WithCouplings

LEMMA UnpackPhase1Inv ==
  ASSUME ProtocolInv, NEW p \in Proc, UnpackPhase1(p)
  PROVE  ProtocolInv'
<1> USE DEF Joins3
<1>1. StageInv /\ Barriers /\ DataInv /\ OneCopy /\ JoinTypeInv /\ KnownInv /\ NetInv
  BY DEF ProtocolInv
<1> DEFINE asked == Asked(p)
           items == AddCpl2(asked)
           msgs == MsgsFrom(p, "phase2", items)
           Adds(o) == {<<c[2], c[3]>> : c \in {x \in asked : x[1] = o}}
<1>2. /\ Step(p, "phase1", "phase2") /\ Connected(p, "phase1")
      /\ cpl' = [o \in Obj |-> WithCouplings(cpl[o], Adds(o))]
      /\ addCpl3' = [addCpl3 EXCEPT ![p] = FirstAddCpl3(p, asked)]
      /\ joinObjs' = [joinObjs EXCEPT ![p] = {<<c[1], c[2]>> : c \in asked}]
      /\ net' = (net \ Received(p, "phase1")) \cup msgs
      /\ threw' = IF Misdirected(p, "phase1") = {} THEN threw ELSE threw \cup {p}
      /\ gid' = gid /\ joins' = joins /\ deleted' = deleted /\ round' = round
  BY DEF UnpackPhase1, Step
<1>3. env[p] = "phase1" /\ env'[p] = "phase2" /\ \A a \in Proc : a # p => env'[a] = env[a]
  BY <1>1, <1>2 DEF Step, StageInv
<1>4. \A q \in Proc : /\ round[q] = round[p] /\ round[p] \in Nat /\ ~Passed(q, round[p])
                      /\ env[q] \in {"phase1", "phase2"} /\ env[q] \in Joins3
  BY <1>1, <1>2, <1>3, UnpackStages
<1>5. \A c \in asked : /\ c[1] \in Obj /\ Home[c[1]] = p /\ cpl[c[1]] # NoCouplings
                       /\ c[2] \in Proc /\ JoinsAt(c[2], p, gid[c[1]])
  <2> SUFFICES ASSUME NEW c \in asked
               PROVE  /\ c[1] \in Obj /\ Home[c[1]] = p /\ cpl[c[1]] # NoCouplings
                      /\ c[2] \in Proc /\ JoinsAt(c[2], p, gid[c[1]])
    OBVIOUS
  <2>1. /\ c[1] \in Obj /\ Home[c[1]] = p /\ cpl[c[1]] # NoCouplings
        /\ \E m \in net : m.phase = "phase1" /\ m.from = c[2] /\ m.to = p
                          /\ \E i \in m.items : i.gid = gid[c[1]]
    BY AskedIs
  <2> QED  BY <1>1, <2>1 DEF NetInv, Net1
<1>6. \A o \in Obj, q \in Proc : Home[o] = p /\ cpl[o] # NoCouplings /\ JoinsAt(q, p, gid[o]) =>
        \E c \in asked : c[1] = o /\ c[2] = q
  <2> SUFFICES ASSUME NEW o \in Obj, NEW q \in Proc, Home[o] = p, cpl[o] # NoCouplings, JoinsAt(q, p, gid[o])
               PROVE  \E c \in asked : c[1] = o /\ c[2] = q
    OBVIOUS
  <2>1. gid[o] \in Nat
    BY <1>1 DEF DataInv
  <2>2. Item1(q, p, gid[o])
    BY <1>1, <1>3, <1>4, <2>1 DEF NetInv, Net1
  <2> QED  BY <2>2, AskedIs
<1>7. \A o \in Obj : \A q : q \in DOMAIN cpl'[o] <=> q \in DOMAIN cpl[o] \/ \E c \in asked : c[1] = o /\ c[2] = q
  <2> SUFFICES ASSUME NEW o \in Obj, NEW q
               PROVE  q \in DOMAIN cpl'[o] <=> q \in DOMAIN cpl[o] \/ \E c \in asked : c[1] = o /\ c[2] = q
    OBVIOUS
  <2>1. cpl'[o] = WithCouplings(cpl[o], Adds(o))
    BY <1>2
  <2>2. \A a : a \in Adds(o) <=> \E c \in asked : c[1] = o /\ a = <<c[2], c[3]>>
    OBVIOUS
  <2> HIDE DEF Adds, asked
  <2>3. ASSUME NEW a \in Adds(o), a[1] = q PROVE \E c \in asked : c[1] = o /\ c[2] = q
    <3>1. PICK c \in asked : c[1] = o /\ a = <<c[2], c[3]>>
      BY <2>2
    <3> QED  BY <2>3, <3>1
  <2>4. ASSUME NEW c \in asked, c[1] = o, c[2] = q PROVE \E a \in Adds(o) : a[1] = q
    <3>1. <<c[2], c[3]>> \in Adds(o)
      BY <2>2, <2>4
    <3> QED  BY <2>4, <3>1
  <2> QED  BY <2>1, <2>3, <2>4, WithCouplingsDomain
<1>7a. \A o \in Obj : cpl'[o] = [q \in DOMAIN cpl'[o] |-> cpl'[o][q]]
  <2> SUFFICES ASSUME NEW o \in Obj PROVE cpl'[o] = [q \in DOMAIN cpl'[o] |-> cpl'[o][q]]
    OBVIOUS
  <2>1. cpl'[o] = WithCouplings(cpl[o], Adds(o))
    BY <1>2
  <2> HIDE DEF Adds
  <2> QED  BY <2>1, WithCouplingsDomain
<1> HIDE DEF asked, items, msgs, Adds
<1>8. Unpacking(p)
  <2>1. \A o \in Obj : DOMAIN cpl'[o] = {} <=> DOMAIN cpl[o] = {}
    <3>1. \A o \in Obj : cpl[o] = NoCouplings <=> DOMAIN cpl[o] = {}
      BY <1>1, CoupledIff
    <3> QED  BY <1>5, <1>7, <3>1
  <2>2. cpl' = [o \in Obj |-> [q \in DOMAIN cpl'[o] |-> cpl'[o][q]]]
    <3>1. cpl' = [o \in Obj |-> cpl'[o]]
      BY <1>2
    <3> QED  BY <1>7a, <3>1
  <2> QED  BY <1>2, <2>1, <2>2 DEF Unpacking
<1>9. /\ StageInv' /\ Barriers' /\ DataInv' /\ GoneInv' /\ OneCopy' /\ JoinTypeInv' /\ Unshared'
      /\ \A q, g : Copy(q, g)' = Copy(q, g) /\ (Owner(q, g)' <=> Owner(q, g))
      /\ \A q, d, g : JoinsAt(q, d, g)' <=> JoinsAt(q, d, g)
      /\ \A x \in Obj : Joiner(x)' <=> Joiner(x)
      /\ \A a \in Proc : round[a] \in Nat /\ \A k : Passed(a, k)' <=> Passed(a, k)
  BY <1>8, UnpackingKeeps
<1>10. /\ \A o \in Obj : cpl[o] # NoCouplings => gid[o] # NoGid /\ ~Joiner(o)
       /\ \A o \in Obj, q \in Proc : gid[o] # NoGid =>
            (q \in DOMAIN cpl[o] <=> /\ q # Home[o] /\ ~Joiner(o)
                                     /\ \E x \in Copy(q, gid[o]) : Introduced(x, Home[o]))
       /\ \A o \in Obj : DOMAIN cpl[o] \subseteq Proc
       /\ \A o, x \in Obj :
            cpl[o] # NoCouplings /\ gid[x] = gid[o] /\ Home[x] # Home[o] /\ ~Joiner(x)
            => Home[x] \in DOMAIN cpl[o] /\ cpl[x] # NoCouplings
       /\ \A q, d \in Proc : \A g : JoinsAt(q, d, g) =>
            q # d /\ g \in Nat /\ g # NoGid /\ Owner(d, g)
            /\ \E x \in Copy(q, g) : Joiner(x) /\ \E j \in joins[q] : j.obj = x /\ j.dest = d
       /\ \A x \in Obj, q, d \in Proc : \A j \in joins[q] :
            Home[x] = q /\ j.obj = x => gid[x] = j.gid /\ Joiner(x)
  BY <1>1, <1>4, JoinCouplings
<1>11. \A q, g : \A x : x \in Copy(q, g) <=> x \in Obj /\ Home[x] = q /\ gid[x] = g /\ g # NoGid
  BY DEF Copy, Copies
(* The owners of what p is asked for are exactly those in its couplings. *)
<1>12. ASSUME NEW c \in asked, NEW a \in Proc PROVE a \in DOMAIN cpl[c[1]] <=> a # p /\ Owner(a, gid[c[1]])
  <2>1. c[1] \in Obj /\ Home[c[1]] = p /\ cpl[c[1]] # NoCouplings /\ gid[c[1]] # NoGid /\ ~Joiner(c[1])
    BY <1>5, <1>10
  <2>2. ASSUME a \in DOMAIN cpl[c[1]] PROVE a # p /\ Owner(a, gid[c[1]])
    <3>1. PICK x \in Copy(a, gid[c[1]]) : Introduced(x, p) /\ a # p
      BY <1>10, <2>1, <2>2
    <3>2. x \in Obj /\ Home[x] = a /\ gid[x] = gid[c[1]]
      BY <1>11
    <3>3. ~Joiner(x)
      BY <1>3, <1>4, <3>1, <3>2 DEF Introduced
    <3> QED  BY <1>10, <2>1, <3>1, <3>2, <3>3 DEF Owner
  <2>3. ASSUME a # p, Owner(a, gid[c[1]]) PROVE a \in DOMAIN cpl[c[1]]
    <3>1. PICK x \in Copy(a, gid[c[1]]) : cpl[x] # NoCouplings
      BY <2>3 DEF Owner
    <3> QED  BY <1>10, <1>11, <2>1, <2>3, <3>1
  <2> QED  BY <2>2, <2>3
<1>13. \A q \in Proc : \A g : JoinsAt(q, p, g) => \E c \in asked : c[2] = q /\ gid[c[1]] = g
  <2> SUFFICES ASSUME NEW q \in Proc, NEW g, JoinsAt(q, p, g) PROVE \E c \in asked : c[2] = q /\ gid[c[1]] = g
    OBVIOUS
  <2>1. PICK o \in Copy(p, g) : cpl[o] # NoCouplings
    BY <1>10 DEF Owner
  <2> QED  BY <1>6, <1>11, <2>1

<1>14. KnownInv'
  <2>1. \A x \in Obj : Home[x] \in Proc
    BY InterfacesAssumption
  <2>2. \A a \in Proc : env'[a] # "xfer"
    BY <1>3, <1>4
  <2> SUFFICES ASSUME NEW o \in Obj, gid[o] # NoGid, NEW q \in Proc PROVE q \in DOMAIN cpl'[o] <=> Knows(o, q)'
    <3>1. \A o \in Obj : DOMAIN cpl'[o] \subseteq Proc
      BY <1>5, <1>7, <1>10
    <3> QED  BY <1>2, <3>1 DEF KnownInv
  <2>3. Knows(o, q)' <=> q # Home[o] /\ ~Joiner(o) /\ \E x \in Copy(q, gid[o]) : Introduced(x, Home[o])'
    <3>1. \A x \in Copy(q, gid[o]) : ~Going(x, Home[o])'
      BY <1>11, <2>1, <2>2 DEF Going
    <3>2. Copy(q, gid[o])' = Copy(q, gid[o])
      BY <1>2 DEF Copy, Copies
    <3> QED  BY <1>9, <2>1, <2>2, <3>1, <3>2 DEF Knows
  <2>4. q \in DOMAIN cpl[o] <=> q # Home[o] /\ ~Joiner(o) /\ \E x \in Copy(q, gid[o]) : Introduced(x, Home[o])
    BY <1>10
  <2>5. CASE Home[o] # p
    <3>1. q \in DOMAIN cpl'[o] <=> q \in DOMAIN cpl[o]
      BY <1>5, <1>7, <2>5
    <3>2. \A x \in Copy(q, gid[o]) : Introduced(x, Home[o])' <=> Introduced(x, Home[o])
      <4> SUFFICES ASSUME NEW x \in Copy(q, gid[o]) PROVE Introduced(x, Home[o])' <=> Introduced(x, Home[o])
        OBVIOUS
      <4>1. x \in Obj /\ Home[x] = q
        BY <1>11
      <4>2. env'[Home[o]] = env[Home[o]]
        BY <1>3, <2>1, <2>5
      <4> QED  BY <1>2, <1>9, <2>1, <4>1, <4>2 DEF Introduced
    <3> QED  BY <2>3, <2>4, <3>1, <3>2
  <2>6. CASE Home[o] = p
    <3>1. \A x \in Copy(q, gid[o]) : Introduced(x, p) <=> ~Joiner(x)
      BY <1>3, <1>4, <1>11 DEF Introduced
    <3>2. \A x \in Copy(q, gid[o]) :
            Introduced(x, p)' <=> ~Joiner(x) \/ \E j \in joins[q] : j.obj = x /\ j.dest = p
      <4> SUFFICES ASSUME NEW x \in Copy(q, gid[o])
                   PROVE  Introduced(x, p)' <=> ~Joiner(x) \/ \E j \in joins[q] : j.obj = x /\ j.dest = p
        OBVIOUS
      <4>1. x \in Obj /\ Home[x] = q
        BY <1>11
      <4>2. ~Passed(p, round[Home[x]])' /\ (Joiner(x)' <=> Joiner(x))
        BY <1>2, <1>3, <1>4, <1>9, <4>1 DEF Passed
      <4> QED  BY <1>2, <1>3, <4>1, <4>2 DEF Introduced
    <3>3. (\E x \in Copy(q, gid[o]) : \E j \in joins[q] : j.obj = x /\ j.dest = p) <=> JoinsAt(q, p, gid[o])
      BY <1>10, <1>11 DEF JoinsAt
    <3>4. q \in DOMAIN cpl'[o] <=> q \in DOMAIN cpl[o] \/ \E c \in asked : c[1] = o /\ c[2] = q
      BY <1>7
    <3>5. (\E c \in asked : c[1] = o /\ c[2] = q) <=> JoinsAt(q, p, gid[o])
      <4>1. ASSUME JoinsAt(q, p, gid[o]) PROVE cpl[o] # NoCouplings
        <5>1. PICK y \in Copy(p, gid[o]) : cpl[y] # NoCouplings
          BY <1>10, <4>1 DEF Owner
        <5>2. y = o
          BY <1>1, <1>11, <2>6, <5>1 DEF OneCopy
        <5> QED  BY <5>1, <5>2
      <4> QED  BY <1>5, <1>6, <2>6, <4>1
    <3>6. JoinsAt(q, p, gid[o]) => q # p /\ ~Joiner(o)
      <4>1. JoinsAt(q, p, gid[o]) => cpl[o] # NoCouplings
        BY <1>5, <3>5
      <4> QED  BY <1>10, <4>1
    <3> QED  BY <2>3, <2>4, <2>6, <3>1, <3>2, <3>3, <3>4, <3>5, <3>6
  <2> QED  BY <2>5, <2>6
<1>15. threw' = {}
  <2>1. Misdirected(p, "phase1") = {}
    <3> SUFFICES ASSUME NEW m \in Received(p, "phase1"), NEW i \in m.items
                 PROVE  Copy(p, i.gid) \cap Coupled(p, cpl) # {}
      BY DEF Misdirected
    <3>1. m.from \in Proc /\ JoinsAt(m.from, p, i.gid)
      BY <1>1 DEF NetInv, Net1, Received
    <3>2. PICK y \in Copy(p, i.gid) : cpl[y] # NoCouplings
      BY <1>10, <3>1 DEF Owner
    <3>3. y \in Coupled(p, cpl)
      BY <1>11, <3>2 DEF Coupled
    <3> QED  BY <3>2, <3>3
  <2> QED  BY <1>2, <2>1 DEF ProtocolInv
<1>16. \A i : i \in items <=> \E c \in asked : \E q \in DOMAIN cpl[c[1]] : i = Item(q, gid[c[1]], c[2], c[3])
  BY DEF items, AddCpl2
<1>17. \A m \in msgs : /\ m.from = p /\ m.phase = "phase2" /\ m.items # {} /\ m.to \in Proc \ {p}
                       /\ \A i \in m.items : i.proc \in Proc /\ JoinsAt(i.proc, p, i.gid) /\ Owner(m.to, i.gid)
  <2> SUFFICES ASSUME NEW m \in msgs
               PROVE  /\ m.from = p /\ m.phase = "phase2" /\ m.items # {} /\ m.to \in Proc \ {p}
                      /\ \A i \in m.items : i.proc \in Proc /\ JoinsAt(i.proc, p, i.gid) /\ Owner(m.to, i.gid)
    OBVIOUS
  <2>1. /\ m.from = p /\ m.phase = "phase2" /\ m.items # {}
        /\ \A i : i \in m.items <=> i \in items /\ i.dest = m.to
    BY MsgsFromItems DEF msgs
  <2>2. ASSUME NEW i \in m.items
        PROVE  m.to \in Proc \ {p} /\ i.proc \in Proc /\ JoinsAt(i.proc, p, i.gid) /\ Owner(m.to, i.gid)
    <3>a. PICK c \in asked : \E q : q \in DOMAIN cpl[c[1]] /\ i = Item(q, gid[c[1]], c[2], c[3])
      BY <1>16, <2>1
    <3>1. PICK q : q \in DOMAIN cpl[c[1]] /\ i = Item(q, gid[c[1]], c[2], c[3])
      BY <3>a
    <3>2. i.dest = q /\ i.gid = gid[c[1]] /\ i.proc = c[2] /\ q = m.to
      BY <2>1, <3>1 DEF Item
    <3>3. q \in Proc /\ q # p /\ Owner(q, gid[c[1]])
      BY <1>5, <1>10, <1>12, <3>1
    <3> QED  BY <1>5, <3>2, <3>3
  <2> QED  BY <2>1, <2>2
<1>18. ASSUME NEW q \in Proc, NEW a \in Proc, NEW g, JoinsAt(q, p, g), a # p, Owner(a, g)
       PROVE  \E m \in msgs : m.phase = "phase2" /\ m.from = p /\ m.to = a /\ \E i \in m.items : i.gid = g /\ i.proc = q
  <2>1. PICK c \in asked : c[2] = q /\ gid[c[1]] = g
    BY <1>13, <1>18
  <2>2. a \in DOMAIN cpl[c[1]]
    BY <1>12, <1>18, <2>1
  <2>3. Item(a, g, q, c[3]) \in items
    BY <1>16, <2>1, <2>2
  <2>4. /\ Item(a, g, q, c[3]).dest = a /\ Item(a, g, q, c[3]).gid = g /\ Item(a, g, q, c[3]).proc = q
    BY DEF Item
  <2> QED  BY <2>3, <2>4, MsgsFromItems DEF msgs

<1>19. /\ \A m : m \in net' => m \in net \/ m \in msgs
       /\ \A m \in net : m.to # p \/ m.phase # "phase1" => m \in net'
       /\ \A m \in msgs : m \in net'
       /\ \A m \in net' : m.phase = "phase1" => m \in net /\ m.to # p
  BY <1>2, <1>17 DEF Received
<1>20. Net1'
  <2>1. ASSUME NEW m \in net', m.phase = "phase1"
        PROVE  /\ env'[m.from] \in {"phase1", "phase2"} /\ env'[m.to] \in {"joinCmds", "phase1"}
               /\ round[m.to] = round[m.from]
               /\ m.items # {} /\ \A i \in m.items : JoinsAt(m.from, m.to, i.gid)
    <3>1. m \in net /\ m.to # p
      BY <1>19, <2>1
    <3>2. /\ env[m.from] \in {"phase1", "phase2"} /\ env[m.to] \in {"joinCmds", "phase1"}
          /\ round[m.to] = round[m.from] /\ m.from \in Proc /\ m.to \in Proc
          /\ m.items # {} /\ \A i \in m.items : JoinsAt(m.from, m.to, i.gid)
      BY <1>1, <2>1, <3>1 DEF NetInv, Net1
    <3> QED  BY <1>3, <3>1, <3>2
  <2>2. ASSUME NEW q \in Proc, NEW d \in Proc, NEW g \in Nat, JoinsAt(q, d, g), env'[q] \in Joins3,
               env'[d] \in {"joinCmds", "phase1"}, round[d] = round[q]
        PROVE  \E m \in net' : m.phase = "phase1" /\ m.from = q /\ m.to = d /\ \E i \in m.items : i.gid = g
    <3>1. d # p /\ env[d] \in {"joinCmds", "phase1"} /\ env[q] \in Joins3
      BY <1>3, <1>4, <2>2
    <3>2. Item1(q, d, g)
      BY <1>1, <2>2, <3>1 DEF NetInv, Net1
    <3> QED  BY <1>19, <3>1, <3>2 DEF Item1
  <2>3. \A q \in Proc, d \in Proc, g \in Nat : Item1(q, d, g)' <=>
          \E m \in net' : m.phase = "phase1" /\ m.from = q /\ m.to = d /\ \E i \in m.items : i.gid = g
    BY DEF Item1
  <2> QED  BY <1>2, <1>9, <2>1, <2>2, <2>3 DEF Net1
<1>21. Net2'
  <2>1. ASSUME NEW m \in net', m.phase = "phase2"
        PROVE  /\ env'[m.from] \in {"phase2", "phase3"} /\ env'[m.to] \in {"phase1", "phase2"}
               /\ round[m.to] = round[m.from] /\ m.items # {} /\ m.from # m.to
               /\ \A i \in m.items : i.proc \in Proc /\ JoinsAt(i.proc, m.from, i.gid) /\ Owner(m.to, i.gid)
    <3>1. CASE m \in net
      <4>1. /\ env[m.from] \in {"phase2", "phase3"} /\ env[m.to] \in {"phase1", "phase2"}
            /\ round[m.to] = round[m.from] /\ m.items # {} /\ m.from # m.to /\ m.from \in Proc /\ m.to \in Proc
            /\ \A i \in m.items : i.proc \in Proc /\ JoinsAt(i.proc, m.from, i.gid) /\ Owner(m.to, i.gid)
        BY <1>1, <2>1, <3>1 DEF NetInv, Net2
      <4> QED  BY <1>3, <4>1
    <3>2. CASE m \in msgs
      <4>1. /\ m.from = p /\ m.items # {} /\ m.to \in Proc \ {p}
            /\ \A i \in m.items : i.proc \in Proc /\ JoinsAt(i.proc, p, i.gid) /\ Owner(m.to, i.gid)
        BY <1>17, <3>2
      <4> QED  BY <1>3, <1>4, <4>1
    <3> QED  BY <1>19, <2>1, <3>1, <3>2
  <2>2. ASSUME NEW q \in Proc, NEW d \in Proc, NEW a \in Proc, NEW g \in Nat, JoinsAt(q, d, g),
               env'[d] \in {"phase2", "phase3"}, env'[a] \in {"phase1", "phase2"},
               round[a] = round[q], a # d, Owner(a, g)
        PROVE  \E m \in net' : m.phase = "phase2" /\ m.from = d /\ m.to = a
                               /\ \E i \in m.items : i.gid = g /\ i.proc = q
    <3>1. CASE d = p
      <4>1. \E m \in msgs : m.phase = "phase2" /\ m.from = d /\ m.to = a /\ \E i \in m.items : i.gid = g /\ i.proc = q
        BY <1>18, <2>2, <3>1
      <4> QED  BY <1>19, <4>1
    <3>2. CASE d # p
      <4>1. ItemOf("phase2", d, a, g, q)
        BY <1>1, <1>3, <2>2, <3>2 DEF NetInv, Net2
      <4> QED  BY <1>19, <4>1 DEF ItemOf
    <3> QED  BY <3>1, <3>2
  <2>3. \A q, d, a \in Proc, g \in Nat : ItemOf("phase2", d, a, g, q)' <=>
          \E m \in net' : m.phase = "phase2" /\ m.from = d /\ m.to = a
                          /\ \E i \in m.items : i.gid = g /\ i.proc = q
    BY DEF ItemOf
  <2> QED  BY <1>2, <1>9, <2>1, <2>2, <2>3 DEF Net2
<1>22. Tasks'
  <2> SUFFICES ASSUME NEW d \in Proc, env'[d] = "phase2" PROVE Told3(d)'
    BY DEF Tasks
  <2> DEFINE adds == addCpl3'[d]
             objs == joinObjs'[d]
  <2>1. /\ \A i \in adds : i.proc \in Proc /\ i.dest \in Proc /\ JoinsAt(i.dest, d, i.gid) /\ Owner(i.proc, i.gid)
        /\ \A q, r \in Proc : \A g \in Nat : JoinsAt(q, d, g) /\ Owner(r, g) =>
             \E i \in adds : i.dest = q /\ i.gid = g /\ i.proc = r
        /\ \A c \in objs : c[1] \in Obj /\ c[2] \in Proc /\ Home[c[1]] = d /\ JoinsAt(c[2], d, gid[c[1]])
        /\ \A q \in Proc : \A o \in Obj : Home[o] = d /\ JoinsAt(q, d, gid[o]) => <<o, q>> \in objs
    <3>1. CASE d # p
      <4>1. adds = addCpl3[d] /\ objs = joinObjs[d] /\ Told3(d)
        BY <1>1, <1>2, <1>3, <3>1 DEF NetInv, Tasks
      <4> QED  BY <4>1 DEF Told3
    <3>2. CASE d = p
      <4>1. adds = FirstAddCpl3(p, asked) /\ objs = {<<c[1], c[2]>> : c \in asked}
        BY <1>1, <1>2, <3>2 DEF NetInv
      <4>2. \A i : i \in adds <=> \E c \in asked :
              \/ \E q \in DOMAIN cpl[c[1]] : i = Item(c[2], gid[c[1]], q, cpl[c[1]][q])
              \/ i = Item(c[2], gid[c[1]], p, prio[c[1]])
        BY <4>1 DEF FirstAddCpl3, OwnersFor, MyselfFor
      <4>3. ASSUME NEW i \in adds
            PROVE  i.proc \in Proc /\ i.dest \in Proc /\ JoinsAt(i.dest, p, i.gid) /\ Owner(i.proc, i.gid)
        <5>1. PICK c \in asked : i.dest = c[2] /\ i.gid = gid[c[1]] /\ (i.proc \in DOMAIN cpl[c[1]] \/ i.proc = p)
          BY <4>2 DEF Item
        <5>2. Owner(p, gid[c[1]]) /\ DOMAIN cpl[c[1]] \subseteq Proc
          BY <1>5, <1>10
        <5> QED  BY <1>5, <1>12, <5>1, <5>2
      <4>4. ASSUME NEW q \in Proc, NEW r \in Proc, NEW g \in Nat, JoinsAt(q, p, g), Owner(r, g)
            PROVE  \E i \in adds : i.dest = q /\ i.gid = g /\ i.proc = r
        <5>1. PICK c \in asked : c[2] = q /\ gid[c[1]] = g
          BY <1>13, <4>4
        <5>2. CASE r = p
          <6>1. Item(q, g, p, prio[c[1]]) \in adds
            BY <4>2, <5>1
          <6> QED  BY <5>2, <6>1 DEF Item
        <5>3. CASE r # p
          <6>1. r \in DOMAIN cpl[c[1]]
            BY <1>12, <4>4, <5>1, <5>3
          <6>2. Item(q, g, r, cpl[c[1]][r]) \in adds
            BY <4>2, <5>1, <6>1
          <6> QED  BY <6>2 DEF Item
        <5> QED  BY <5>2, <5>3
      <4>5. \A c \in objs : c[1] \in Obj /\ c[2] \in Proc /\ Home[c[1]] = p /\ JoinsAt(c[2], p, gid[c[1]])
        BY <1>5, <4>1
      <4>6. ASSUME NEW q \in Proc, NEW o \in Obj, Home[o] = p, JoinsAt(q, p, gid[o])
            PROVE  <<o, q>> \in objs
        <5>1. PICK y \in Copy(p, gid[o]) : cpl[y] # NoCouplings
          BY <1>10, <4>6 DEF Owner
        <5>2. y = o
          BY <1>1, <1>11, <4>6, <5>1 DEF OneCopy
        <5>3. PICK c \in asked : c[1] = o /\ c[2] = q
          BY <1>6, <4>6, <5>1, <5>2
        <5> QED  BY <4>1, <5>3
      <4> HIDE DEF adds, objs
      <4> QED  BY <3>2, <4>3, <4>4, <4>5, <4>6
    <3> QED  BY <3>1, <3>2
  <2> HIDE DEF adds, objs
  <2>2. \A i \in adds : JoinsAt(i.dest, d, i.gid)' /\ Owner(i.proc, i.gid)'
    BY <1>9, <2>1
  <2>3. \A q, r \in Proc : \A g \in Nat : JoinsAt(q, d, g)' /\ Owner(r, g)' =>
          \E i \in adds : i.dest = q /\ i.gid = g /\ i.proc = r
    BY <1>9, <2>1
  <2>4. \A c \in objs : JoinsAt(c[2], d, gid[c[1]])'
    <3>1. gid' = gid /\ joins' = joins
      BY <1>2
    <3> QED  BY <2>1, <3>1 DEF JoinsAt
  <2>5. \A q \in Proc : \A o \in Obj : Home[o] = d /\ JoinsAt(q, d, gid[o])' => <<o, q>> \in objs
    <3>1. gid' = gid /\ joins' = joins
      BY <1>2
    <3> QED  BY <2>1, <3>1 DEF JoinsAt
  <2> QED  BY <2>1, <2>2, <2>3, <2>4, <2>5 DEF Told3, adds, objs
<1>23. Net3'
  <2>1. ASSUME NEW m \in net', m.phase = "phase3"
        PROVE  /\ env'[m.to] \in {"phase2", "phase3"} /\ m.from \in Proc
               /\ \A i \in m.items : /\ JoinsAt(m.to, m.from, i.gid)
                                     /\ i.proc \in Proc \ {m.to} /\ Copy(i.proc, i.gid) # {}
    <3>1. m \in net
      BY <1>17, <1>19, <2>1
    <3>2. /\ env[m.to] \in {"phase2", "phase3"} /\ m.to \in Proc /\ m.from \in Proc
          /\ \A i \in m.items : /\ JoinsAt(m.to, m.from, i.gid)
                                /\ i.proc \in Proc \ {m.to} /\ Copy(i.proc, i.gid) # {}
      BY <1>1, <2>1, <3>1 DEF NetInv, Net3
    <3> QED  BY <1>3, <3>2
  <2>2. ASSUME NEW q \in Proc, NEW d \in Proc, env'[d] = "phase3" \/ Passed(d, round[q])'
        PROVE  FALSE
    <3>1. env'[d] # "phase3" /\ round[q] = round[p]
      BY <1>3, <1>4
    <3> QED  BY <1>2, <1>3, <1>4, <2>2, <3>1 DEF Passed
  <2>3. \A m \in net' : \A i : JoinsAt(m.to, m.from, i.gid)' <=> JoinsAt(m.to, m.from, i.gid)
    BY <1>9
  <2> QED  BY <1>2, <1>9, <2>1, <2>2 DEF Net3
<1>24. NetInv'
  <2>1. \A m \in net' : m.from \in Proc /\ m.to \in Proc /\ m.phase \in Joins3
    BY <1>1, <1>17, <1>19 DEF NetInv
  <2>2. DOMAIN addCpl3' = Proc /\ DOMAIN joinObjs' = Proc
    BY <1>1, <1>2 DEF NetInv
  <2> QED  BY <1>20, <1>21, <1>22, <1>23, <2>1, <2>2 DEF NetInv
<1> QED  BY <1>9, <1>14, <1>15, <1>24 DEF ProtocolInv

LEMMA ToldIs ==
  ASSUME NEW p, NEW x, NEW objs
  PROVE  /\ \A t \in Told(p, x, objs) :
              t[1] \in objs /\ \E m \in net : m.phase = x /\ m.to = p
                                              /\ \E i \in m.items : i.gid = gid[t[1]] /\ i.proc = t[2]
         /\ \A o \in objs, m \in net : \A i \in m.items :
              m.phase = x /\ m.to = p /\ i.gid = gid[o]
              => \E t \in Told(p, x, objs) : t[1] = o /\ t[2] = i.proc
<1> DEFINE Of(o, m) == {<<o, i.proc, i.prio>> : i \in {y \in m.items : y.gid = gid[o]}}
<1>1. Told(p, x, objs) = UNION {Of(o, m) : o \in objs, m \in Received(p, x)}
  BY DEF Told
<1>2. \A o, m, t : t \in Of(o, m) <=> \E i \in m.items : i.gid = gid[o] /\ t = <<o, i.proc, i.prio>>
  OBVIOUS
<1> HIDE DEF Of
<1>3. ASSUME NEW t \in Told(p, x, objs)
      PROVE  t[1] \in objs /\ \E m \in net : m.phase = x /\ m.to = p
                                             /\ \E i \in m.items : i.gid = gid[t[1]] /\ i.proc = t[2]
  <2>1. PICK o \in objs, m \in Received(p, x) : t \in Of(o, m)
    BY <1>1
  <2>2. PICK i \in m.items : i.gid = gid[o] /\ t = <<o, i.proc, i.prio>>
    BY <1>2, <2>1
  <2> QED  BY <2>1, <2>2 DEF Received
<1>4. ASSUME NEW o \in objs, NEW m \in net, NEW i \in m.items, m.phase = x, m.to = p, i.gid = gid[o]
      PROVE  \E t \in Told(p, x, objs) : t[1] = o /\ t[2] = i.proc
  <2>1. <<o, i.proc, i.prio>> \in Of(o, m)
    BY <1>2, <1>4
  <2>2. m \in Received(p, x)
    BY <1>4 DEF Received
  <2>3. <<o, i.proc, i.prio>> \in Told(p, x, objs)
    BY <1>1, <2>1, <2>2
  <2> QED  BY <2>3
<1> QED  BY <1>3, <1>4

LEMMA AddingIs ==
  ASSUME NEW told
  PROVE  /\ \A o \in Obj : \A q : q \in DOMAIN Adding(told)[o] <=>
              q \in DOMAIN cpl[o] \/ \E t \in told : t[1] = o /\ t[2] = q
         /\ Adding(told) = [o \in Obj |-> [q \in DOMAIN Adding(told)[o] |-> Adding(told)[o][q]]]
<1> DEFINE Adds(o) == {<<t[2], t[3]>> : t \in {x \in told : x[1] = o}}
<1>1. Adding(told) = [o \in Obj |-> WithCouplings(cpl[o], Adds(o))]
  BY DEF Adding
<1>2. \A o, a : a \in Adds(o) <=> \E t \in told : t[1] = o /\ a = <<t[2], t[3]>>
  OBVIOUS
<1> HIDE DEF Adds
<1>3. ASSUME NEW o \in Obj, NEW q
      PROVE  q \in DOMAIN Adding(told)[o] <=> q \in DOMAIN cpl[o] \/ \E t \in told : t[1] = o /\ t[2] = q
  <2>1. Adding(told)[o] = WithCouplings(cpl[o], Adds(o))
    BY <1>1
  <2>3. ASSUME NEW a \in Adds(o), a[1] = q PROVE \E t \in told : t[1] = o /\ t[2] = q
    <3>1. PICK t \in told : t[1] = o /\ a = <<t[2], t[3]>>
      BY <1>2
    <3> QED  BY <2>3, <3>1
  <2>4. ASSUME NEW t \in told, t[1] = o, t[2] = q PROVE \E a \in Adds(o) : a[1] = q
    <3>1. <<t[2], t[3]>> \in Adds(o)
      BY <1>2, <2>4
    <3> QED  BY <2>4, <3>1
  <2> QED  BY <2>1, <2>3, <2>4, WithCouplingsDomain
<1>4. \A o \in Obj : Adding(told)[o] = [q \in DOMAIN Adding(told)[o] |-> Adding(told)[o][q]]
  <2> SUFFICES ASSUME NEW o \in Obj
               PROVE  Adding(told)[o] = [q \in DOMAIN Adding(told)[o] |-> Adding(told)[o][q]]
    OBVIOUS
  <2>1. Adding(told)[o] = WithCouplings(cpl[o], Adds(o))
    BY <1>1
  <2> QED  BY <2>1, WithCouplingsDomain
<1>5. Adding(told) = [o \in Obj |-> Adding(told)[o]]
  BY <1>1
<1> QED  BY <1>3, <1>4, <1>5

LEMMA UnpackPhase2Inv ==
  ASSUME ProtocolInv, NEW p \in Proc, UnpackPhase2(p)
  PROVE  ProtocolInv'
<1> USE DEF Joins3
<1>1. StageInv /\ Barriers /\ DataInv /\ OneCopy /\ JoinTypeInv /\ Unshared /\ KnownInv /\ NetInv
  BY DEF ProtocolInv
<1> DEFINE told == Told(p, "phase2", Coupled(p, cpl))
           items == addCpl3[p] \cup Forwards(p)
           msgs == MsgsFrom(p, "phase3", items)
<1>2. /\ Step(p, "phase2", "phase3") /\ Connected(p, "phase2")
      /\ cpl' = Adding(told)
      /\ addCpl3' = [addCpl3 EXCEPT ![p] = @ \cup Forwards(p)] /\ joinObjs' = joinObjs
      /\ net' = (net \ Received(p, "phase2")) \cup msgs
      /\ threw' = IF Misdirected(p, "phase2") \cup OfMyself(p, "phase2") = {} THEN threw ELSE threw \cup {p}
      /\ gid' = gid /\ joins' = joins /\ deleted' = deleted /\ round' = round
  BY DEF UnpackPhase2, Step
<1>3. env[p] = "phase2" /\ env'[p] = "phase3" /\ \A a \in Proc : a # p => env'[a] = env[a]
  BY <1>1, <1>2 DEF Step, StageInv
<1>4. \A q \in Proc : /\ round[q] = round[p] /\ round[p] \in Nat /\ ~Passed(q, round[p])
                      /\ env[q] \in {"phase2", "phase3"} /\ env[q] \in Joins3
  BY <1>1, <1>2, <1>3, UnpackStages
<1>5. /\ \A o \in Obj : cpl[o] # NoCouplings => gid[o] # NoGid /\ ~Joiner(o)
      /\ \A o \in Obj, q \in Proc : gid[o] # NoGid =>
           (q \in DOMAIN cpl[o] <=> /\ q # Home[o] /\ ~Joiner(o)
                                    /\ \E x \in Copy(q, gid[o]) : Introduced(x, Home[o]))
      /\ \A o \in Obj : DOMAIN cpl[o] \subseteq Proc
      /\ \A o, x \in Obj :
           cpl[o] # NoCouplings /\ gid[x] = gid[o] /\ Home[x] # Home[o] /\ ~Joiner(x)
           => Home[x] \in DOMAIN cpl[o] /\ cpl[x] # NoCouplings
      /\ \A q, d \in Proc : \A g : JoinsAt(q, d, g) =>
           q # d /\ g \in Nat /\ g # NoGid /\ Owner(d, g)
           /\ \E x \in Copy(q, g) : Joiner(x) /\ \E j \in joins[q] : j.obj = x /\ j.dest = d
      /\ \A x \in Obj, q, d \in Proc : \A j \in joins[q] :
           Home[x] = q /\ j.obj = x => gid[x] = j.gid /\ Joiner(x)
  BY <1>1, <1>4, JoinCouplings
<1>6. \A q, g : \A x : x \in Copy(q, g) <=> x \in Obj /\ Home[x] = q /\ gid[x] = g /\ g # NoGid
  BY DEF Copy, Copies
(* Whoever joins an object does not own it, and joins it once. *)
<1>7. \A q, d \in Proc : \A g : JoinsAt(q, d, g) => ~Owner(q, g)
  <2> SUFFICES ASSUME NEW q \in Proc, NEW d \in Proc, NEW g, JoinsAt(q, d, g), Owner(q, g) PROVE FALSE
    OBVIOUS
  <2>1. PICK x \in Copy(q, g) : Joiner(x)
    BY <1>5
  <2>2. PICK y \in Copy(q, g) : cpl[y] # NoCouplings
    BY DEF Owner
  <2>3. x = y
    BY <1>1, <1>6, <2>1, <2>2 DEF OneCopy
  <2> QED  BY <1>5, <1>6, <2>1, <2>2, <2>3
<1>8. \A q, d, b \in Proc : \A g : JoinsAt(q, d, g) /\ JoinsAt(q, b, g) => d = b
  BY <1>1 DEF JoinTypeInv, JoinsAt
<1>9. \A q, b, d \in Proc : \A g : JoinsAt(q, d, g) /\ JoinsAt(b, d, g) => q = b
  BY <1>1 DEF Unshared, JoinsAt
(* Of whom p is told. *)
<1>10. ASSUME NEW o \in Obj, Home[o] = p, cpl[o] # NoCouplings, NEW q \in Proc, NEW d \in Proc,
              JoinsAt(q, d, gid[o]), d # p
       PROVE  ItemOf("phase2", d, p, gid[o], q)
  <2>1. Owner(p, gid[o]) /\ gid[o] \in Nat
    BY <1>5, <1>6, <1>10 DEF Owner
  <2> QED  BY <1>1, <1>3, <1>4, <1>10, <2>1 DEF NetInv, Net2
<1>11. \A m \in net : m.phase = "phase2" /\ m.to = p =>
         /\ m.from \in Proc /\ m.from # p
         /\ \A i \in m.items : i.proc \in Proc /\ JoinsAt(i.proc, m.from, i.gid) /\ Owner(p, i.gid)
  BY <1>1 DEF NetInv, Net2
<1>12. ASSUME NEW o \in Obj, NEW q
       PROVE  q \in DOMAIN cpl'[o] <=> \/ q \in DOMAIN cpl[o]
                                       \/ /\ Home[o] = p /\ cpl[o] # NoCouplings /\ q \in Proc
                                          /\ \E d \in Proc \ {p} : JoinsAt(q, d, gid[o])
  <2>1. q \in DOMAIN cpl'[o] <=> q \in DOMAIN cpl[o] \/ \E t \in told : t[1] = o /\ t[2] = q
    BY <1>2, AddingIs
  <2>2. ASSUME NEW t \in told, t[1] = o, t[2] = q
        PROVE  /\ Home[o] = p /\ cpl[o] # NoCouplings /\ q \in Proc
               /\ \E d \in Proc \ {p} : JoinsAt(q, d, gid[o])
    <3>1. o \in Coupled(p, cpl)
      BY <2>2, ToldIs
    <3>2. PICK m \in net : m.phase = "phase2" /\ m.to = p /\ \E i \in m.items : i.gid = gid[o] /\ i.proc = q
      BY <2>2, ToldIs
    <3> QED  BY <1>11, <3>1, <3>2 DEF Coupled
  <2>3. ASSUME Home[o] = p, cpl[o] # NoCouplings, q \in Proc, NEW d \in Proc \ {p}, JoinsAt(q, d, gid[o])
        PROVE  \E t \in told : t[1] = o /\ t[2] = q
    <3>1. o \in Coupled(p, cpl)
      BY <2>3 DEF Coupled
    <3>2. PICK m \in net : m.phase = "phase2" /\ m.to = p /\ \E i \in m.items : i.gid = gid[o] /\ i.proc = q
      BY <1>10, <2>3 DEF ItemOf
    <3>3. PICK i \in m.items : i.gid = gid[o] /\ i.proc = q
      BY <3>2
    <3> QED  BY <3>1, <3>2, <3>3, ToldIs
  <2> QED  BY <2>1, <2>2, <2>3
<1>13. cpl' = [o \in Obj |-> [q \in DOMAIN cpl'[o] |-> cpl'[o][q]]]
  BY <1>2, AddingIs
<1> HIDE DEF told, items, msgs
<1>14. Unpacking(p)
  <2>1. \A o \in Obj : DOMAIN cpl'[o] = {} <=> DOMAIN cpl[o] = {}
    <3>1. \A o \in Obj : cpl[o] = NoCouplings <=> DOMAIN cpl[o] = {}
      BY <1>1, CoupledIff
    <3> QED  BY <1>12, <3>1
  <2> QED  BY <1>2, <1>13, <2>1 DEF Unpacking
<1>15. /\ StageInv' /\ Barriers' /\ DataInv' /\ GoneInv' /\ OneCopy' /\ JoinTypeInv' /\ Unshared'
       /\ \A q, g : Copy(q, g)' = Copy(q, g) /\ (Owner(q, g)' <=> Owner(q, g))
       /\ \A q, d, g : JoinsAt(q, d, g)' <=> JoinsAt(q, d, g)
       /\ \A x \in Obj : Joiner(x)' <=> Joiner(x)
       /\ \A a \in Proc : round[a] \in Nat /\ \A k : Passed(a, k)' <=> Passed(a, k)
  BY <1>14, UnpackingKeeps
<1>16. KnownInv'
  <2>1. \A x \in Obj : Home[x] \in Proc
    BY InterfacesAssumption
  <2>2. \A a \in Proc : env'[a] # "xfer"
    BY <1>3, <1>4
  <2> SUFFICES ASSUME NEW o \in Obj, gid[o] # NoGid, NEW q \in Proc PROVE q \in DOMAIN cpl'[o] <=> Knows(o, q)'
    <3>1. \A o \in Obj : DOMAIN cpl'[o] \subseteq Proc
      BY <1>5, <1>12
    <3> QED  BY <1>2, <3>1 DEF KnownInv
  <2>3. Knows(o, q)' <=> q # Home[o] /\ ~Joiner(o) /\ \E x \in Copy(q, gid[o]) : Introduced(x, Home[o])'
    <3>1. \A x \in Copy(q, gid[o]) : ~Going(x, Home[o])'
      BY <1>6, <2>1, <2>2 DEF Going
    <3>2. Copy(q, gid[o])' = Copy(q, gid[o])
      BY <1>2 DEF Copy, Copies
    <3> QED  BY <1>15, <2>1, <2>2, <3>1, <3>2 DEF Knows
  <2>4. q \in DOMAIN cpl[o] <=> q # Home[o] /\ ~Joiner(o) /\ \E x \in Copy(q, gid[o]) : Introduced(x, Home[o])
    BY <1>5
  <2>5. CASE Home[o] # p
    <3>1. q \in DOMAIN cpl'[o] <=> q \in DOMAIN cpl[o]
      BY <1>12, <2>5
    <3>2. \A x \in Copy(q, gid[o]) : Introduced(x, Home[o])' <=> Introduced(x, Home[o])
      <4> SUFFICES ASSUME NEW x \in Copy(q, gid[o]) PROVE Introduced(x, Home[o])' <=> Introduced(x, Home[o])
        OBVIOUS
      <4>1. x \in Obj /\ Home[x] = q
        BY <1>6
      <4>2. env'[Home[o]] = env[Home[o]]
        BY <1>3, <2>1, <2>5
      <4> QED  BY <1>2, <1>15, <2>1, <4>1, <4>2 DEF Introduced
    <3> QED  BY <2>3, <2>4, <3>1, <3>2
  <2>6. CASE Home[o] = p
    <3>1. \A x \in Copy(q, gid[o]) : Introduced(x, p)'
      BY <1>3 DEF Introduced
    <3>2. ASSUME NEW x \in Copy(q, gid[o]), ~Introduced(x, p), ~Joiner(o)
          PROVE  cpl[o] # NoCouplings /\ \E d \in Proc \ {p} : JoinsAt(q, d, gid[o])
      <4>1. x \in Obj /\ Home[x] = q /\ gid[x] = gid[o] /\ Joiner(x)
        BY <1>6, <3>2 DEF Introduced
      <4>2. PICK j \in joins[q] : j.obj = x
        BY <4>1 DEF Joiner
      <4>3. j.dest # p /\ j.dest \in Proc /\ j.gid = gid[o]
        BY <1>1, <1>3, <1>5, <3>2, <4>1, <4>2 DEF Introduced, JoinTypeInv
      <4>4. JoinsAt(q, j.dest, gid[o])
        BY <4>3 DEF JoinsAt
      <4>5. PICK y \in Copy(j.dest, gid[o]) : cpl[y] # NoCouplings
        BY <1>5, <4>3, <4>4 DEF Owner
      <4>6. cpl[o] # NoCouplings
        BY <1>5, <1>6, <2>6, <3>2, <4>3, <4>5
      <4> QED  BY <4>3, <4>4, <4>6
    <3>3. ASSUME cpl[o] # NoCouplings, NEW d \in Proc \ {p}, JoinsAt(q, d, gid[o])
          PROVE  q # p /\ ~Joiner(o) /\ Copy(q, gid[o]) # {}
      <4>1. Owner(p, gid[o])
        BY <1>5, <1>6, <2>6, <3>3 DEF Owner
      <4> QED  BY <1>5, <1>7, <3>3, <4>1
    <3>4. q \in DOMAIN cpl'[o] <=> \/ q \in DOMAIN cpl[o]
                                   \/ cpl[o] # NoCouplings /\ \E d \in Proc \ {p} : JoinsAt(q, d, gid[o])
      BY <1>12, <2>6
    <3>5. q # p /\ ~Joiner(o) /\ Copy(q, gid[o]) # {} => q \in DOMAIN cpl'[o]
      BY <2>4, <2>6, <3>2, <3>4
    <3>6. q \in DOMAIN cpl'[o] => q # p /\ ~Joiner(o) /\ Copy(q, gid[o]) # {}
      BY <2>4, <2>6, <3>3, <3>4
    <3> QED  BY <2>3, <2>6, <3>1, <3>5, <3>6
  <2> QED  BY <2>5, <2>6
<1>17. threw' = {}
  <2>1. Misdirected(p, "phase2") = {}
    <3> SUFFICES ASSUME NEW m \in Received(p, "phase2"), NEW i \in m.items
                 PROVE  Copy(p, i.gid) \cap Coupled(p, cpl) # {}
      BY DEF Misdirected
    <3>1. PICK y \in Copy(p, i.gid) : cpl[y] # NoCouplings
      BY <1>11 DEF Owner, Received
    <3>2. y \in Coupled(p, cpl)
      BY <1>6, <3>1 DEF Coupled
    <3> QED  BY <3>1, <3>2
  <2>2. OfMyself(p, "phase2") = {}
    <3> SUFFICES ASSUME NEW m \in Received(p, "phase2"), NEW i \in m.items, i.proc = p PROVE FALSE
      BY DEF OfMyself
    <3> QED  BY <1>7, <1>11 DEF Received
  <2> QED  BY <1>2, <2>1, <2>2 DEF ProtocolInv
<1>18. Told3(p)
  BY <1>1, <1>3 DEF NetInv, Tasks

<1>19. \A k : k \in Forwards(p) <=> \E c \in joinObjs[p], m \in net : \E i \in m.items :
         m.phase = "phase2" /\ m.to = p /\ i.gid = gid[c[1]] /\ FirstOfItsObject(i, m)
         /\ k = Item(c[2], i.gid, i.proc, i.prio)
  <2> DEFINE Of(c, m) == {Item(c[2], i.gid, i.proc, i.prio) : i \in {x \in m.items : x.gid = gid[c[1]] /\ FirstOfItsObject(x, m)}}
  <2>1. Forwards(p) = UNION {Of(c, m) : c \in joinObjs[p], m \in Received(p, "phase2")}
    BY DEF Forwards
  <2>2. \A c, m, k : k \in Of(c, m) <=> \E i \in m.items :
          i.gid = gid[c[1]] /\ FirstOfItsObject(i, m) /\ k = Item(c[2], i.gid, i.proc, i.prio)
    OBVIOUS
  <2>3. \A m : m \in Received(p, "phase2") <=> m \in net /\ m.to = p /\ m.phase = "phase2"
    BY DEF Received
  <2> HIDE DEF Of
  <2>4. \A k : k \in Forwards(p) <=> \E c \in joinObjs[p], m \in Received(p, "phase2") : k \in Of(c, m)
    BY <2>1
  <2> QED  BY <2>2, <2>3, <2>4
<1>20. ASSUME NEW i \in items
       PROVE  /\ i.dest \in Proc /\ JoinsAt(i.dest, p, i.gid)
              /\ i.proc \in Proc \ {i.dest} /\ Copy(i.proc, i.gid) # {}
  <2>1. CASE i \in addCpl3[p]
    <3>1. i.proc \in Proc /\ i.dest \in Proc /\ JoinsAt(i.dest, p, i.gid) /\ Owner(i.proc, i.gid)
      BY <1>18, <2>1 DEF Told3
    <3> QED  BY <1>7, <3>1 DEF Owner
  <2>2. CASE i \in Forwards(p)
    <3>1. PICK c \in joinObjs[p], m \in net : \E k \in m.items :
            m.phase = "phase2" /\ m.to = p /\ k.gid = gid[c[1]] /\ i = Item(c[2], k.gid, k.proc, k.prio)
      BY <1>19, <2>2
    <3>2. PICK k \in m.items :
            m.phase = "phase2" /\ m.to = p /\ k.gid = gid[c[1]] /\ i = Item(c[2], k.gid, k.proc, k.prio)
      BY <3>1
    <3>3. i.dest = c[2] /\ i.gid = gid[c[1]] /\ i.proc = k.proc
      BY <3>2 DEF Item
    <3>4. c[2] \in Proc /\ JoinsAt(c[2], p, gid[c[1]])
      BY <1>18 DEF Told3
    <3>5. k.proc \in Proc /\ m.from \in Proc \ {p} /\ JoinsAt(k.proc, m.from, gid[c[1]])
      BY <1>11, <3>2
    <3>6. k.proc # c[2]
      BY <1>8, <3>4, <3>5
    <3>7. Copy(k.proc, gid[c[1]]) # {}
      BY <1>5, <3>5
    <3> QED  BY <3>3, <3>4, <3>5, <3>6, <3>7
  <2> QED  BY <2>1, <2>2 DEF items
<1>21. ASSUME NEW q \in Proc, NEW g \in Nat, JoinsAt(q, p, g), NEW r \in Proc, r # q, Copy(r, g) # {}
       PROVE  \E i \in items : i.dest = q /\ i.gid = g /\ i.proc = r
  <2>1. PICK y \in Copy(p, g) : cpl[y] # NoCouplings
    BY <1>5, <1>21 DEF Owner
  <2>2. PICK x \in Copy(r, g) : TRUE
    BY <1>21
  <2>3. y \in Obj /\ Home[y] = p /\ gid[y] = g /\ x \in Obj /\ Home[x] = r /\ gid[x] = g
    BY <1>6
  <2>4. CASE ~Joiner(x)
    <3>1. Owner(r, g)
      <4>1. CASE r = p
        BY <2>1, <4>1 DEF Owner
      <4>2. CASE r # p
        <5>1. cpl[x] # NoCouplings
          BY <1>5, <2>1, <2>3, <2>4, <4>2
        <5> QED  BY <2>2, <5>1 DEF Owner
      <4> QED  BY <4>1, <4>2
    <3> QED  BY <1>18, <1>21, <3>1 DEF Told3, items
  <2>5. CASE Joiner(x)
    <3>1. PICK j \in joins[r] : j.obj = x
      BY <2>3, <2>5 DEF Joiner
    <3>2. j.dest \in Proc /\ j.gid = g /\ JoinsAt(r, j.dest, g)
      BY <1>1, <1>5, <2>3, <3>1 DEF JoinTypeInv, JoinsAt
    <3>3. j.dest # p
      BY <1>9, <1>21, <3>2
    <3>4. ItemOf("phase2", j.dest, p, g, r)
      BY <1>10, <2>1, <2>3, <3>2, <3>3
    <3>5. PICK m \in net : m.phase = "phase2" /\ m.to = p /\ \E i \in m.items : i.gid = g /\ i.proc = r
      BY <3>4 DEF ItemOf
    <3>6. PICK i \in m.items : i.gid = g /\ i.proc = r
      BY <3>5
    <3>7. FirstOfItsObject(i, m)
      <4> SUFFICES ASSUME NEW k \in m.items, k.gid = i.gid PROVE i.proc <= k.proc
        BY DEF FirstOfItsObject
      <4>1. k.proc \in Proc /\ JoinsAt(k.proc, m.from, g) /\ JoinsAt(r, m.from, g) /\ m.from \in Proc
        BY <1>11, <3>5, <3>6
      <4>2. k.proc = r /\ r \in Nat
        BY <1>9, <4>1, InterfacesAssumption
      <4> QED  BY <3>6, <4>2
    <3>8. <<y, q>> \in joinObjs[p]
      BY <1>18, <1>21, <2>3 DEF Told3
    <3>9. Item(q, g, r, i.prio) \in Forwards(p)
      <4>1. <<y, q>>[1] = y /\ <<y, q>>[2] = q
        OBVIOUS
      <4> QED  BY <1>19, <2>3, <3>5, <3>6, <3>7, <3>8, <4>1
    <3> QED  BY <3>9 DEF items, Item
  <2> QED  BY <2>4, <2>5
<1>22. \A m \in msgs : /\ m.from = p /\ m.phase = "phase3" /\ m.to \in Proc
                       /\ \A i \in m.items : /\ JoinsAt(m.to, p, i.gid)
                                             /\ i.proc \in Proc \ {m.to} /\ Copy(i.proc, i.gid) # {}
  <2> SUFFICES ASSUME NEW m \in msgs
               PROVE  /\ m.from = p /\ m.phase = "phase3" /\ m.to \in Proc
                      /\ \A i \in m.items : /\ JoinsAt(m.to, p, i.gid)
                                            /\ i.proc \in Proc \ {m.to} /\ Copy(i.proc, i.gid) # {}
    OBVIOUS
  <2>1. /\ m.from = p /\ m.phase = "phase3" /\ m.items # {}
        /\ \A i : i \in m.items <=> i \in items /\ i.dest = m.to
    BY MsgsFromItems DEF msgs
  <2> QED  BY <1>20, <2>1
<1>23. /\ \A m : m \in net' => m \in net \/ m \in msgs
       /\ \A m \in net : m.to # p \/ m.phase # "phase2" => m \in net'
       /\ \A m \in msgs : m \in net'
       /\ \A m \in net' : m.phase = "phase2" => m \in net /\ m.to # p
  BY <1>2, <1>22 DEF Received
<1>24. Net1'
  <2>1. \A m \in net' : m.phase # "phase1"
    <3>1. \A m \in net : m.phase = "phase1" => m.to \in Proc /\ env[m.to] \in {"joinCmds", "phase1"}
      BY <1>1 DEF NetInv, Net1
    <3> QED  BY <1>4, <1>22, <1>23, <3>1
  <2>2. \A d \in Proc : env'[d] \notin {"joinCmds", "phase1"}
    BY <1>3, <1>4
  <2> QED  BY <2>1, <2>2 DEF Net1
<1>25. Net2'
  <2>1. ASSUME NEW m \in net', m.phase = "phase2"
        PROVE  /\ env'[m.from] \in {"phase2", "phase3"} /\ env'[m.to] \in {"phase1", "phase2"}
               /\ round[m.to] = round[m.from] /\ m.items # {} /\ m.from # m.to
               /\ \A i \in m.items : i.proc \in Proc /\ JoinsAt(i.proc, m.from, i.gid) /\ Owner(m.to, i.gid)
    <3>1. m \in net /\ m.to # p
      BY <1>23, <2>1
    <3>2. /\ env[m.from] \in {"phase2", "phase3"} /\ env[m.to] \in {"phase1", "phase2"}
          /\ round[m.to] = round[m.from] /\ m.items # {} /\ m.from # m.to /\ m.from \in Proc /\ m.to \in Proc
          /\ \A i \in m.items : i.proc \in Proc /\ JoinsAt(i.proc, m.from, i.gid) /\ Owner(m.to, i.gid)
      BY <1>1, <2>1, <3>1 DEF NetInv, Net2
    <3> QED  BY <1>3, <3>1, <3>2
  <2>2. ASSUME NEW q \in Proc, NEW d \in Proc, NEW a \in Proc, NEW g \in Nat, JoinsAt(q, d, g),
               env'[d] \in {"phase2", "phase3"}, env'[a] \in {"phase1", "phase2"},
               round[a] = round[q], a # d, Owner(a, g)
        PROVE  \E m \in net' : m.phase = "phase2" /\ m.from = d /\ m.to = a
                               /\ \E i \in m.items : i.gid = g /\ i.proc = q
    <3>1. a # p /\ env[a] \in {"phase1", "phase2"} /\ env[d] \in {"phase2", "phase3"}
      BY <1>3, <1>4, <2>2
    <3>2. ItemOf("phase2", d, a, g, q)
      BY <1>1, <2>2, <3>1 DEF NetInv, Net2
    <3> QED  BY <1>23, <3>1, <3>2 DEF ItemOf
  <2>3. \A q, d, a \in Proc, g \in Nat : ItemOf("phase2", d, a, g, q)' <=>
          \E m \in net' : m.phase = "phase2" /\ m.from = d /\ m.to = a
                          /\ \E i \in m.items : i.gid = g /\ i.proc = q
    BY DEF ItemOf
  <2> QED  BY <1>2, <1>15, <2>1, <2>2, <2>3 DEF Net2
<1>26. Tasks'
  <2> SUFFICES ASSUME NEW d \in Proc, env'[d] = "phase2" PROVE Told3(d)'
    BY DEF Tasks
  <2>1. d # p /\ env[d] = "phase2"
    BY <1>3
  <2>2. addCpl3'[d] = addCpl3[d] /\ joinObjs'[d] = joinObjs[d] /\ Told3(d)
    BY <1>1, <1>2, <2>1 DEF NetInv, Tasks
  <2>3. \A i \in addCpl3[d] : JoinsAt(i.dest, d, i.gid)' /\ Owner(i.proc, i.gid)'
    BY <1>15, <2>2 DEF Told3
  <2>4. \A q, r \in Proc : \A g \in Nat : JoinsAt(q, d, g)' /\ Owner(r, g)' =>
          \E i \in addCpl3[d] : i.dest = q /\ i.gid = g /\ i.proc = r
    BY <1>15, <2>2 DEF Told3
  <2>5. gid' = gid /\ joins' = joins
    BY <1>2
  <2>6. \A c \in joinObjs[d] : JoinsAt(c[2], d, gid[c[1]])'
    <3>1. \A c \in joinObjs[d] : JoinsAt(c[2], d, gid[c[1]])
      BY <2>2 DEF Told3
    <3> QED  BY <2>5, <3>1 DEF JoinsAt
  <2>7. \A q \in Proc : \A o \in Obj : Home[o] = d /\ JoinsAt(q, d, gid[o])' => <<o, q>> \in joinObjs[d]
    <3>1. \A q \in Proc : \A o \in Obj : Home[o] = d /\ JoinsAt(q, d, gid[o]) => <<o, q>> \in joinObjs[d]
      BY <2>2 DEF Told3
    <3> QED  BY <2>5, <3>1 DEF JoinsAt
  <2> QED  BY <2>2, <2>3, <2>4, <2>6, <2>7 DEF Told3
<1>27. Net3'
  <2>1. ASSUME NEW m \in net', m.phase = "phase3"
        PROVE  /\ env'[m.to] \in {"phase2", "phase3"} /\ m.from \in Proc
               /\ \A i \in m.items : /\ JoinsAt(m.to, m.from, i.gid)
                                     /\ i.proc \in Proc \ {m.to} /\ Copy(i.proc, i.gid) # {}
    <3>1. CASE m \in net
      <4>1. /\ env[m.to] \in {"phase2", "phase3"} /\ m.to \in Proc /\ m.from \in Proc
            /\ \A i \in m.items : /\ JoinsAt(m.to, m.from, i.gid)
                                  /\ i.proc \in Proc \ {m.to} /\ Copy(i.proc, i.gid) # {}
        BY <1>1, <2>1, <3>1 DEF NetInv, Net3
      <4> QED  BY <1>3, <4>1
    <3>2. CASE m \in msgs
      BY <1>3, <1>4, <1>22, <3>2
    <3> QED  BY <1>23, <3>1, <3>2
  <2>2. ASSUME NEW q \in Proc, NEW d \in Proc, NEW r \in Proc, NEW g \in Nat, JoinsAt(q, d, g),
               env'[d] = "phase3" \/ Passed(d, round[q])', r # q, Copy(r, g) # {}
        PROVE  \E m \in net' : m.phase = "phase3" /\ m.from = d /\ m.to = q
                               /\ \E i \in m.items : i.gid = g /\ i.proc = r
    <3>1. CASE d = p
      <4>1. PICK i \in items : i.dest = q /\ i.gid = g /\ i.proc = r
        BY <1>21, <2>2, <3>1
      <4>2. \E m \in msgs : m.phase = "phase3" /\ m.from = p /\ m.to = q /\ i \in m.items
        BY <4>1, MsgsFromItems DEF msgs
      <4> QED  BY <1>23, <3>1, <4>1, <4>2
    <3>2. CASE d # p
      <4>1. env[d] = "phase3" \/ Passed(d, round[q])
        BY <1>2, <1>3, <2>2, <3>2 DEF Passed
      <4>2. ItemOf("phase3", d, q, g, r)
        BY <1>1, <2>2, <4>1 DEF NetInv, Net3
      <4> QED  BY <1>23, <4>2 DEF ItemOf
    <3> QED  BY <3>1, <3>2
  <2>3. \A q, d, r \in Proc, g \in Nat : ItemOf("phase3", d, q, g, r)' <=>
          \E m \in net' : m.phase = "phase3" /\ m.from = d /\ m.to = q
                          /\ \E i \in m.items : i.gid = g /\ i.proc = r
    BY DEF ItemOf
  <2> QED  BY <1>2, <1>15, <2>1, <2>2, <2>3 DEF Net3
<1>28. NetInv'
  <2>1. \A m \in net' : m.from \in Proc /\ m.to \in Proc /\ m.phase \in Joins3
    BY <1>1, <1>22, <1>23 DEF NetInv
  <2>2. DOMAIN addCpl3' = Proc /\ DOMAIN joinObjs' = Proc
    BY <1>1, <1>2 DEF NetInv
  <2> QED  BY <1>24, <1>25, <1>26, <1>27, <2>1, <2>2 DEF NetInv
<1> QED  BY <1>15, <1>16, <1>17, <1>28 DEF ProtocolInv

LEMMA JoinEndReturnsInv ==
  ASSUME ProtocolInv, NEW p \in Proc, JoinEndReturns(p)
  PROVE  ProtocolInv'
<1> USE DEF Joins3, JoinEnvs
<1>1. StageInv /\ Barriers /\ DataInv /\ GoneInv /\ OneCopy /\ JoinTypeInv /\ Unshared /\ KnownInv /\ NetInv
  BY DEF ProtocolInv
<1> DEFINE joined == {j.obj : j \in joins[p]}
           told == Told(p, "phase3", joined)
           strangers == UNION {{i \in m.items : ~\E o \in joined : gid[o] = i.gid} : m \in Received(p, "phase3")}
<1>2. /\ Step(p, "phase3", "idle") /\ Connected(p, "phase3")
      /\ cpl' = Adding(told)
      /\ net' = net \ Received(p, "phase3")
      /\ joins' = [joins EXCEPT ![p] = {}]
      /\ threw' = IF strangers \cup OfMyself(p, "phase3") = {} THEN threw ELSE threw \cup {p}
      /\ gid' = gid /\ deleted' = deleted /\ round' = round /\ program' = program
  BY DEF JoinEndReturns, Step
<1>3. /\ env[p] = "phase3" /\ env'[p] = "idle" /\ \A a \in Proc : a # p => env'[a] = env[a]
      /\ joins'[p] = {} /\ \A a \in Proc : a # p => joins'[a] = joins[a]
  BY <1>1, <1>2 DEF Step, StageInv, JoinTypeInv
<1>4. StageInv' /\ Barriers'
  BY <1>1, <1>2, OnwardStages DEF Onward
<1>5. PICK r : r = round[p] /\ r \in 1 .. Len(program) /\ program[r] = "join"
  BY <1>1, <1>3 DEF StageInv
(* The others are in the last phase, too, or through; in a later environment *)
(* they cannot do much yet.                                                  *)
<1>6. \A q \in Proc : /\ round[q] \in Nat /\ round[q] >= r
                      /\ (round[q] = r /\ env[q] = "phase3") \/ Passed(q, r)
  <2> SUFFICES ASSUME NEW q \in Proc
               PROVE  /\ round[q] \in Nat /\ round[q] >= r
                      /\ (round[q] = r /\ env[q] = "phase3") \/ Passed(q, r)
    OBVIOUS
  <2>1. /\ round[q] >= r
        /\ round[q] = r => env[q] \in {"phase3", "idle"}
    BY <1>1, <1>2, <1>3, <1>5, ConnectedStages
  <2>2. round[q] \in Nat /\ (Passed(q, r) <=> round[q] > r \/ (round[q] = r /\ env[q] = "idle"))
    BY <1>1 DEF StageInv, Passed
  <2> QED  BY <1>5, <2>1, <2>2
<1>7. \A q \in Proc : joins[q] # {} => round[q] = r /\ env[q] = "phase3"
  <2> SUFFICES ASSUME NEW q \in Proc, joins[q] # {} PROVE round[q] = r /\ env[q] = "phase3"
    OBVIOUS
  <2>1. env[q] \in JoinEnvs /\ r >= round[q]
    BY <1>1, <1>5 DEF JoinTypeInv
  <2>2. ~Passed(q, r)
    BY <1>5, <1>6, <2>1 DEF Passed
  <2> QED  BY <1>6, <2>2
<1>8. \A q \in Proc : env[q] \in {"phase2", "phase3"} => round[q] = r /\ env[q] = "phase3"
  <2> SUFFICES ASSUME NEW q \in Proc, env[q] \in {"phase2", "phase3"} PROVE round[q] = r /\ env[q] = "phase3"
    OBVIOUS
  <2>1. r >= round[q]
    BY <1>1, <1>5 DEF Barriers, Barrier
  <2>2. ~Passed(q, r)
    BY <1>5, <1>6, <2>1 DEF Passed
  <2> QED  BY <1>6, <2>2
<1>9. \A q \in Proc : env[q] \in {"joinCmds", "phase1"} => round[q] # r
  BY <1>5, <1>6 DEF Passed
<1>10. \A a \in Proc : \A k : k # r => (Passed(a, k)' <=> Passed(a, k))
  BY <1>2, <1>3, <1>5 DEF Passed
<1>11. \A a \in Proc : a # p => \A k : Passed(a, k)' <=> Passed(a, k)
  BY <1>2, <1>3 DEF Passed
<1>12. Passed(p, r)'
  BY <1>2, <1>3, <1>5 DEF Passed
(* No copy is gone without p knowing. *)
<1>13. \A q \in Proc : env[q] = "xfer" => \A a \in Proc : ~Passed(a, round[q]) /\ ~Passed(a, round[q])'
  <2> SUFFICES ASSUME NEW q \in Proc, env[q] = "xfer", NEW a \in Proc
               PROVE  ~Passed(a, round[q]) /\ ~Passed(a, round[q])'
    OBVIOUS
  <2>1. round[q] \in 1 .. Len(program) /\ program[round[q]] = "xfer"
    BY <1>1 DEF StageInv
  <2>2. round[q] # r /\ round[q] > r
    BY <1>5, <1>6, <2>1
  <2>3. Barrier(a, p)
    BY <1>1 DEF Barriers
  <2>4. ~Passed(a, round[q])
    BY <1>5, <2>1, <2>2, <2>3 DEF Barrier
  <2>5. round'[q] = round[q]
    BY <1>2
  <2> QED  BY <1>10, <2>2, <2>4, <2>5
<1>14. \A j \in joins[p] : /\ j.obj \in Obj /\ Home[j.obj] = p /\ j.dest \in Proc /\ j.gid \in Nat /\ j.gid # NoGid
                           /\ gid[j.obj] = j.gid /\ cpl[j.obj] = NoCouplings
  BY <1>1, <1>3, JoinAssumption DEF JoinTypeInv, NoGid
<1>15. \A q, g : Copy(q, g)' = Copy(q, g) /\ \A x : x \in Copy(q, g) <=> x \in Obj /\ Home[x] = q /\ gid[x] = g /\ g # NoGid
  BY <1>2 DEF Copy, Copies
<1>16. \A q \in Proc : \A d, g : JoinsAt(q, d, g)' <=> q # p /\ JoinsAt(q, d, g)
  BY <1>3 DEF JoinsAt
<1>17. \A q \in Proc : \A d, g : JoinsAt(q, d, g) => joins[q] # {} /\ d \in Proc /\ g \in Nat /\ g # NoGid
  BY <1>1 DEF JoinsAt, JoinTypeInv, NoGid
(* Of whom p is told: of all other copies. *)
<1>18. \A m \in net : m.phase = "phase3" /\ m.to = p =>
         \A i \in m.items : JoinsAt(p, m.from, i.gid) /\ i.proc \in Proc \ {p} /\ Copy(i.proc, i.gid) # {}
  BY <1>1 DEF NetInv, Net3
<1>19. ASSUME NEW o \in Obj, NEW q
       PROVE  q \in DOMAIN cpl'[o] <=> \/ q \in DOMAIN cpl[o]
                                       \/ o \in joined /\ q \in Proc \ {p} /\ Copy(q, gid[o]) # {}
  <2>1. q \in DOMAIN cpl'[o] <=> q \in DOMAIN cpl[o] \/ \E t \in told : t[1] = o /\ t[2] = q
    <3> HIDE DEF told
    <3> QED  BY <1>2, AddingIs
  <2>2. ASSUME NEW t \in told, t[1] = o, t[2] = q
        PROVE  o \in joined /\ q \in Proc \ {p} /\ Copy(q, gid[o]) # {}
    <3>1. o \in joined
      BY <2>2, ToldIs
    <3>2. PICK m \in net : m.phase = "phase3" /\ m.to = p /\ \E i \in m.items : i.gid = gid[o] /\ i.proc = q
      BY <2>2, ToldIs
    <3> QED  BY <1>18, <3>1, <3>2
  <2>3. ASSUME o \in joined, q \in Proc \ {p}, Copy(q, gid[o]) # {}
        PROVE  \E t \in told : t[1] = o /\ t[2] = q
    <3>1. PICK j \in joins[p] : j.obj = o
      BY <2>3
    <3>2. JoinsAt(p, j.dest, gid[o]) /\ j.dest \in Proc /\ gid[o] \in Nat
      BY <1>14, <3>1 DEF JoinsAt
    <3>3. env[j.dest] = "phase3" \/ Passed(j.dest, round[p])
      BY <1>5, <1>6, <3>2
    <3>4. ItemOf("phase3", j.dest, p, gid[o], q)
      BY <1>1, <2>3, <3>2, <3>3 DEF NetInv, Net3
    <3>5. PICK m \in net : m.phase = "phase3" /\ m.to = p /\ \E i \in m.items : i.gid = gid[o] /\ i.proc = q
      BY <3>4 DEF ItemOf
    <3>6. PICK i \in m.items : i.gid = gid[o] /\ i.proc = q
      BY <3>5
    <3> HIDE DEF joined
    <3> QED  BY <2>3, <3>5, <3>6, ToldIs
  <2> QED  BY <2>1, <2>2, <2>3
<1>20. cpl' = [o \in Obj |-> [q \in DOMAIN cpl'[o] |-> cpl'[o][q]]]
  BY <1>2, AddingIs
<1>21. \A o : o \in joined <=> \E j \in joins[p] : j.obj = o
  OBVIOUS
<1>22. threw' = {}
  <2>1. strangers = {}
    <3> SUFFICES ASSUME NEW m \in Received(p, "phase3"), NEW i \in m.items PROVE \E o \in joined : gid[o] = i.gid
      OBVIOUS
    <3>1. PICK j \in joins[p] : j.gid = i.gid
      BY <1>18 DEF Received, JoinsAt
    <3> QED  BY <1>14, <3>1
  <2>2. OfMyself(p, "phase3") = {}
    <3> SUFFICES ASSUME NEW m \in Received(p, "phase3"), NEW i \in m.items, i.proc = p PROVE FALSE
      BY DEF OfMyself
    <3> QED  BY <1>18 DEF Received
  <2> HIDE DEF strangers
  <2> QED  BY <1>2, <2>1, <2>2 DEF ProtocolInv
<1> HIDE DEF joined, told, strangers
<1>23. /\ \A o \in Obj : cpl[o] # NoCouplings => cpl'[o] # NoCouplings
       /\ \A o \in Obj : Home[o] # p /\ cpl[o] = NoCouplings => cpl'[o] = NoCouplings
       /\ \A o \in Obj : gid[o] = NoGid => cpl'[o] = NoCouplings
  <2>1. \A o \in Obj : cpl[o] = NoCouplings <=> DOMAIN cpl[o] = {}
    BY <1>1, CoupledIff
  <2>2. ASSUME NEW o \in Obj PROVE cpl'[o] = NoCouplings <=> DOMAIN cpl'[o] = {}
    <3>1. DOMAIN NoCouplings = {}
      BY DEF NoCouplings
    <3>2. ASSUME DOMAIN cpl'[o] = {} PROVE cpl'[o] = NoCouplings
      <4>1. cpl'[o] = [q \in {} |-> cpl'[o][q]]
        BY <1>20, <3>2
      <4>2. NoCouplings = [q \in {} |-> cpl'[o][q]]
        BY DEF NoCouplings
      <4> QED  BY <4>1, <4>2
    <3> QED  BY <3>1, <3>2
  <2>3. \A o \in Obj : Home[o] # p \/ gid[o] = NoGid => o \notin joined
    BY <1>14, <1>21
  <2> QED  BY <1>1, <1>19, <2>1, <2>2, <2>3 DEF DataInv
<1>24. DataInv'
  <2>1. ASSUME NEW a \in Proc, NEW d \in deleted[a]
        PROVE  /\ d[1] \in 1 .. round[a] /\ program[d[1]] = "xfer"
               /\ env'[a] = "xfer" /\ d[1] = round[a] => Copy(a, d[2])' # {}
    BY <1>1, <1>3, <1>15 DEF DataInv
  <2> QED  BY <1>1, <1>2, <1>20, <1>23, <2>1 DEF DataInv
<1>25. GoneInv'
  <2> SUFFICES ASSUME NEW a \in Proc, NEW q \in Proc, NEW d \in deleted[a], Passed(a, d[1])', ~Passed(q, d[1])'
               PROVE  Copy(a, d[2])' = {}
    BY <1>2 DEF GoneInv
  <2>1. d[1] # r
    BY <1>1, <1>5 DEF DataInv
  <2>2. Passed(a, d[1]) /\ ~Passed(q, d[1])
    BY <1>10, <2>1
  <2> QED  BY <1>1, <1>15, <2>2 DEF GoneInv
<1>26. OneCopy' /\ Unshared'
  <2>1. \A a \in Proc : \A j \in joins'[a] : j \in joins[a]
    BY <1>3
  <2> QED  BY <1>1, <1>2, <2>1 DEF OneCopy, Unshared
<1>27. \A q, g : (Owner(q, g) => Owner(q, g)') /\ (q # p => (Owner(q, g)' <=> Owner(q, g)))
  BY <1>15, <1>23 DEF Owner
<1>28. JoinTypeInv'
  <2>1. joins' \in [Proc -> SUBSET [obj : Joining, dest : Proc, gid : Nat \ {0}]]
    BY <1>1, <1>2 DEF JoinTypeInv
  <2>2. ASSUME NEW q \in Proc, joins'[q] # {}
        PROVE  env'[q] \in JoinEnvs /\ \A a \in Proc : round[a] >= round[q]
    BY <1>1, <1>3, <2>2 DEF JoinTypeInv
  <2>3. ASSUME NEW q \in Proc, NEW j \in joins'[q]
        PROVE  /\ Home[j.obj] = q /\ j.dest # q /\ cpl'[j.obj] = NoCouplings
               /\ \A i \in joins'[q] : i.obj = j.obj \/ i.gid = j.gid => i = j
               /\ IF env'[q] = "joinCmds" THEN gid[j.obj] # NoGid /\ Copy(q, j.gid)' = {}
                                          ELSE gid[j.obj] = j.gid
               /\ \E x \in Copy(j.dest, j.gid)' : cpl'[x] # NoCouplings
    <3>1. q # p /\ j \in joins[q] /\ joins'[q] = joins[q] /\ env'[q] = env[q]
      BY <1>3, <2>3
    <3>2. /\ Home[j.obj] = q /\ j.dest # q /\ cpl[j.obj] = NoCouplings /\ j.obj \in Obj
          /\ \A i \in joins[q] : i.obj = j.obj \/ i.gid = j.gid => i = j
          /\ IF env[q] = "joinCmds" THEN gid[j.obj] # NoGid /\ Copy(q, j.gid) = {}
                                    ELSE gid[j.obj] = j.gid
          /\ Owner(j.dest, j.gid)
      BY <1>1, <3>1, JoinAssumption DEF JoinTypeInv, Owner
    <3>3. Owner(j.dest, j.gid)'
      BY <1>27, <3>2
    <3>4. \E x \in Copy(j.dest, j.gid)' : cpl'[x] # NoCouplings
      BY <3>3 DEF Owner
    <3> QED  BY <1>15, <1>23, <3>1, <3>2, <3>4
  <2>4. round' = round /\ gid' = gid
    BY <1>2
  <2> QED  BY <2>1, <2>2, <2>3, <2>4 DEF JoinTypeInv

<1>29. KnownInv'
  <2>1. \A x \in Obj : Home[x] \in Proc
    BY InterfacesAssumption
  <2>2. \A x \in Obj : Joiner(x)' <=> Home[x] # p /\ Joiner(x)
    BY <1>3, <2>1 DEF Joiner
  <2>3. \A x \in Obj : Joiner(x) => round[Home[x]] = r
    BY <1>7, <2>1 DEF Joiner
  <2>4. \A x \in Obj, a \in Proc : Introduced(x, a)' <=> Introduced(x, a)
    <3> SUFFICES ASSUME NEW x \in Obj, NEW a \in Proc PROVE Introduced(x, a)' <=> Introduced(x, a)
      OBVIOUS
    <3>1. CASE ~Joiner(x)
      BY <2>2, <3>1 DEF Introduced
    <3>2. CASE Joiner(x) /\ Home[x] = p
      <4>1. Introduced(x, a)
        BY <1>6, <2>3, <3>2 DEF Introduced
      <4> QED  BY <2>2, <3>2, <4>1 DEF Introduced
    <3>3. CASE Joiner(x) /\ Home[x] # p /\ a = p
      <4>1. Passed(p, round[Home[x]])'
        BY <1>2, <1>12, <2>3, <3>3 DEF Passed
      <4> QED  BY <1>3, <3>3, <4>1 DEF Introduced
    <3>4. CASE Joiner(x) /\ Home[x] # p /\ a # p
      <4>1. joins'[Home[x]] = joins[Home[x]] /\ env'[a] = env[a] /\ (Joiner(x)' <=> Joiner(x))
        BY <1>3, <2>1, <2>2, <3>4
      <4>2. Passed(a, round[Home[x]])' <=> Passed(a, round[Home[x]])
        BY <1>2, <1>3, <3>4 DEF Passed
      <4> QED  BY <4>1, <4>2 DEF Introduced
    <3> QED  BY <3>1, <3>2, <3>3, <3>4
  <2>5. \A x \in Obj, a \in Proc : ~Going(x, a) /\ ~Going(x, a)'
    <3> SUFFICES ASSUME NEW x \in Obj, NEW a \in Proc PROVE ~Going(x, a) /\ ~Going(x, a)'
      OBVIOUS
    <3>1. env'[Home[x]] = "xfer" => env[Home[x]] = "xfer"
      BY <1>3, <2>1
    <3>2. env[Home[x]] = "xfer" => ~Passed(a, round[Home[x]]) /\ ~Passed(a, round[Home[x]])'
      BY <1>13, <2>1
    <3> QED  BY <3>1, <3>2 DEF Going
  <2> SUFFICES ASSUME NEW o \in Obj, gid[o] # NoGid, NEW q PROVE q \in DOMAIN cpl'[o] <=> q \in Proc /\ Knows(o, q)'
    BY <1>2 DEF KnownInv
  <2>6. q \in DOMAIN cpl[o] <=> q \in Proc /\ Knows(o, q)
    BY <1>1 DEF KnownInv
  <2>7. env'[Home[o]] = "xfer" <=> env[Home[o]] = "xfer"
    BY <1>3, <2>1
  <2>8. Deletes(q, Home[o], o)' <=> Deletes(q, Home[o], o)
    BY <1>2 DEF Deletes
  <2>9. Copy(q, gid[o])' = Copy(q, gid[o]) /\ \A x \in Copy(q, gid[o]) : x \in Obj
    BY <1>2, <1>15 DEF Copy, Copies
  <2>10. q \in Proc => (Knows(o, q)' <=> /\ q # Home[o] /\ ~Joiner(o)'
                           /\ \/ \E x \in Copy(q, gid[o]) : Introduced(x, Home[o])
                              \/ env[Home[o]] = "xfer" /\ Deletes(q, Home[o], o))
    BY <2>1, <2>4, <2>5, <2>7, <2>8, <2>9 DEF Knows
  <2>11. q \in Proc => (Knows(o, q) <=> /\ q # Home[o] /\ ~Joiner(o)
                           /\ \/ \E x \in Copy(q, gid[o]) : Introduced(x, Home[o])
                              \/ env[Home[o]] = "xfer" /\ Deletes(q, Home[o], o))
    BY <2>1, <2>5, <2>9 DEF Knows
  <2>12. CASE o \in joined
    <3>1. Home[o] = p /\ DOMAIN cpl[o] = {}
      BY <1>14, <1>21, <2>12 DEF NoCouplings
    <3>2. ~Joiner(o)' /\ \A x \in Copy(q, gid[o]) : Introduced(x, p)
      BY <1>3, <2>2, <3>1 DEF Introduced
    <3> QED  BY <1>3, <1>19, <2>10, <2>12, <3>1, <3>2
  <2>13. CASE o \notin joined
    <3>1. Joiner(o)' <=> Joiner(o)
      BY <1>3, <1>21, <2>2, <2>13 DEF Joiner
    <3> QED  BY <1>19, <2>6, <2>10, <2>11, <2>13, <3>1
  <2> QED  BY <2>12, <2>13
<1>30. \A m \in net : m.phase \in Joins3 /\ m.from \in Proc /\ m.to \in Proc
  BY <1>1 DEF NetInv
<1>31. \A m \in net : m.phase # "phase1"
  <2> SUFFICES ASSUME NEW m \in net, m.phase = "phase1" PROVE FALSE
    OBVIOUS
  <2>1. env[m.from] \in {"phase1", "phase2"} /\ m.items # {} /\ \A i \in m.items : JoinsAt(m.from, m.to, i.gid)
    BY <1>1 DEF NetInv, Net1
  <2> QED  BY <1>7, <1>17, <1>30, <2>1
<1>32. \A m \in net : m.phase # "phase2"
  <2> SUFFICES ASSUME NEW m \in net, m.phase = "phase2" PROVE FALSE
    OBVIOUS
  <2>1. env[m.from] \in {"phase2", "phase3"} /\ env[m.to] \in {"phase1", "phase2"} /\ round[m.to] = round[m.from]
    BY <1>1 DEF NetInv, Net2
  <2> QED  BY <1>8, <1>9, <1>30, <2>1
<1>33. Net1' /\ Net2' /\ Tasks'
  <2>1. \A m \in net' : m.phase \notin {"phase1", "phase2"}
    BY <1>2, <1>31, <1>32
  <2>2. \A q, d \in Proc : \A g : JoinsAt(q, d, g)' => round[q] = r
    BY <1>7, <1>16, <1>17
  <2>3. \A d \in Proc : round[d] = r => env'[d] \notin {"joinCmds", "phase1", "phase2"}
    BY <1>3, <1>8, <1>9
  <2>4. \A d \in Proc : env'[d] # "phase2"
    BY <1>3, <1>8
  <2>5. Net1'
    BY <1>2, <2>1, <2>2, <2>3 DEF Net1
  <2>6. Net2'
    BY <1>2, <2>1, <2>2, <2>3 DEF Net2
  <2>7. Tasks'
    BY <2>4 DEF Tasks
  <2> QED  BY <2>5, <2>6, <2>7
<1>34. Net3'
  <2>1. ASSUME NEW m \in net', m.phase = "phase3"
        PROVE  /\ env'[m.to] \in {"phase2", "phase3"} /\ m.from \in Proc
               /\ \A i \in m.items : /\ JoinsAt(m.to, m.from, i.gid)'
                                     /\ i.proc \in Proc \ {m.to} /\ Copy(i.proc, i.gid) # {}
    <3>1. m \in net /\ m.to # p
      BY <1>2, <2>1 DEF Received
    <3>2. /\ env[m.to] \in {"phase2", "phase3"} /\ m.to \in Proc /\ m.from \in Proc
          /\ \A i \in m.items : /\ JoinsAt(m.to, m.from, i.gid)
                                /\ i.proc \in Proc \ {m.to} /\ Copy(i.proc, i.gid) # {}
      BY <1>1, <2>1, <3>1 DEF NetInv, Net3
    <3> QED  BY <1>3, <1>16, <3>1, <3>2
  <2>2. ASSUME NEW q \in Proc, NEW d \in Proc, NEW b \in Proc, NEW g \in Nat, JoinsAt(q, d, g)', b # q, Copy(b, g) # {}
        PROVE  \E m \in net' : m.phase = "phase3" /\ m.from = d /\ m.to = q
                               /\ \E i \in m.items : i.gid = g /\ i.proc = b
    <3>1. q # p /\ JoinsAt(q, d, g)
      BY <1>16, <2>2
    <3>2. round[q] = r
      BY <1>7, <1>17, <3>1
    <3>3. env[d] = "phase3" \/ Passed(d, round[q])
      BY <1>6, <3>2
    <3>4. ItemOf("phase3", d, q, g, b)
      BY <1>1, <2>2, <3>1, <3>3 DEF NetInv, Net3
    <3>5. PICK m \in net : m.phase = "phase3" /\ m.from = d /\ m.to = q
                           /\ \E i \in m.items : i.gid = g /\ i.proc = b
      BY <3>4 DEF ItemOf
    <3>6. m \in net'
      BY <1>2, <3>1, <3>5 DEF Received
    <3> QED  BY <3>5, <3>6
  <2>3. \A q, d, b, g : ItemOf("phase3", d, q, g, b)' <=>
          \E m \in net' : m.phase = "phase3" /\ m.from = d /\ m.to = q
                          /\ \E i \in m.items : i.gid = g /\ i.proc = b
    BY DEF ItemOf
  <2> QED  BY <1>15, <2>1, <2>2, <2>3 DEF Net3
<1>35. NetInv'
  <2>1. \A m \in net' : m.from \in Proc /\ m.to \in Proc /\ m.phase \in Joins3
    BY <1>2, <1>30
  <2>2. DOMAIN addCpl3' = Proc /\ DOMAIN joinObjs' = Proc
    BY <1>1 DEF NetInv, JoinEndReturns
  <2> QED  BY <1>33, <1>34, <2>1, <2>2 DEF NetInv
<1> QED  BY <1>4, <1>22, <1>24, <1>25, <1>26, <1>28, <1>29, <1>35 DEF ProtocolInv

-------------------------------------------------------------------------------
(* The invariant.                                                            *)

LEMMA InitProtocol ==
  ASSUME Init
  PROVE  ProtocolInv
<1> USE DEF Joins3, JoinEnvs, PrioEnvs, Envs
<1>1. /\ gid = FirstGids /\ program \in Programs
      /\ round = [p \in Proc |-> 0] /\ env = [p \in Proc |-> "idle"]
      /\ joins = [p \in Proc |-> {}] /\ addCpl3 = [p \in Proc |-> {}] /\ joinObjs = [p \in Proc |-> {}]
      /\ net = {} /\ deleted = [p \in Proc |-> {}] /\ threw = {}
  BY DEF Init
<1>2. gid \in [Obj -> Nat \ {0}] /\ program \in Seq({"join", "prio", "xfer"}) /\ Len(program) \in Nat
  BY <1>1, JoinAssumption, PrioAssumption
<1>3. \A o \in Obj : gid[o] # NoGid /\ gid[o] \in Nat /\ Home[o] \in Proc
  BY <1>2, InterfacesAssumption DEF NoGid
<1>4. \A p \in Proc : /\ round[p] = 0 /\ env[p] = "idle" /\ joins[p] = {} /\ deleted[p] = {}
                      /\ \A k \in 1 .. Len(program) : ~Passed(p, k)
  BY <1>1 DEF Passed
<1>5. StageInv
  BY <1>1, <1>2 DEF StageInv
<1>6. Barriers
  BY <1>4 DEF Barriers, Barrier
<1>7. \A o \in Obj : cpl[o] = [q \in DOMAIN cpl[o] |-> cpl[o][q]]
  BY DEF Init
<1>7a. \A o \in Obj : \A q : q \in DOMAIN cpl[o] <=> \E x \in {y \in Obj \ {o} : gid[y] = gid[o]} : q = Home[x]
  <2>1. \A o \in Obj : DOMAIN cpl[o] = {Home[x] : x \in {y \in Obj \ {o} : gid[y] = gid[o]}}
    BY DEF Init
  <2> QED  BY <2>1
<1>8. cpl = [o \in Obj |-> cpl[o]]
  BY DEF Init
<1>9. DataInv
  <2>1. cpl = [o \in Obj |-> [q \in DOMAIN cpl[o] |-> cpl[o][q]]]
    BY <1>7, <1>8
  <2>2. deleted \in [Proc -> SUBSET (Nat \X Nat)]
    BY <1>1
  <2>3. gid \in [Obj -> Nat]
    BY <1>2
  <2> QED  BY <1>3, <1>4, <2>1, <2>2, <2>3 DEF DataInv
<1>10. GoneInv
  BY <1>4 DEF GoneInv
<1>11. OneCopy
  BY <1>1, JoinAssumption DEF OneCopy
<1>12. JoinTypeInv /\ Unshared
  <2>1. joins \in [Proc -> SUBSET [obj : Joining, dest : Proc, gid : Nat \ {0}]]
    BY <1>1
  <2> QED  BY <1>4, <2>1 DEF JoinTypeInv, Unshared
<1>13. KnownInv
  <2> SUFFICES ASSUME NEW o \in Obj, NEW q PROVE q \in DOMAIN cpl[o] <=> q \in Proc /\ Knows(o, q)
    BY DEF KnownInv
  <2>1. q \in DOMAIN cpl[o] <=> \E x \in Obj \ {o} : gid[x] = gid[o] /\ Home[x] = q
    <3>1. q \in DOMAIN cpl[o] <=> \E x \in {y \in Obj \ {o} : gid[y] = gid[o]} : q = Home[x]
      BY <1>7a
    <3> QED  BY <3>1
  <2>2. \A x, y \in Obj : Home[x] = Home[y] /\ gid[x] = gid[y] => x = y
    BY <1>1, JoinAssumption
  <2>3. \A x \in Obj : ~Joiner(x) /\ ~Going(x, Home[o])
    BY <1>3, <1>4 DEF Joiner, Going
  <2>4. q \in Proc => (Knows(o, q) <=> q # Home[o] /\ \E x \in Copy(q, gid[o]) : TRUE)
    BY <1>3, <1>4, <2>3 DEF Knows, Introduced, Copy, Copies
  <2>5. \A x : x \in Copy(q, gid[o]) <=> x \in Obj /\ Home[x] = q /\ gid[x] = gid[o]
    BY <1>3 DEF Copy, Copies
  <2> QED  BY <1>3, <2>1, <2>2, <2>4, <2>5
<1>14. NetInv
  BY <1>1, <1>4 DEF NetInv, Net1, Net2, Net3, Tasks, JoinsAt
<1> QED  BY <1>1, <1>5, <1>6, <1>9, <1>10, <1>11, <1>12, <1>13, <1>14 DEF ProtocolInv

LEMMA NextProtocol ==
  ASSUME ~Shared, ProtocolInv, [Next]_vars
  PROVE  ProtocolInv'
<1>1. ASSUME NEW p \in Proc, Advance(p) PROVE ProtocolInv'
  <2>1. CASE JoinBegin(p)
    BY <2>1, ElsewhereInv DEF Elsewhere
  <2>2. CASE JoinEnd(p)
    BY <2>2, JoinEndInv
  <2>3. CASE UnpackPhase1(p)
    BY <2>3, UnpackPhase1Inv
  <2>4. CASE UnpackPhase2(p)
    BY <2>4, UnpackPhase2Inv
  <2>5. CASE JoinEndReturns(p)
    BY <2>5, JoinEndReturnsInv
  <2>6. CASE XferEndReturns(p)
    BY <2>6, XferEndReturnsInv
  <2>7. CASE (PrioBegin(p) \/ PrioEnd(p) \/ PrioEndReturns(p)) /\ UNCHANGED joinVars
    BY <2>7, ElsewhereInv DEF Elsewhere
  <2> QED  BY <1>1, <2>1, <2>2, <2>3, <2>4, <2>5, <2>6, <2>7 DEF Advance
<1>2. ASSUME NEW p \in Proc, NEW o \in Joining, NEW d \in Proc, Home[o] = p, NEW g \in Targets[o],
             JoinObj(p, o, d, g)
      PROVE  ProtocolInv'
  BY <1>2, JoinObjInv
<1>3. ASSUME NEW p \in Proc, NEW gids \in SUBSET {gid[o] : o \in Deletable \cap Copies(p)}, XferEnd(p, gids)
      PROVE  ProtocolInv'
  BY <1>3, XferEndInv
<1>4. CASE \/ \E o \in Changing, r \in Prio : PrioChange(o, r) /\ UNCHANGED joinVars
           \/ \E o \in Moving : Move(o) /\ UNCHANGED joinVars
           \/ \E p \in Proc : UseInterfaces(p) /\ UNCHANGED joinVars
           \/ UNCHANGED vars
  BY <1>4, ElsewhereInv DEF Elsewhere
<1> QED  BY <1>1, <1>2, <1>3, <1>4 DEF Next

LEMMA ProtocolCouplings ==
  ASSUME ProtocolInv
  PROVE  NoDangling /\ JoinsSucceed /\ OwnersKnown
<1>1. StageInv /\ DataInv /\ OneCopy /\ KnownInv /\ threw = {}
  BY DEF ProtocolInv
<1>2. NoDangling
  <2> SUFFICES ASSUME NEW o \in Obj, NEW q \in DOMAIN cpl[o]
               PROVE  Copy(q, gid[o]) # {} \/ (Deletes(q, Home[o], o) /\ env[Home[o]] = "xfer")
    BY DEF NoDangling
  <2>1. gid[o] # NoGid
    BY <1>1, CoupledIff DEF DataInv
  <2>2. Knows(o, q)
    BY <1>1, <2>1 DEF KnownInv
  <2> QED  BY <2>2 DEF Knows
<1>3. OwnersKnown
  <2> SUFFICES ASSUME AllDone, NEW o \in Obj, gid[o] # NoGid, NEW q
               PROVE  q \in DOMAIN cpl[o] <=> \E x \in Others(o) : Home[x] = q
    BY DEF OwnersKnown
  <2>1. \A p \in Proc : env[p] = "idle"
    BY DEF AllDone
  <2>2. \A x \in Obj : Home[x] \in Proc
    BY InterfacesAssumption
  <2>3. \A x \in Obj : ~Joiner(x) /\ ~Going(x, Home[o])
    BY <2>1, <2>2 DEF Joiner, Going, Joins3
  <2>4. q \in DOMAIN cpl[o] <=> q \in Proc /\ Knows(o, q)
    BY <1>1 DEF KnownInv
  <2>5. \A x : x \in Copy(q, gid[o]) <=> x \in Obj /\ Home[x] = q /\ gid[x] = gid[o]
    BY DEF Copy, Copies
  <2>6. Knows(o, q) <=> q # Home[o] /\ \E x \in Obj : Home[x] = q /\ gid[x] = gid[o]
    BY <2>1, <2>2, <2>3, <2>5 DEF Knows, Introduced
  <2>7. \A x \in Obj : Home[x] = Home[o] /\ gid[x] = gid[o] => x = o
    BY <1>1 DEF OneCopy
  <2> QED  BY <2>2, <2>4, <2>6, <2>7 DEF Others
<1> QED  BY <1>1, <1>2, <1>3 DEF JoinsSucceed

LEMMA ProtocolHolds ==
  ASSUME ~Shared
  PROVE  Spec => []ProtocolInv
<1>1. Init => ProtocolInv
  BY InitProtocol
<1>2. ProtocolInv /\ [Next]_vars => ProtocolInv'
  BY NextProtocol
<1> QED  BY <1>1, <1>2, PTL DEF Spec

(* At all times couplings lead to copies, or to one that a transfer in the   *)
(* course of its end deletes; no message of DDD_JoinEnd finds an object it   *)
(* does not belong to (the exceptions and assertions of UnpackPhase1Msgs to  *)
(* UnpackPhase3Msgs); and when all are between the same environments, each   *)
(* copy knows all others.                                                    *)
THEOREM CouplingsHold ==
  ASSUME ~Shared
  PROVE  Spec => []CouplingInv
<1>1. ProtocolInv => CouplingInv
  BY ProtocolCouplings DEF CouplingInv
<1> QED  BY <1>1, ProtocolHolds, PTL

-------------------------------------------------------------------------------
(* The shortcuts of interfaces.                                              *)

CplFunctions == cpl = [o \in Obj |-> [q \in DOMAIN cpl[o] |-> cpl[o][q]]]

ShortcutInv ==
    /\ CplFunctions
    /\ addr = [o \in Obj |-> addr[o]]
    /\ table = [p \in Proc |-> [nItems |-> table[p].nItems, cpl |-> table[p].cpl,
                                objValid |-> table[p].objValid, obj |-> table[p].obj]]
    /\ \A p \in Proc :
        /\ table[p].objValid \in BOOLEAN
        /\ \A o \in DOMAIN table[p].obj : /\ o \in Obj /\ Home[o] = p
                                          /\ p \notin Explicit => cpl[o] # NoCouplings
        /\ table[p].objValid => \A o \in DOMAIN table[p].obj : table[p].obj[o] = addr[o]

(* What IFRebuildAll makes of the tables of a processor. *)
IsTable(t) == \E n, c, v, b : t = [nItems |-> n, cpl |-> c, objValid |-> v, obj |-> b] /\ v \in BOOLEAN
Remade(p, cpls, old) ==
    IF Coupled(p, cpls) # {} THEN IFCreateFromScratch(p, cpls, old) ELSE IFDeleteAll(old)

LEMMA TableFromScratch ==
  ASSUME NEW p, NEW cpls, NEW old, IsTable(old)
  PROVE  /\ IsTable(Remade(p, cpls, old))
         /\ \A o \in DOMAIN Remade(p, cpls, old).obj : /\ o \in Coupled(p, cpls)
                                                       /\ Remade(p, cpls, old).obj[o] = addr[o]
<1>3. PICK n, c, v, b : old = [nItems |-> n, cpl |-> c, objValid |-> v, obj |-> b] /\ v \in BOOLEAN
  BY DEF IsTable
<1> DEFINE new == Remade(p, cpls, old)
<1> DEFINE objs == UNION {Members(p, q, cpls) : q \in Neighbours(p, cpls)}
           num == MapThenSumSet(LAMBDA q : Cardinality(Members(p, q, cpls)), Neighbours(p, cpls))
<1>1. CASE Coupled(p, cpls) # {} /\ objs # {}
  <2>1. new = [nItems |-> num, cpl |-> TRUE, objValid |-> TRUE, obj |-> ShortcutTable(objs)]
    BY <1>1 DEF Remade, IFCreateFromScratch
  <2>2. \A o \in objs : o \in Coupled(p, cpls)
    BY DEF Members
  <2> HIDE DEF objs, num, new
  <2>3. \A o \in DOMAIN ShortcutTable(objs) : o \in Coupled(p, cpls) /\ ShortcutTable(objs)[o] = addr[o]
    BY <2>2 DEF ShortcutTable
  <2>4. IsTable(new)
    BY <2>1 DEF IsTable
  <2>5. new.obj = ShortcutTable(objs)
    BY <2>1
  <2> QED  BY <2>3, <2>4, <2>5 DEF new
<1>2. CASE ~(Coupled(p, cpls) # {} /\ objs # {})
  <2>1. \E n2, c2 : new = [nItems |-> n2, cpl |-> c2, objValid |-> v, obj |-> <<>>]
    <3>1. CASE Coupled(p, cpls) # {}
      <4>1. new = [old EXCEPT !.nItems = 0, !.cpl = FALSE, !.obj = <<>>]
        BY <1>2, <3>1 DEF Remade, IFCreateFromScratch
      <4> QED  BY <1>3, <4>1
    <3>2. CASE Coupled(p, cpls) = {}
      <4>1. new = [old EXCEPT !.cpl = FALSE, !.obj = <<>>]
        BY <3>2 DEF Remade, IFDeleteAll
      <4> QED  BY <1>3, <4>1
    <3> QED  BY <3>1, <3>2
  <2>2. DOMAIN <<>> = {}
    OBVIOUS
  <2>3. IsTable(new)
    BY <1>3, <2>1 DEF IsTable
  <2> QED  BY <2>1, <2>2, <2>3
<1> QED  BY <1>1, <1>2

LEMMA RebuiltShortcuts ==
  ASSUME ShortcutInv, NEW p \in Proc, NEW cpls, IFRebuildAll(p, cpls), cpl' = cpls, CplFunctions',
         \A o \in Obj : Home[o] # p /\ cpl[o] # NoCouplings => cpls[o] # NoCouplings
  PROVE  ShortcutInv'
<1>1. PICK new : new = Remade(p, cpls, table[p])
  OBVIOUS
<1>2. addr' = addr /\ table' = [table EXCEPT ![p] = new]
  BY <1>1 DEF IFRebuildAll, Remade
<1>3. IsTable(table[p])
  <2>1. /\ table[p] = [nItems |-> table[p].nItems, cpl |-> table[p].cpl,
                       objValid |-> table[p].objValid, obj |-> table[p].obj]
        /\ table[p].objValid \in BOOLEAN
    BY DEF ShortcutInv
  <2> QED  BY <2>1 DEF IsTable
<1>4. /\ IsTable(new)
      /\ \A o \in DOMAIN new.obj : o \in Coupled(p, cpls) /\ new.obj[o] = addr[o]
  <2> DEFINE old == table[p]
  <2>1. IsTable(old) /\ new = Remade(p, cpls, old)
    BY <1>1, <1>3
  <2> HIDE DEF old
  <2> QED  BY <2>1, TableFromScratch
<1>11. PICK n2, c2, v2, b2 : new = [nItems |-> n2, cpl |-> c2, objValid |-> v2, obj |-> b2] /\ v2 \in BOOLEAN
  BY <1>4 DEF IsTable
<1>12. new.objValid = v2 /\ new.obj = b2
  BY <1>11
<1>5. /\ table = [a \in Proc |-> [nItems |-> table[a].nItems, cpl |-> table[a].cpl,
                                  objValid |-> table[a].objValid, obj |-> table[a].obj]]
      /\ addr = [o \in Obj |-> addr[o]]
  BY DEF ShortcutInv
<1>6. table'[p] = new /\ \A a \in Proc : a # p => table'[a] = table[a]
  BY <1>2, <1>5
<1>7. table' = [a \in Proc |-> table'[a]]
  BY <1>2, <1>5
<1>8. ASSUME NEW a \in Proc
      PROVE  table'[a] = [nItems |-> table'[a].nItems, cpl |-> table'[a].cpl,
                          objValid |-> table'[a].objValid, obj |-> table'[a].obj]
  <2>1. CASE a = p
    BY <1>6, <1>11, <2>1
  <2>2. CASE a # p
    BY <1>5, <1>6, <2>2
  <2> QED  BY <2>1, <2>2
<1>9. ASSUME NEW a \in Proc
      PROVE  /\ table'[a].objValid \in BOOLEAN
             /\ \A o \in DOMAIN table'[a].obj : /\ o \in Obj /\ Home[o] = a
                                                /\ a \notin Explicit => cpls[o] # NoCouplings
             /\ table'[a].objValid => \A o \in DOMAIN table'[a].obj : table'[a].obj[o] = addr[o]
  <2>1. CASE a = p
    BY <1>4, <1>6, <1>11, <1>12, <2>1 DEF Coupled
  <2>2. CASE a # p
    BY <1>6, <2>2 DEF ShortcutInv
  <2> QED  BY <2>1, <2>2
<1>10. table' = [a \in Proc |-> [nItems |-> table'[a].nItems, cpl |-> table'[a].cpl,
                                 objValid |-> table'[a].objValid, obj |-> table'[a].obj]]
  BY <1>7, <1>8
<1> QED  BY <1>2, <1>5, <1>9, <1>10 DEF ShortcutInv

(* Steps that leave the tables alone, and take away no object's couplings    *)
(* but perhaps on a processor that makes its interfaces explicitly.          *)
LEMMA KeptShortcuts ==
  ASSUME ShortcutInv, table' = table, addr' = addr, CplFunctions',
         \A o \in Obj : Home[o] \notin Explicit /\ cpl[o] # NoCouplings => cpl'[o] # NoCouplings
  PROVE  ShortcutInv'
  BY DEF ShortcutInv

LEMMA FromScratchShortcuts ==
  ASSUME ShortcutInv, NEW p \in Proc, IFAllFromScratch(p, cpl'), CplFunctions',
         \A o \in Obj : Home[o] # p /\ cpl[o] # NoCouplings => cpl'[o] # NoCouplings
  PROVE  ShortcutInv'
<1>1. CASE p \in Explicit
  <2>1. table' = table /\ addr' = addr
    BY <1>1 DEF IFAllFromScratch, ifVars
  <2> QED  BY <1>1, <2>1, KeptShortcuts
<1>2. CASE p \notin Explicit
  <2>1. IFRebuildAll(p, cpl')
    BY <1>2 DEF IFAllFromScratch
  <2> QED  BY <2>1, RebuiltShortcuts
<1> QED  BY <1>1, <1>2

(* Coupling lists that grow. *)
LEMMA GrownCouplings ==
  ASSUME CplFunctions, NEW o \in Obj, DOMAIN cpl[o] \subseteq DOMAIN cpl'[o], cpl[o] # NoCouplings
  PROVE  cpl'[o] # NoCouplings
<1>1. DOMAIN NoCouplings = {}
  BY DEF NoCouplings
<1>2. DOMAIN cpl[o] # {}
  <2>1. cpl[o] = [q \in DOMAIN cpl[o] |-> cpl[o][q]]
    BY DEF CplFunctions
  <2>2. NoCouplings = [q \in {} |-> cpl[o][q]]
    BY DEF NoCouplings
  <2> QED  BY <2>1, <2>2
<1> QED  BY <1>1, <1>2

LEMMA GrownShortcuts ==
  ASSUME ShortcutInv, CplFunctions', \A o \in Obj : DOMAIN cpl[o] \subseteq DOMAIN cpl'[o],
         \/ table' = table /\ addr' = addr
         \/ \E p \in Proc : IFAllFromScratch(p, cpl')
  PROVE  ShortcutInv'
<1>1. \A o \in Obj : cpl[o] # NoCouplings => cpl'[o] # NoCouplings
  BY GrownCouplings DEF ShortcutInv
<1>2. CASE table' = table /\ addr' = addr
  BY <1>1, <1>2, KeptShortcuts
<1>3. ASSUME NEW p \in Proc, IFAllFromScratch(p, cpl') PROVE ShortcutInv'
  BY <1>1, <1>3, FromScratchShortcuts
<1> QED  BY <1>2, <1>3

(* Steps that change neither couplings nor tables. *)
LEMMA SameShortcuts ==
  ASSUME ShortcutInv, table' = table, addr' = addr, cpl' = cpl
  PROVE  ShortcutInv'
<1>1. CplFunctions'
  BY DEF ShortcutInv, CplFunctions
<1> QED  BY <1>1, KeptShortcuts

(* Coupling lists of p alone change, and p makes its interfaces. *)
LEMMA LocalShortcuts ==
  ASSUME ShortcutInv, NEW p \in Proc, IFAllFromScratch(p, cpl'), CplFunctions',
         \A o \in Obj : Home[o] # p => cpl'[o] = cpl[o]
  PROVE  ShortcutInv'
  BY FromScratchShortcuts

LEMMA MoveShortcuts ==
  ASSUME ShortcutInv, NEW o \in Obj, Home[o] \notin Explicit, HdrConstructorMove(o)
  PROVE  ShortcutInv'
<1> DEFINE p == Home[o]
           mark == table[p].objValid /\ cpl[o] = NoCouplings
<1>1. p \in Proc
  BY InterfacesAssumption
<1>2. /\ addr' = [addr EXCEPT ![o] = 1 - @]
      /\ table' = [table EXCEPT ![p].objValid = mark]
      /\ cpl' = cpl
  BY DEF HdrConstructorMove
<1>3. mark \in BOOLEAN
  OBVIOUS
<1>4. mark => table[p].objValid /\ o \notin DOMAIN table[p].obj
  BY <1>1 DEF ShortcutInv
<1>5. p \notin Explicit
  OBVIOUS
<1> HIDE DEF p, mark
<1>6. PICK m : m = mark
  OBVIOUS
<1>7. /\ table = [a \in Proc |-> [nItems |-> table[a].nItems, cpl |-> table[a].cpl,
                                  objValid |-> table[a].objValid, obj |-> table[a].obj]]
      /\ addr = [x \in Obj |-> addr[x]]
  BY DEF ShortcutInv
<1>8. table' = [table EXCEPT ![p] = [nItems |-> table[p].nItems, cpl |-> table[p].cpl,
                                     objValid |-> m, obj |-> table[p].obj]]
  <2>1. table' = [table EXCEPT ![p] = [table[p] EXCEPT !.objValid = m]]
    BY <1>2, <1>6
  <2>2. table[p] = [nItems |-> table[p].nItems, cpl |-> table[p].cpl,
                    objValid |-> table[p].objValid, obj |-> table[p].obj]
    BY <1>1, <1>7
  <2>3. [table[p] EXCEPT !.objValid = m] =
           [nItems |-> table[p].nItems, cpl |-> table[p].cpl, objValid |-> m, obj |-> table[p].obj]
    BY <2>2
  <2> QED  BY <2>1, <2>3
<1>9. /\ table'[p] = [nItems |-> table[p].nItems, cpl |-> table[p].cpl, objValid |-> m, obj |-> table[p].obj]
      /\ \A a \in Proc : a # p => table'[a] = table[a]
  BY <1>1, <1>7, <1>8
<1>10. table' = [a \in Proc |-> [nItems |-> table'[a].nItems, cpl |-> table'[a].cpl,
                                 objValid |-> table'[a].objValid, obj |-> table'[a].obj]]
  <2>1. table' = [a \in Proc |-> table'[a]]
    BY <1>7, <1>8
  <2>2. ASSUME NEW a \in Proc
        PROVE  table'[a] = [nItems |-> table'[a].nItems, cpl |-> table'[a].cpl,
                            objValid |-> table'[a].objValid, obj |-> table'[a].obj]
    <3>1. CASE a = p
      BY <1>9, <3>1
    <3>2. CASE a # p
      BY <1>7, <1>9, <3>2
    <3> QED  BY <3>1, <3>2
  <2> QED  BY <2>1, <2>2
<1>11. addr' = [x \in Obj |-> addr'[x]] /\ \A x \in Obj : x # o => addr'[x] = addr[x]
  BY <1>2, <1>7
<1>12. ASSUME NEW a \in Proc
       PROVE  /\ table'[a].objValid \in BOOLEAN
              /\ \A x \in DOMAIN table'[a].obj : /\ x \in Obj /\ Home[x] = a
                                                 /\ a \notin Explicit => cpl[x] # NoCouplings
              /\ table'[a].objValid => \A x \in DOMAIN table'[a].obj : table'[a].obj[x] = addr'[x]
  <2>1. CASE a = p
    <3>1. table'[a].objValid = m /\ table'[a].obj = table[a].obj
      BY <1>9, <2>1
    <3>2. m \in BOOLEAN /\ (m => table[a].objValid /\ o \notin DOMAIN table[a].obj)
      BY <1>3, <1>4, <1>6, <2>1
    <3>3. \A x \in DOMAIN table[a].obj : /\ x \in Obj /\ Home[x] = a
                                         /\ a \notin Explicit => cpl[x] # NoCouplings
      BY DEF ShortcutInv
    <3>4. table[a].objValid => \A x \in DOMAIN table[a].obj : table[a].obj[x] = addr[x]
      BY DEF ShortcutInv
    <3>5. m => \A x \in DOMAIN table[a].obj : table[a].obj[x] = addr'[x]
      BY <1>11, <3>2, <3>3, <3>4
    <3> QED  BY <3>1, <3>2, <3>3, <3>5
  <2>2. CASE a # p
    <3>1. table'[a] = table[a]
      BY <1>9, <2>2
    <3>2. \A x \in DOMAIN table[a].obj : x \in Obj /\ x # o
      BY <2>2 DEF ShortcutInv, p
    <3>3. \A x \in DOMAIN table[a].obj : addr'[x] = addr[x]
      BY <1>11, <3>2
    <3> QED  BY <3>1, <3>3 DEF ShortcutInv
  <2> QED  BY <2>1, <2>2
<1>13. CplFunctions'
  BY <1>2 DEF ShortcutInv, CplFunctions
<1> QED  BY <1>2, <1>10, <1>11, <1>12, <1>13 DEF ShortcutInv

LEMMA UseShortcuts ==
  ASSUME ShortcutInv, NEW p \in Proc, IFExecLocal(p)
  PROVE  ShortcutInv'
<1> DEFINE new == IF table[p].objValid THEN table[p] ELSE IFComputeShortcutTable(table[p])
<1>1. addr' = addr /\ cpl' = cpl /\ table' = [table EXCEPT ![p] = new]
  BY DEF IFExecLocal
<1>2. /\ table = [a \in Proc |-> [nItems |-> table[a].nItems, cpl |-> table[a].cpl,
                                  objValid |-> table[a].objValid, obj |-> table[a].obj]]
      /\ addr = [o \in Obj |-> addr[o]]
  BY DEF ShortcutInv
<1>3. CASE table[p].objValid
  <2>1. table' = table
    <3>1. new = table[p]
      BY <1>3
    <3> QED  BY <1>1, <1>2, <3>1
  <2> QED  BY <1>1, <2>1, SameShortcuts
<1>4. CASE ~table[p].objValid
  <2> DEFINE objs == DOMAIN table[p].obj
  <2>1. new = [table[p] EXCEPT !.objValid = TRUE, !.obj = ShortcutTable(objs)]
    BY <1>4 DEF IFComputeShortcutTable
  <2>2. table[p] = [nItems |-> table[p].nItems, cpl |-> table[p].cpl,
                    objValid |-> table[p].objValid, obj |-> table[p].obj]
    BY <1>2
  <2>3. \A o \in objs : o \in Obj /\ Home[o] = p /\ (p \notin Explicit => cpl[o] # NoCouplings)
    BY DEF ShortcutInv
  <2> HIDE DEF objs, new
  <2>4. PICK n : n = new
    OBVIOUS
  <2>5. n = [nItems |-> table[p].nItems, cpl |-> table[p].cpl, objValid |-> TRUE, obj |-> ShortcutTable(objs)]
    BY <2>1, <2>2, <2>4
  <2>6. /\ DOMAIN ShortcutTable(objs) = objs
        /\ \A o \in objs : ShortcutTable(objs)[o] = addr[o]
    BY DEF ShortcutTable
  <2>7. n.objValid = TRUE /\ n.obj = ShortcutTable(objs)
    BY <2>5
  <2>8. n = [nItems |-> n.nItems, cpl |-> n.cpl, objValid |-> n.objValid, obj |-> n.obj]
    BY <2>5
  <2>9. table'[p] = n /\ \A a \in Proc : a # p => table'[a] = table[a]
    BY <1>1, <1>2, <2>4
  <2>10. table' = [a \in Proc |-> [nItems |-> table'[a].nItems, cpl |-> table'[a].cpl,
                                   objValid |-> table'[a].objValid, obj |-> table'[a].obj]]
    <3>1. table' = [a \in Proc |-> table'[a]]
      BY <1>1, <1>2
    <3>2. ASSUME NEW a \in Proc
          PROVE  table'[a] = [nItems |-> table'[a].nItems, cpl |-> table'[a].cpl,
                              objValid |-> table'[a].objValid, obj |-> table'[a].obj]
      <4>1. CASE a = p
        BY <2>8, <2>9, <4>1
      <4>2. CASE a # p
        BY <1>2, <2>9, <4>2
      <4> QED  BY <4>1, <4>2
    <3> QED  BY <3>1, <3>2
  <2>11. ASSUME NEW a \in Proc
         PROVE  /\ table'[a].objValid \in BOOLEAN
                /\ \A o \in DOMAIN table'[a].obj : /\ o \in Obj /\ Home[o] = a
                                                   /\ a \notin Explicit => cpl[o] # NoCouplings
                /\ table'[a].objValid => \A o \in DOMAIN table'[a].obj : table'[a].obj[o] = addr[o]
    <3>1. CASE a = p
      BY <2>3, <2>6, <2>7, <2>9, <3>1
    <3>2. CASE a # p
      BY <2>9, <3>2 DEF ShortcutInv
    <3> QED  BY <3>1, <3>2
  <2>12. CplFunctions'
    BY <1>1 DEF ShortcutInv, CplFunctions
  <2> QED  BY <1>1, <1>2, <2>10, <2>11, <2>12 DEF ShortcutInv
<1> QED  BY <1>3, <1>4

LEMMA InitShortcuts ==
  ASSUME Init
  PROVE  ShortcutInv
<1>1. CplFunctions
  BY DEF Init, CplFunctions
<1>2. addr = [o \in Obj |-> addr[o]]
  BY DEF Init, IFInit
<1>3. IsTable(NoTable)
  BY DEF IsTable, NoTable
<1>4. ASSUME NEW p \in Proc
      PROVE  /\ IsTable(table[p])
             /\ \A o \in DOMAIN table[p].obj : o \in Coupled(p, cpl) /\ table[p].obj[o] = addr[o]
  <2>1. table[p] = IFCreateFromScratch(p, cpl, NoTable)
    BY DEF Init, IFInit
  <2>2. CASE Coupled(p, cpl) # {}
    <3>1. table[p] = Remade(p, cpl, NoTable)
      BY <2>1, <2>2 DEF Remade
    <3>2. /\ IsTable(Remade(p, cpl, NoTable))
          /\ \A o \in DOMAIN Remade(p, cpl, NoTable).obj : /\ o \in Coupled(p, cpl)
                                                           /\ Remade(p, cpl, NoTable).obj[o] = addr[o]
      BY <1>3, TableFromScratch
    <3> QED  BY <3>1, <3>2
  <2>3. CASE Coupled(p, cpl) = {}
    <3>1. UNION {Members(p, q, cpl) : q \in Neighbours(p, cpl)} = {}
      BY <2>3 DEF Neighbours
    <3>2. table[p] = [NoTable EXCEPT !.nItems = 0, !.cpl = FALSE, !.obj = <<>>]
      BY <2>1, <3>1 DEF IFCreateFromScratch
    <3>3. table[p] = [nItems |-> 0, cpl |-> FALSE, objValid |-> FALSE, obj |-> <<>>]
      BY <3>2 DEF NoTable
    <3>4. DOMAIN <<>> = {}
      OBVIOUS
    <3>5. DOMAIN table[p].obj = {}
      BY <3>3, <3>4
    <3> QED  BY <3>3, <3>5 DEF IsTable
  <2> QED  BY <2>2, <2>3
<1>5. ASSUME NEW p \in Proc
      PROVE  /\ table[p] = [nItems |-> table[p].nItems, cpl |-> table[p].cpl,
                            objValid |-> table[p].objValid, obj |-> table[p].obj]
             /\ table[p].objValid \in BOOLEAN
  <2>1. PICK n, c, v, b : table[p] = [nItems |-> n, cpl |-> c, objValid |-> v, obj |-> b] /\ v \in BOOLEAN
    BY <1>4 DEF IsTable
  <2>2. table[p].objValid = v
    BY <2>1
  <2> QED  BY <2>1, <2>2
<1>6. table = [p \in Proc |-> table[p]]
  BY DEF Init, IFInit
<1>7. table = [p \in Proc |-> [nItems |-> table[p].nItems, cpl |-> table[p].cpl,
                               objValid |-> table[p].objValid, obj |-> table[p].obj]]
  BY <1>5, <1>6
<1> QED  BY <1>1, <1>2, <1>4, <1>5, <1>7 DEF ShortcutInv, Coupled

LEMMA UnpackPhase1Shortcuts ==
  ASSUME ShortcutInv, NEW p \in Proc, UnpackPhase1(p)
  PROVE  ShortcutInv'
<1> DEFINE Adds(o) == {<<c[2], c[3]>> : c \in {x \in Asked(p) : x[1] = o}}
<1>1. /\ cpl' = [o \in Obj |-> WithCouplings(cpl[o], Adds(o))]
      /\ table' = table /\ addr' = addr
  BY DEF UnpackPhase1, ifVars
<1> HIDE DEF Adds
<1>2. \A o \in Obj : cpl'[o] = WithCouplings(cpl[o], Adds(o))
  BY <1>1
<1>3. \A o \in Obj : /\ DOMAIN cpl[o] \subseteq DOMAIN cpl'[o]
                     /\ cpl'[o] = [q \in DOMAIN cpl'[o] |-> cpl'[o][q]]
  BY <1>2, WithCouplingsDomain
<1>4. CplFunctions'
  BY <1>1, <1>3 DEF CplFunctions
<1> QED  BY <1>1, <1>3, <1>4, GrownShortcuts

LEMMA ToldShortcuts ==
  ASSUME ShortcutInv, NEW told, cpl' = Adding(told),
         \/ table' = table /\ addr' = addr
         \/ \E p \in Proc : IFAllFromScratch(p, cpl')
  PROVE  ShortcutInv'
<1>1. CplFunctions'
  BY AddingIs DEF CplFunctions
<1>2. \A o \in Obj : DOMAIN cpl[o] \subseteq DOMAIN cpl'[o]
  BY AddingIs
<1> QED  BY <1>1, <1>2, GrownShortcuts

LEMMA XferEndReturnsShortcuts ==
  ASSUME ShortcutInv, NEW p \in Proc, XferEndReturns(p)
  PROVE  ShortcutInv'
<1>1. /\ IFAllFromScratch(p, cpl')
      /\ cpl' = [o \in Obj |-> IF o \in Deleted(p) THEN NoCouplings
                               ELSE IF o \in Copies(p) THEN [q \in Keeping(o) |-> cpl[o][q]]
                               ELSE cpl[o]]
  BY DEF XferEndReturns
<1>2. \A o \in Obj : Home[o] # p => cpl'[o] = cpl[o]
  BY <1>1 DEF Deleted, Copies
<1>3. \A o \in Obj : cpl[o] = [q \in DOMAIN cpl[o] |-> cpl[o][q]]
  BY DEF ShortcutInv, CplFunctions
<1>4. ASSUME NEW o \in Obj PROVE cpl'[o] = [q \in DOMAIN cpl'[o] |-> cpl'[o][q]]
  <2>1. CASE o \in Deleted(p)
    <3>1. cpl'[o] = NoCouplings
      BY <1>1, <2>1
    <3> QED  BY <3>1 DEF NoCouplings
  <2>2. CASE o \notin Deleted(p) /\ o \in Copies(p)
    <3>1. cpl'[o] = [q \in Keeping(o) |-> cpl[o][q]]
      BY <1>1, <2>2
    <3> QED  BY <3>1
  <2>3. CASE o \notin Deleted(p) /\ o \notin Copies(p)
    BY <1>1, <1>3, <2>3
  <2> QED  BY <2>1, <2>2, <2>3
<1>5. CplFunctions'
  <2>1. cpl' = [o \in Obj |-> cpl'[o]]
    BY <1>1
  <2> QED  BY <1>4, <2>1 DEF CplFunctions
<1> QED  BY <1>1, <1>2, <1>5, LocalShortcuts

LEMMA PrioEndReturnsShortcuts ==
  ASSUME ShortcutInv, NEW p \in Proc, PrioEndReturns(p)
  PROVE  ShortcutInv'
<1>1. IFAllFromScratch(p, cpl') /\ cpl' = ScatterPrio(p)
  BY DEF PrioEndReturns
<1>2. \A o \in Obj : Home[o] # p => cpl'[o] = cpl[o]
  BY <1>1 DEF ScatterPrio
<1>3. \A o \in Obj : cpl[o] = [q \in DOMAIN cpl[o] |-> cpl[o][q]]
  BY DEF ShortcutInv, CplFunctions
<1>4. ASSUME NEW o \in Obj PROVE cpl'[o] = [q \in DOMAIN cpl'[o] |-> cpl'[o][q]]
  BY <1>1, <1>3 DEF ScatterPrio
<1>5. CplFunctions'
  <2>1. cpl' = [o \in Obj |-> cpl'[o]]
    BY <1>1 DEF ScatterPrio
  <2> QED  BY <1>4, <2>1 DEF CplFunctions
<1> QED  BY <1>1, <1>2, <1>5, LocalShortcuts

LEMMA NextShortcuts ==
  ASSUME \A o \in Moving : Home[o] \notin Explicit, ShortcutInv, [Next]_vars
  PROVE  ShortcutInv'
<1>1. ASSUME NEW p \in Proc, Advance(p) PROVE ShortcutInv'
  <2>1. CASE JoinBegin(p)
    BY <2>1, SameShortcuts DEF JoinBegin, ifVars
  <2>2. CASE JoinEnd(p)
    BY <2>2, SameShortcuts DEF JoinEnd, ifVars
  <2>3. CASE UnpackPhase1(p)
    BY <2>3, UnpackPhase1Shortcuts
  <2>4. CASE UnpackPhase2(p)
    <3>1. cpl' = Adding(Told(p, "phase2", Coupled(p, cpl))) /\ table' = table /\ addr' = addr
      BY <2>4 DEF UnpackPhase2, ifVars
    <3> QED  BY <3>1, ToldShortcuts
  <2>5. CASE JoinEndReturns(p)
    <3>1. cpl' = Adding(Told(p, "phase3", {j.obj : j \in joins[p]})) /\ IFAllFromScratch(p, cpl')
      BY <2>5 DEF JoinEndReturns
    <3> QED  BY <3>1, ToldShortcuts
  <2>6. CASE XferEndReturns(p)
    BY <2>6, XferEndReturnsShortcuts
  <2>7. CASE PrioBegin(p) \/ PrioEnd(p)
    BY <2>7, SameShortcuts DEF PrioBegin, PrioEnd, ifVars
  <2>8. CASE PrioEndReturns(p)
    BY <2>8, PrioEndReturnsShortcuts
  <2> QED  BY <1>1, <2>1, <2>2, <2>3, <2>4, <2>5, <2>6, <2>7, <2>8 DEF Advance
<1>2. CASE \/ \E p \in Proc, o \in Joining, d \in Proc : Home[o] = p /\ \E g \in Targets[o] : JoinObj(p, o, d, g)
           \/ \E p \in Proc : \E gids \in SUBSET {gid[o] : o \in Deletable \cap Copies(p)} : XferEnd(p, gids)
           \/ \E o \in Changing, r \in Prio : PrioChange(o, r) /\ UNCHANGED joinVars
           \/ UNCHANGED vars
  <2>1. table' = table /\ addr' = addr /\ cpl' = cpl
    BY <1>2 DEF JoinObj, XferEnd, PrioChange, vars, ifVars
  <2> QED  BY <2>1, SameShortcuts
<1>3. ASSUME NEW o \in Moving, Move(o) PROVE ShortcutInv'
  <2>1. o \in Obj
    BY JoinAssumption
  <2>2. HdrConstructorMove(o)
    BY <1>3 DEF Move
  <2> QED  BY <2>1, <2>2, MoveShortcuts
<1>4. ASSUME NEW p \in Proc, UseInterfaces(p) PROVE ShortcutInv'
  <2>1. CASE IFRefreshAll(p)
    <3>1. IFRebuildAll(p, cpl) /\ cpl' = cpl
      BY <2>1 DEF IFRefreshAll
    <3>2. CplFunctions'
      BY <3>1 DEF ShortcutInv, CplFunctions
    <3> QED  BY <3>1, <3>2, RebuiltShortcuts
  <2>2. CASE IFExecLocal(p)
    BY <2>2, UseShortcuts
  <2> QED  BY <1>4, <2>1, <2>2 DEF UseInterfaces
<1> QED  BY <1>1, <1>2, <1>3, <1>4 DEF Next

(* Shortcuts marked as valid are the present addresses of the objects, in    *)
(* every state, however objects move (IFInvalidateShortcuts).  Not so on a   *)
(* processor that makes its interfaces explicitly: there an object that has  *)
(* lost its couplings stays in the tables until the next DDD_IFRefreshAll,   *)
(* and moves without marking them.                                           *)
THEOREM ShortcutsHold ==
  ASSUME \A o \in Moving : Home[o] \notin Explicit
  PROVE  Spec => []ShortcutsCurrent
<1>1. Init => ShortcutInv
  BY InitShortcuts
<1>2. ShortcutInv /\ [Next]_vars => ShortcutInv'
  BY NextShortcuts
<1>3. ShortcutInv => ShortcutsCurrent
  BY DEF ShortcutInv, ShortcutsCurrent
<1> QED  BY <1>1, <1>2, <1>3, PTL DEF Spec

-------------------------------------------------------------------------------
(* The exchange of the priority environment.                                 *)

(* Who is in the environment knows the processors he shares objects with. *)
LEMMA NeighboursShare ==
  ASSUME ProtocolInv, NEW p \in Proc, NEW q \in Proc, env[p] \in PrioEnvs
  PROVE  q \in Neighbours(p, cpl) <=> q # p /\ Share(p, q)
<1> USE DEF PrioEnvs, Joins3, JoinEnvs
<1>1. StageInv /\ Barriers /\ DataInv /\ JoinTypeInv /\ KnownInv
  BY DEF ProtocolInv
<1>2. \A o \in Obj : Home[o] = p => ~Joiner(o) /\ ~Going(o, q) /\ env[Home[o]] # "xfer"
  BY DEF Joiner, Going
<1>3. ASSUME q \in Neighbours(p, cpl) PROVE q # p /\ Share(p, q)
  <2>1. PICK o \in Obj : Home[o] = p /\ cpl[o] # NoCouplings /\ q \in DOMAIN cpl[o]
    BY <1>3 DEF Neighbours, Coupled
  <2>2. gid[o] # NoGid
    BY <1>1, <2>1 DEF DataInv
  <2>3. Knows(o, q)
    BY <1>1, <2>1, <2>2 DEF KnownInv
  <2>4. q # p /\ \E x \in Copy(q, gid[o]) : ~Going(x, p)
    BY <1>2, <2>1, <2>3 DEF Knows
  <2> QED  BY <1>2, <2>1, <2>2, <2>4 DEF Share, Copy, Copies
<1>4. ASSUME q # p, Share(p, q) PROVE q \in Neighbours(p, cpl)
  <2>1. PICK o \in Obj, x \in Obj :
           Home[o] = p /\ Home[x] = q /\ gid[o] = gid[x] /\ gid[o] # NoGid /\ ~Going(x, p)
    BY <1>4 DEF Share
  <2>2. Introduced(x, p)
    <3>1. ASSUME Joiner(x) PROVE Passed(p, round[q])
      <4>1. env[q] \in Joins3 /\ joins[q] # {}
        BY <2>1, <3>1 DEF Joiner
      <4> QED  BY <1>1, <4>1, JoinersStages
    <3> QED  BY <2>1, <3>1 DEF Introduced
  <2>3. Knows(o, q)
    BY <1>2, <1>4, <2>1, <2>2 DEF Knows, Copy, Copies
  <2>4. q \in DOMAIN cpl[o]
    BY <1>1, <2>1, <2>3 DEF KnownInv
  <2>5. cpl[o] # NoCouplings
    BY <2>4 DEF NoCouplings
  <2> QED  BY <2>1, <2>4, <2>5 DEF Neighbours, Coupled
<1> QED  BY <1>3, <1>4

LEMMA NeighboursAre ==
  ASSUME ProtocolInv, NEW p \in Proc, env[p] \in PrioEnvs
  PROVE  Neighbours(p, cpl) = {q \in Proc : q # p /\ Share(p, q)}
<1>1. Neighbours(p, cpl) \subseteq Proc
  <2>1. ASSUME NEW o \in Obj, cpl[o] # NoCouplings PROVE DOMAIN cpl[o] \subseteq Proc
    <3>1. gid[o] # NoGid
      BY <2>1 DEF ProtocolInv, DataInv
    <3> QED  BY <3>1 DEF ProtocolInv, KnownInv
  <2> QED  BY <2>1 DEF Neighbours, Coupled
<1> QED  BY <1>1, NeighboursShare

LEMMA ShareSymmetric ==
  ASSUME NEW p, NEW q
  PROVE  Share(p, q) <=> Share(q, p)
  BY DEF Share

LEMMA Counts ==
  ASSUME StageInv, NEW p \in Proc
  PROVE  /\ Len(program) \in Nat /\ round[p] \in Nat
         /\ Taken(p) \in 0 .. Len(program) /\ Sent(p) \in 0 .. Len(program)
         /\ Taken(p) <= Sent(p)
  BY DEF StageInv, Taken, Sent, PrioEnvs

LEMMA DueFinite ==
  ASSUME StageInv, NEW p \in Proc, NEW q \in Proc
  PROVE  IsFiniteSet(Due(q, p)) /\ Cardinality(Due(q, p)) \in Nat
<1>1. Taken(p) + 1 \in Int /\ Sent(q) \in Int
  BY Counts
<1>2. IsFiniteSet(Taken(p) + 1 .. Sent(q))
  BY <1>1, FS_Interval
<1>3. Due(q, p) \subseteq Taken(p) + 1 .. Sent(q)
  BY DEF Due
<1> QED  BY <1>2, <1>3, FS_Subset, FS_CardinalityType

(* What other steps than those of the exchange keep: the rounds in which     *)
(* messages are sent and taken, the lists, and who shares objects, unless    *)
(* the two are equally far and outside of the environment.                   *)
RoundsKept == \A q \in Proc, k \in 1 .. Len(program) : program[k] = "prio" =>
    (k <= Taken(q)' <=> k <= Taken(q)) /\ (k <= Sent(q)' <=> k <= Sent(q))
StdKept == DOMAIN std' = Proc /\ \A a \in Proc : env'[a] \in PrioEnvs =>
    \/ env[a] \in PrioEnvs /\ std'[a] = std[a]
    \/ DOMAIN std'[a] = Neighbours(a, cpl)'
AsFar(a, b) == round[a] = round[b] /\ env[a] \notin PrioEnvs /\ env[b] \notin PrioEnvs
ShareKept == \A a, b \in Proc : a # b =>
    \/ Share(a, b)' <=> Share(a, b)
    \/ AsFar(a, b) /\ AsFar(a, b)'

LEMMA AsFarCounts ==
  ASSUME StageInv, NEW a \in Proc, NEW b \in Proc, AsFar(a, b)
  PROVE  Due(a, b) = {} /\ Taken(b) <= Sent(a)
<1>1. Taken(b) = round[b] /\ Sent(a) = round[b] /\ round[b] \in Nat
  BY DEF AsFar, StageInv, Taken, Sent, PrioEnvs
<1> QED  BY <1>1 DEF Due

(* The same in the next state. *)
CountFacts(p, q) ==
    /\ Len(program) \in Nat /\ round[p] \in Nat
    /\ Taken(p) \in 0 .. Len(program) /\ Sent(p) \in 0 .. Len(program)
    /\ IsFiniteSet(Due(q, p)) /\ Cardinality(Due(q, p)) \in Nat
    /\ AsFar(q, p) => Due(q, p) = {} /\ Taken(p) <= Sent(q)
    /\ env[p] \in PrioEnvs => Neighbours(p, cpl) = {x \in Proc : x # p /\ Share(p, x)}

LEMMA NextCounts ==
  ASSUME NEW p \in Proc, NEW q \in Proc
  PROVE  ProtocolInv' => CountFacts(p, q)'
<1>1. ProtocolInv => CountFacts(p, q)
  BY Counts, DueFinite, AsFarCounts, NeighboursAre DEF ProtocolInv, CountFacts
<1> QED  BY <1>1, PTL

LEMMA ExchangeKept ==
  ASSUME ProtocolInv, ProtocolInv', ExchangeInv, chan' = chan, program' = program,
         RoundsKept, StdKept, ShareKept
  PROVE  ExchangeInv'
<1>1. StageInv /\ StageInv'
  BY DEF ProtocolInv
<1>2. SeqInv'
  BY DEF ExchangeInv, SeqInv
<1>3. StdInv'
  <2>1. ASSUME NEW a \in Proc, env'[a] \in PrioEnvs, env[a] \in PrioEnvs, std'[a] = std[a]
        PROVE  DOMAIN std'[a] = Neighbours(a, cpl)'
    <3>1. DOMAIN std[a] = Neighbours(a, cpl)
      BY <2>1 DEF ExchangeInv, StdInv
    <3>2. Neighbours(a, cpl) = {q \in Proc : q # a /\ Share(a, q)}
      BY <2>1, NeighboursAre
    <3>3. Neighbours(a, cpl)' = {q \in Proc : q # a /\ Share(a, q)'}
      BY <2>1, NextCounts DEF CountFacts
    <3>4. \A q \in Proc : q # a => (Share(a, q)' <=> Share(a, q))
      BY <2>1 DEF ShareKept, AsFar
    <3>5. Neighbours(a, cpl)' = Neighbours(a, cpl)
      BY <3>2, <3>3, <3>4
    <3> QED  BY <2>1, <3>1, <3>5
  <2> QED  BY <2>1 DEF StdInv, StdKept
<1>4. ASSUME NEW p \in Proc, NEW q \in Proc, p # q
      PROVE  /\ Len(chan'[q][p]) = IF Share(p, q)' THEN Cardinality(Due(q, p))' ELSE 0
             /\ Share(p, q)' => \A k \in 1 .. Taken(p)' : program'[k] = "prio" => k <= Sent(q)'
  <2>1. Len(chan'[q][p]) = IF Share(p, q) THEN Cardinality(Due(q, p)) ELSE 0
    BY <1>4 DEF ExchangeInv, CountInv
  <2>2. CASE Share(p, q)' <=> Share(p, q)
    <3>1. /\ Taken(p) \in 0 .. Len(program) /\ Sent(q) \in 0 .. Len(program) /\ Len(program) \in Nat
          /\ Taken(p)' \in 0 .. Len(program) /\ Sent(q)' \in 0 .. Len(program)
      BY <1>1, Counts, NextCounts DEF CountFacts
    <3>2. \A k \in 1 .. Len(program) : program[k] = "prio" =>
            (k <= Taken(p)' <=> k <= Taken(p)) /\ (k <= Sent(q)' <=> k <= Sent(q))
      BY DEF RoundsKept
    <3>3. Due(q, p)' = Due(q, p)
      <4>1. \A k : k \in Due(q, p) <=>
              k \in 1 .. Len(program) /\ k > Taken(p) /\ k <= Sent(q) /\ program[k] = "prio"
        BY <3>1 DEF Due
      <4>2. \A k : k \in Due(q, p)' <=>
              k \in 1 .. Len(program) /\ k > Taken(p)' /\ k <= Sent(q)' /\ program[k] = "prio"
        BY <3>1 DEF Due
      <4>3. \A k \in 1 .. Len(program) : (k > Taken(p) <=> ~(k <= Taken(p))) /\ (k > Taken(p)' <=> ~(k <= Taken(p)'))
        BY <3>1
      <4>4. \A k : k \in Due(q, p)' <=> k \in Due(q, p)
        BY <3>2, <4>1, <4>2, <4>3
      <4> QED  BY <4>4
    <3>4. Share(p, q) => \A k \in 1 .. Taken(p) : program[k] = "prio" => k <= Sent(q)
      BY <1>4 DEF ExchangeInv, NotAhead
    <3>5. ASSUME Share(p, q), NEW k \in 1 .. Taken(p)', program[k] = "prio" PROVE k <= Sent(q)'
      <4>1. k \in 1 .. Len(program) /\ k <= Taken(p)'
        BY <3>1
      <4>2. k <= Taken(p)
        BY <3>2, <3>5, <4>1
      <4>3. k <= Sent(q)
        BY <3>1, <3>4, <3>5, <4>1, <4>2
      <4> QED  BY <3>2, <3>5, <4>1, <4>3
    <3>6. Cardinality(Due(q, p))' = Cardinality(Due(q, p))
      BY <3>3
    <3> QED  BY <2>1, <2>2, <3>5, <3>6
  <2>3. CASE AsFar(q, p) /\ AsFar(q, p)'
    <3>1. Due(q, p) = {} /\ Due(q, p)' = {} /\ Taken(p)' <= Sent(q)'
      BY <1>1, <2>3, AsFarCounts, NextCounts DEF CountFacts
    <3>2. Cardinality({}) = 0
      BY FS_EmptySet
    <3>3. Cardinality(Due(q, p)) = 0 /\ Cardinality(Due(q, p))' = 0
      BY <3>1, <3>2
    <3>4. Taken(p)' \in Nat /\ Sent(q)' \in Nat
      BY <1>1, Counts, NextCounts DEF CountFacts
    <3> QED  BY <2>1, <3>1, <3>3, <3>4
  <2>4. AsFar(p, q) => AsFar(q, p)
    BY DEF AsFar
  <2>5. AsFar(p, q)' => AsFar(q, p)'
    BY DEF AsFar
  <2> QED  BY <1>4, <2>2, <2>3, <2>4, <2>5 DEF ShareKept
<1> QED  BY <1>2, <1>3, <1>4 DEF ExchangeInv, CountInv, NotAhead

LEMMA KeptGoing ==
  ASSUME StageInv, StagesKept({"xfer"}), gid' = gid, deleted' = deleted
  PROVE  \A x \in Obj, p \in Proc : Going(x, p)' <=> Going(x, p)
<1>1. \A x \in Obj : Home[x] \in Proc
  BY InterfacesAssumption
<1>2. ASSUME NEW x \in Obj, NEW p \in Proc PROVE Going(x, p)' <=> Going(x, p)
  <2>1. env'[Home[x]] = "xfer" <=> env[Home[x]] = "xfer"
    BY <1>1 DEF StagesKept
  <2>2. env[Home[x]] = "xfer" => round'[Home[x]] = round[Home[x]]
    BY <1>1 DEF StagesKept
  <2>3. env[Home[x]] = "xfer" => (Passed(p, round[Home[x]])' <=> Passed(p, round[Home[x]]))
    BY <1>1 DEF StagesKept
  <2>4. env[Home[x]] = "xfer" => (Deletes(Home[x], Home[x], x)' <=> Deletes(Home[x], Home[x], x))
    BY <2>2 DEF Deletes
  <2> QED  BY <2>1, <2>3, <2>4 DEF Going
<1> QED  BY <1>2

LEMMA KeptShare ==
  ASSUME StageInv, StagesKept({"xfer"}), gid' = gid, deleted' = deleted
  PROVE  ShareKept
  BY KeptGoing DEF Share, ShareKept

(* The steps that leave the rounds of messages alone. *)
LEMMA BeginRounds ==
  ASSUME StageInv, NEW p \in Proc, NEW x, NEW first, Begin(p, x, first),
         \/ x = "join" /\ first = "joinCmds"
         \/ x = "prio" /\ first = "prioCmds"
         \/ x = "xfer" /\ first = "xfer"
  PROVE  RoundsKept
<1>1. /\ env[p] = "idle" /\ program[round[p] + 1] = x
      /\ round' = [round EXCEPT ![p] = round[p] + 1] /\ env' = [env EXCEPT ![p] = first]
  BY DEF Begin
<1>2. round'[p] = round[p] + 1 /\ env'[p] = first /\ round[p] \in Nat
  BY <1>1 DEF StageInv
<1>3. \A a \in Proc : a # p => round'[a] = round[a] /\ env'[a] = env[a]
  BY <1>1 DEF StageInv
<1>4. ASSUME NEW a \in Proc, NEW k \in 1 .. Len(program), program[k] = "prio"
      PROVE  (k <= Taken(a)' <=> k <= Taken(a)) /\ (k <= Sent(a)' <=> k <= Sent(a))
  <2>1. CASE a # p
    BY <1>3, <2>1 DEF Taken, Sent
  <2>2. CASE a = p
    <3>1. Taken(a) = round[p] /\ Sent(a) = round[p]
      BY <1>1, <2>2 DEF Taken, Sent, PrioEnvs
    <3>2. CASE x = "prio"
      <4>1. Taken(a)' = round[p] /\ Sent(a)' = round[p]
        BY <1>2, <2>2, <3>2 DEF Taken, Sent, PrioEnvs
      <4> QED  BY <3>1, <4>1
    <3>3. CASE x # "prio"
      <4>1. Taken(a)' = round[p] + 1 /\ Sent(a)' = round[p] + 1
        BY <1>2, <2>2, <3>3 DEF Taken, Sent, PrioEnvs
      <4>2. k # round[p] + 1
        BY <1>1, <1>4, <3>3
      <4>3. k \in Nat
        BY <1>4
      <4> QED  BY <1>2, <3>1, <4>1, <4>2, <4>3
    <3> QED  BY <3>2, <3>3
  <2> QED  BY <2>1, <2>2
<1> QED  BY <1>4 DEF RoundsKept

LEMMA StepRounds ==
  ASSUME StageInv, NEW p \in Proc, NEW from \in JoinEnvs \cup {"xfer"},
         NEW to \in Joins3 \cup {"idle"}, Step(p, from, to)
  PROVE  RoundsKept /\ (from # "xfer" => StagesKept({"xfer"}))
<1> USE DEF Joins3, JoinEnvs, PrioEnvs
<1>1. env[p] = from /\ env' = [env EXCEPT ![p] = to] /\ round' = round
  BY DEF Step
<1>2. env'[p] = to /\ \A a \in Proc : a # p => env'[a] = env[a]
  BY <1>1 DEF StageInv
<1>3. \A a \in Proc : Taken(a)' = Taken(a) /\ Sent(a)' = Sent(a)
  BY <1>1, <1>2 DEF Taken, Sent
<1>4. \A a \in Proc : round[a] \in Nat
  BY DEF StageInv
<1>5. ASSUME from # "xfer" PROVE StagesKept({"xfer"})
  <2>1. program[round[p]] = "join"
    BY <1>1, <1>5 DEF StageInv
  <2>2. ASSUME NEW a \in Proc, NEW k, program[k] = "xfer"
        PROVE  (round'[a] > k \/ (round'[a] = k /\ env'[a] = "idle")) <=> Passed(a, k)
    <3>1. a = p => round[a] # k
      BY <2>1, <2>2
    <3> QED  BY <1>1, <1>2, <3>1 DEF Passed
  <2>3. ASSUME NEW a \in Proc, NEW b \in Proc, env[b] = "xfer"
        PROVE  Passed(a, round[b])' <=> Passed(a, round[b])
    <3>1. program[round[b]] = "xfer" /\ round'[b] = round[b]
      BY <1>1, <2>3 DEF StageInv
    <3> QED  BY <2>2, <3>1 DEF Passed
  <2>4. ASSUME NEW a \in Proc, NEW k \in 1 .. Len(program), program[k] = "xfer"
        PROVE  Passed(a, k)' <=> Passed(a, k)
    BY <2>2, <2>4 DEF Passed
  <2>5. ASSUME NEW a \in Proc
        PROVE  /\ round'[a] >= round[a]
               /\ env[a] = "xfer" => env'[a] = env[a] /\ round'[a] = round[a]
               /\ env'[a] = "xfer" => env'[a] = env[a]
    <3>1. CASE a = p
      BY <1>1, <1>2, <1>4, <1>5, <3>1
    <3>2. CASE a # p
      BY <1>1, <1>2, <1>4, <3>2
    <3> QED  BY <3>1, <3>2
  <2> QED  BY <2>3, <2>4, <2>5 DEF StagesKept
<1> QED  BY <1>3, <1>5 DEF RoundsKept

LEMMA StayRounds ==
  ASSUME StageInv, env' = env, round' = round
  PROVE  RoundsKept /\ StagesKept({"xfer"})
<1>1. \A a \in Proc : Taken(a)' = Taken(a) /\ Sent(a)' = Sent(a)
  BY DEF Taken, Sent
<1>2. \A a \in Proc : round[a] >= round[a]
  BY DEF StageInv
<1> QED  BY <1>1, <1>2 DEF RoundsKept, StagesKept, Passed

(* Lists of the standard interface. *)
LEMMA RebuiltStd ==
  ASSUME StdInv, NEW p \in Proc, NEW cpls, IFAllFromScratch(p, cpls) \/ IFRebuildAll(p, cpls) \/ UNCHANGED std,
         env'[p] \notin PrioEnvs, \A a \in Proc : a # p => env'[a] = env[a]
  PROVE  StdKept
<1>1. std' = std \/ std' = [std EXCEPT ![p] = IFCollectStdCouplings(p, cpls)]
  BY DEF IFAllFromScratch, IFRebuildAll, ifVars
<1>2. DOMAIN std' = Proc /\ \A a \in Proc : a # p => std'[a] = std[a]
  BY <1>1 DEF StdInv
<1> QED  BY <1>2 DEF StdKept

LEMMA XferStages ==
  ASSUME StagesKept(JoinEnvs \cup {"xfer"})
  PROVE  StagesKept({"xfer"})
  BY DEF StagesKept

LEMMA BeginXferStages ==
  ASSUME StageInv, NEW p \in Proc, NEW x, NEW first, Begin(p, x, first),
         \/ x = "join" /\ first = "joinCmds"
         \/ x = "prio" /\ first = "prioCmds"
  PROVE  StagesKept({"xfer"})
<1>1. first # "xfer"
  OBVIOUS
<1>2. StagesKept(JoinEnvs) /\ (first # "xfer" => StagesKept(JoinEnvs \cup {"xfer"}))
  BY BeginKeepsStages
<1> QED  BY <1>1, <1>2, XferStages

(* The steps that change no global ids, and delete none. *)
LEMMA QuietExchange ==
  ASSUME ProtocolInv, ProtocolInv', ExchangeInv, NEW p \in Proc,
         \/ JoinBegin(p) \/ UnpackPhase1(p) \/ UnpackPhase2(p) \/ JoinEndReturns(p)
         \/ PrioBegin(p) /\ UNCHANGED joinVars
         \/ UseInterfaces(p) /\ UNCHANGED joinVars
         \/ \E o \in Joining, d \in Proc : Home[o] = p /\ \E g \in Targets[o] : JoinObj(p, o, d, g)
         \/ \E o \in Changing, r \in Prio : PrioChange(o, r) /\ UNCHANGED joinVars
         \/ \E o \in Moving : Move(o) /\ UNCHANGED joinVars
         \/ UNCHANGED vars
  PROVE  ExchangeInv'
<1>1. StageInv /\ StdInv
  BY DEF ProtocolInv, ExchangeInv
<1>2. CASE JoinBegin(p)
  <2>1. Begin(p, "join", "joinCmds") /\ UNCHANGED <<gid, deleted, chan, std>>
    BY <1>2 DEF JoinBegin, ifVars, joinVars
  <2>2. RoundsKept /\ StagesKept({"xfer"}) /\ program' = program
    <3>1. RoundsKept
      BY <1>1, <2>1, BeginRounds
    <3>2. StagesKept({"xfer"})
      BY <1>1, <2>1, BeginXferStages
    <3> QED  BY <2>1, <3>1, <3>2 DEF Begin
  <2>3. env'[p] = "joinCmds" /\ \A a \in Proc : a # p => env'[a] = env[a]
    BY <1>1, <2>1 DEF Begin, StageInv
  <2>4. StdKept
    BY <1>1, <2>1, <2>3, RebuiltStd DEF PrioEnvs
  <2> QED  BY <1>1, <2>1, <2>2, <2>4, KeptShare, ExchangeKept
<1>3. CASE PrioBegin(p) /\ UNCHANGED joinVars
  <2>1. Begin(p, "prio", "prioCmds") /\ UNCHANGED <<gid, cpl, deleted, chan, std>>
    BY <1>3 DEF PrioBegin, ifVars, joinVars
  <2>2. RoundsKept /\ StagesKept({"xfer"}) /\ program' = program
    <3>1. RoundsKept
      BY <1>1, <2>1, BeginRounds
    <3>2. StagesKept({"xfer"})
      BY <1>1, <2>1, BeginXferStages
    <3> QED  BY <2>1, <3>1, <3>2 DEF Begin
  <2>3. env'[p] = "prioCmds" /\ \A a \in Proc : a # p => env'[a] = env[a]
    BY <1>1, <2>1 DEF Begin, StageInv
  <2>4. std[p] = IFCollectStdCouplings(p, cpl)
    BY <2>1 DEF Begin
  <2>5. DOMAIN std'[p] = Neighbours(p, cpl)
    BY <2>1, <2>4 DEF IFCollectStdCouplings
  <2>6. Neighbours(p, cpl)' = Neighbours(p, cpl)
    BY <2>1 DEF Neighbours, Coupled
  <2>7. StdKept
    BY <1>1, <2>1, <2>3, <2>5, <2>6 DEF StdKept, StdInv
  <2> QED  BY <1>1, <2>1, <2>2, <2>7, KeptShare, ExchangeKept
<1>4. CASE UnpackPhase1(p) \/ UnpackPhase2(p) \/ JoinEndReturns(p)
  <2>1. PICK from \in JoinEnvs, to \in Joins3 \cup {"idle"} : Step(p, from, to)
    BY <1>4 DEF UnpackPhase1, UnpackPhase2, JoinEndReturns, JoinEnvs, Joins3
  <2>2. UNCHANGED <<gid, deleted, chan>> /\ (UNCHANGED std \/ IFAllFromScratch(p, cpl'))
    BY <1>4 DEF UnpackPhase1, UnpackPhase2, JoinEndReturns, ifVars
  <2>3. RoundsKept /\ StagesKept({"xfer"}) /\ program' = program
    BY <1>1, <2>1, StepRounds DEF Step, JoinEnvs, Joins3
  <2>4. env'[p] = to /\ \A a \in Proc : a # p => env'[a] = env[a]
    BY <1>1, <2>1 DEF Step, StageInv
  <2>5. StdKept
    BY <1>1, <2>2, <2>4, RebuiltStd DEF PrioEnvs, Joins3
  <2> QED  BY <1>1, <2>2, <2>3, <2>5, KeptShare, ExchangeKept
<1>5. CASE UseInterfaces(p) /\ UNCHANGED joinVars
  <2>1. UNCHANGED <<gid, deleted, chan, env, round, program>> /\ env[p] = "idle"
    BY <1>5 DEF UseInterfaces, IFRefreshAll, IFExecLocal, envVars, joinVars
  <2>2. UNCHANGED std \/ IFRebuildAll(p, cpl)
    BY <1>5 DEF UseInterfaces, IFRefreshAll, IFExecLocal
  <2>3. StdKept
    BY <1>1, <2>1, <2>2, RebuiltStd DEF PrioEnvs
  <2> QED  BY <1>1, <2>1, <2>3, StayRounds, KeptShare, ExchangeKept
<1>6. CASE \/ \E o \in Joining, d \in Proc : Home[o] = p /\ \E g \in Targets[o] : JoinObj(p, o, d, g)
           \/ \E o \in Changing, r \in Prio : PrioChange(o, r) /\ UNCHANGED joinVars
           \/ \E o \in Moving : Move(o) /\ UNCHANGED joinVars
           \/ UNCHANGED vars
  <2>1. UNCHANGED <<gid, deleted, chan, env, round, program, std>>
    BY <1>6 DEF JoinObj, PrioChange, Move, HdrConstructorMove, ifVars, envVars, joinVars, vars
  <2>2. StdKept
    BY <1>1, <2>1 DEF StdKept, StdInv
  <2> QED  BY <1>1, <2>1, <2>2, StayRounds, KeptShare, ExchangeKept
<1> QED  BY <1>2, <1>3, <1>4, <1>5, <1>6

(* Objects that join: all others are in the same environment. *)
LEMMA JoinEndExchange ==
  ASSUME ProtocolInv, ProtocolInv', ExchangeInv, NEW p \in Proc, JoinEnd(p)
  PROVE  ExchangeInv'
<1> USE DEF JoinEnvs, Joins3, PrioEnvs
<1>1. StageInv /\ StdInv /\ Barriers /\ JoinTypeInv
  BY DEF ProtocolInv, ExchangeInv
<1>2. Step(p, "joinCmds", "phase1") /\ UNCHANGED <<deleted, chan, std>>
  BY DEF JoinEnd, ifVars
<1>3. RoundsKept /\ StagesKept({"xfer"}) /\ program' = program /\ round' = round
  BY <1>1, <1>2, StepRounds DEF Step
<1>4. env[p] = "joinCmds" /\ env'[p] = "phase1" /\ \A a \in Proc : a # p => env'[a] = env[a]
  BY <1>1, <1>2 DEF Step, StageInv
<1>5. StdKept
  BY <1>1, <1>2, <1>4, RebuiltStd
<1>6. CASE joins[p] = {}
  <2>1. gid' = [o \in Obj |-> gid[o]]
    BY <1>6 DEF JoinEnd
  <2>2. gid' = gid
    BY <2>1 DEF ProtocolInv, DataInv
  <2> QED  BY <1>1, <1>2, <1>3, <1>5, <2>2, KeptShare, ExchangeKept
<1>7. CASE joins[p] # {}
  <2>1. \A a \in Proc : round[a] = round[p] /\ env[a] \in {"joinCmds", "phase1"}
    BY <1>1, <1>4, <1>7, JoinersStages
  <2>2. \A a \in Proc : env'[a] \in {"joinCmds", "phase1"}
    BY <1>4, <2>1
  <2>3. ShareKept
    BY <1>3, <2>1, <2>2 DEF ShareKept, AsFar
  <2> QED  BY <1>2, <1>3, <1>5, <2>3, ExchangeKept
<1> QED  BY <1>6, <1>7

LEMMA XferEndExchange ==
  ASSUME ProtocolInv, ProtocolInv', ExchangeInv, NEW p \in Proc, NEW gids, XferEnd(p, gids)
  PROVE  ExchangeInv'
<1> USE DEF PrioEnvs
<1>1. StageInv /\ StdInv /\ Barriers /\ DataInv
  BY DEF ProtocolInv, ExchangeInv
<1>2. Begin(p, "xfer", "xfer") /\ UNCHANGED <<gid, chan, std>>
      /\ deleted' = [deleted EXCEPT ![p] = @ \cup ({round'[p]} \X gids)]
  BY DEF XferEnd, ifVars
<1>3. RoundsKept
  BY <1>1, <1>2, BeginRounds
<1>4. /\ env[p] = "idle" /\ round[p] \in Nat /\ program[round[p] + 1] = "xfer" /\ round[p] + 1 \in 1 .. Len(program)
      /\ program' = program
      /\ env'[p] = "xfer" /\ \A a \in Proc : a # p => env'[a] = env[a]
      /\ round'[p] = round[p] + 1 /\ \A a \in Proc : a # p => round'[a] = round[a]
  BY <1>1, <1>2 DEF Begin, StageInv
<1>5. StdKept
  BY <1>1, <1>2, <1>4, RebuiltStd
<1>6. \A x \in Obj : Home[x] \in Proc
  BY InterfacesAssumption
<1>7. \A a \in Proc, k \in Nat : Passed(a, k)' <=> Passed(a, k)
  <2>1. ASSUME NEW a \in Proc, NEW k \in Nat
        PROVE  (round'[a] > k \/ (round'[a] = k /\ env'[a] = "idle")) <=> Passed(a, k)
    <3>1. CASE a = p
      BY <1>4, <3>1 DEF Passed
    <3>2. CASE a # p
      BY <1>4, <3>2 DEF Passed
    <3> QED  BY <3>1, <3>2
  <2> QED  BY <2>1 DEF Passed
<1>8. ASSUME NEW x \in Obj, NEW a \in Proc PROVE Going(x, a)' <=> Going(x, a)
  <2>1. CASE Home[x] = p
    <3>1. ~Going(x, a)
      BY <1>4, <2>1 DEF Going
    <3>2. ~Passed(a, round[p] + 1)
      <4>1. Barrier(a, p)
        BY <1>1 DEF Barriers
      <4> QED  BY <1>4, <4>1 DEF Barrier
    <3>3. ~Passed(a, round[p])'
      <4>1. PICK k \in Nat : k = round[p] + 1
        BY <1>4
      <4>2. ~Passed(a, k)' /\ round'[p] = k
        BY <1>4, <1>7, <3>2, <4>1
      <4> QED  BY <4>2 DEF Passed
    <3>4. ~Going(x, a)'
      BY <2>1, <3>3 DEF Going
    <3> QED  BY <3>1, <3>4
  <2>2. CASE Home[x] # p
    <3>1. env'[Home[x]] = env[Home[x]] /\ round'[Home[x]] = round[Home[x]] /\ round[Home[x]] \in Nat
      BY <1>1, <1>4, <1>6, <2>2 DEF StageInv
    <3>2. deleted'[Home[x]] = deleted[Home[x]]
      BY <1>1, <1>2, <1>6, <2>2 DEF DataInv
    <3>3. Passed(a, round[Home[x]])' <=> Passed(a, round[Home[x]])
      <4>1. (round'[a] > round[Home[x]] \/ (round'[a] = round[Home[x]] /\ env'[a] = "idle")) <=> Passed(a, round[Home[x]])
        BY <1>7, <3>1 DEF Passed
      <4> QED  BY <3>1, <4>1 DEF Passed
    <3>4. Deletes(Home[x], Home[x], x)' <=> Deletes(Home[x], Home[x], x)
      BY <1>2, <3>1, <3>2 DEF Deletes
    <3> QED  BY <3>1, <3>3, <3>4 DEF Going
  <2> QED  BY <2>1, <2>2
<1>9. ShareKept
  BY <1>2, <1>8 DEF ShareKept, Share
<1> QED  BY <1>2, <1>3, <1>4, <1>5, <1>9, ExchangeKept

LEMMA XferEndReturnsExchange ==
  ASSUME ProtocolInv, ProtocolInv', ExchangeInv, NEW p \in Proc, XferEndReturns(p)
  PROVE  ExchangeInv'
<1> USE DEF PrioEnvs, Envs, JoinEnvs, Joins3
<1>1. StageInv /\ StdInv /\ DataInv
  BY DEF ProtocolInv, ExchangeInv
<1>2. /\ Step(p, "xfer", "idle") /\ UNCHANGED <<deleted, chan>> /\ IFAllFromScratch(p, cpl')
      /\ gid' = [o \in Obj |-> IF o \in Deleted(p) THEN NoGid ELSE gid[o]]
      /\ \A q \in Proc : round[q] >= round[p]
  BY DEF XferEndReturns
<1>3. RoundsKept /\ program' = program /\ round' = round
  BY <1>1, <1>2, StepRounds DEF Step
<1>4. /\ env[p] = "xfer" /\ env'[p] = "idle" /\ \A a \in Proc : a # p => env'[a] = env[a]
      /\ program[round[p]] = "xfer" /\ round[p] \in Nat
  BY <1>1, <1>2 DEF Step, StageInv
<1>5. StdKept
  BY <1>1, <1>2, <1>4, RebuiltStd
<1>6. \A x \in Obj : Home[x] \in Proc
  BY InterfacesAssumption
<1>7. \A o \in Obj : gid'[o] = IF o \in Deleted(p) THEN NoGid ELSE gid[o]
  BY <1>2
<1>8. \A o \in Deleted(p) : Home[o] = p /\ gid[o] # NoGid /\ Deletes(p, p, o)
  BY DEF Deleted, Copies
<1>9. PICK r \in Nat : r = round[p]
  BY <1>4
<1>10. /\ round'[p] = r /\ program[r] = "xfer" /\ env[p] = "xfer"
       /\ \A q \in Proc : round[q] >= r /\ round[q] \in Nat /\ round'[q] = round[q]
  BY <1>1, <1>2, <1>3, <1>4, <1>9 DEF StageInv
<1>11. ASSUME NEW a \in Proc, NEW k \in Nat, a # p \/ k # r PROVE Passed(a, k)' <=> Passed(a, k)
  BY <1>3, <1>4, <1>9, <1>11 DEF Passed
(* A pair of other processors. *)
<1>12. ASSUME NEW x \in Obj, NEW a \in Proc, a # p, Home[x] # p PROVE Going(x, a)' <=> Going(x, a)
  <2>1. /\ env'[Home[x]] = env[Home[x]] /\ gid'[x] = gid[x]
        /\ round'[Home[x]] = round[Home[x]] /\ round[Home[x]] \in Nat
    BY <1>3, <1>4, <1>6, <1>7, <1>8, <1>10, <1>12
  <2>2. PICK k \in Nat : k = round[Home[x]]
    BY <2>1
  <2>3. Passed(a, k)' <=> Passed(a, k)
    BY <1>11, <1>12
  <2>4. Passed(a, round[Home[x]])' <=> Passed(a, round[Home[x]])
    BY <2>1, <2>2, <2>3 DEF Passed
  <2>5. Deletes(Home[x], Home[x], x)' <=> Deletes(Home[x], Home[x], x)
    BY <1>2, <2>1 DEF Deletes
  <2> QED  BY <2>1, <2>4, <2>5 DEF Going
<1>13. ASSUME NEW a \in Proc, NEW b \in Proc, a # p, b # p PROVE Share(a, b)' <=> Share(a, b)
  <2>1. \A o \in Obj : Home[o] # p => gid'[o] = gid[o]
    BY <1>7, <1>8
  <2> QED  BY <1>12, <1>13, <2>1 DEF Share
(* p and one that is through the transfer. *)
<1>14. ASSUME NEW q \in Proc, q # p, Passed(q, r) PROVE Share(p, q)' <=> Share(p, q)
  <2>1. ASSUME NEW x \in Obj, Home[x] = q PROVE ~Going(x, p) /\ ~Going(x, p)' /\ gid'[x] = gid[x]
    <3>1. env[q] = "xfer" => round[q] > r
      BY <1>14 DEF Passed
    <3>2. PICK k \in Nat : k = round[q]
      BY <1>10
    <3>3. k > r => ~Passed(p, k) /\ ~Passed(p, k)'
      BY <1>10, <1>9, <3>2 DEF Passed
    <3>4. k > r => ~Passed(p, round[q]) /\ ~Passed(p, round[q])'
      BY <1>10, <3>2, <3>3 DEF Passed
    <3>5. env'[q] = env[q]
      BY <1>4, <1>14
    <3>6. gid'[x] = gid[x]
      BY <1>7, <1>8, <1>14, <2>1
    <3> QED  BY <2>1, <3>1, <3>2, <3>4, <3>5, <3>6 DEF Going
  <2>2. ASSUME NEW o \in Obj, Home[o] = p
        PROVE  /\ ~Going(o, q)'
               /\ Going(o, q) <=> Deletes(p, p, o)
    <3>1. env'[p] # "xfer"
      BY <1>4
    <3>2. Going(o, q) <=> Deletes(p, p, o)
      BY <1>4, <1>9, <1>14, <2>2 DEF Going
    <3> QED  BY <2>2, <3>1, <3>2 DEF Going
  <2>3. \A o \in Obj : Home[o] = p => /\ gid'[o] # NoGid <=> gid[o] # NoGid /\ ~Deletes(p, p, o)
                                      /\ gid'[o] # NoGid => gid'[o] = gid[o]
    BY <1>7 DEF Deleted, Copies
  <2>4. ASSUME NEW o \in Obj, NEW x \in Obj, Home[o] = p, Home[x] = q
        PROVE  (gid'[o] = gid'[x] /\ gid'[o] # NoGid /\ ~Going(x, p)' /\ ~Going(o, q)')
               <=> (gid[o] = gid[x] /\ gid[o] # NoGid /\ ~Going(x, p) /\ ~Going(o, q))
    BY <2>1, <2>2, <2>3, <2>4
  <2>5. Share(p, q)' <=> \E o, x \in Obj :
          /\ Home[o] = p /\ Home[x] = q
          /\ gid'[o] = gid'[x] /\ gid'[o] # NoGid /\ ~Going(x, p)' /\ ~Going(o, q)'
    BY DEF Share
  <2>6. Share(p, q) <=> \E o, x \in Obj :
          /\ Home[o] = p /\ Home[x] = q
          /\ gid[o] = gid[x] /\ gid[o] # NoGid /\ ~Going(x, p) /\ ~Going(o, q)
    BY DEF Share
  <2> QED  BY <2>4, <2>5, <2>6
(* p and one that is not. *)
<1>15. ASSUME NEW q \in Proc, q # p, ~Passed(q, r) PROVE AsFar(p, q) /\ AsFar(p, q)'
  <2>1. round[q] = r /\ env[q] # "idle"
    BY <1>10, <1>15 DEF Passed
  <2>2. env[q] = "xfer"
    BY <1>1, <1>10, <2>1 DEF StageInv
  <2> QED  BY <1>3, <1>4, <1>9, <1>15, <2>1, <2>2 DEF AsFar
<1>16. ShareKept
  <2>1. ASSUME NEW q \in Proc, q # p
        PROVE  (Share(p, q)' <=> Share(p, q)) \/ (AsFar(p, q) /\ AsFar(p, q)')
    BY <1>14, <1>15, <2>1
  <2>2. \A q \in Proc : /\ Share(q, p) <=> Share(p, q)
                        /\ AsFar(q, p) <=> AsFar(p, q)
    BY DEF Share, AsFar
  <2>3. \A q \in Proc : /\ Share(q, p)' <=> Share(p, q)'
                        /\ AsFar(q, p)' <=> AsFar(p, q)'
    BY DEF Share, AsFar
  <2> QED  BY <1>13, <2>1, <2>2, <2>3 DEF ShareKept
<1> QED  BY <1>2, <1>3, <1>5, <1>16, ExchangeKept

(* The exchange itself. *)
LEMMA PrioStepFacts ==
  ASSUME StageInv, NEW p \in Proc, NEW from, NEW to, Step(p, from, to),
         <<from, to>> \in {<<"prioCmds", "prioExchange">>, <<"prioExchange", "idle">>}
  PROVE  /\ program' = program /\ round' = round /\ env[p] = from /\ env'[p] = to
         /\ \A a \in Proc : a # p => env'[a] = env[a] /\ Taken(a)' = Taken(a) /\ Sent(a)' = Sent(a)
         /\ round[p] \in 1 .. Len(program) /\ program[round[p]] = "prio"
         /\ Taken(p) = round[p] - 1
         /\ Sent(p) = IF from = "prioCmds" THEN round[p] - 1 ELSE round[p]
         /\ Taken(p)' = IF to = "idle" THEN round[p] ELSE round[p] - 1
         /\ Sent(p)' = round[p]
         /\ StagesKept({"xfer"})
<1> USE DEF PrioEnvs
<1>1. program' = program /\ round' = round /\ env[p] = from /\ env' = [env EXCEPT ![p] = to]
  BY DEF Step
<1>2. env'[p] = to /\ \A a \in Proc : a # p => env'[a] = env[a]
  BY <1>1 DEF StageInv
<1>3. round[p] \in 1 .. Len(program) /\ program[round[p]] = "prio"
  BY <1>1 DEF StageInv
<1>4. StagesKept({"xfer"})
  <2>1. Step(p, "prioCmds", "prioExchange") \/ Step(p, "prioExchange", "idle")
    OBVIOUS
  <2> QED  BY <2>1, PrioStepKeepsStages, XferStages
<1>5. \A a \in Proc : a # p => Taken(a)' = Taken(a) /\ Sent(a)' = Sent(a)
  BY <1>1, <1>2 DEF Taken, Sent
<1>6. /\ Taken(p) = round[p] - 1
      /\ Sent(p) = IF from = "prioCmds" THEN round[p] - 1 ELSE round[p]
  BY <1>1 DEF Taken, Sent
<1>7. /\ Taken(p)' = IF to = "idle" THEN round[p] ELSE round[p] - 1
      /\ Sent(p)' = round[p]
  BY <1>1, <1>2 DEF Taken, Sent
<1> QED  BY <1>1, <1>2, <1>3, <1>4, <1>5, <1>6, <1>7

LEMMA PrioEndExchange ==
  ASSUME ProtocolInv, ProtocolInv', ExchangeInv, NEW p \in Proc, PrioEnd(p), UNCHANGED joinVars
  PROVE  ExchangeInv'
<1> USE DEF PrioEnvs
<1> DEFINE r == round[p]
           msg(q) == [i \in DOMAIN std[p][q] |-> prio[std[p][q][i]]]
<1>1. StageInv /\ StdInv
  BY DEF ProtocolInv, ExchangeInv
<1>2. Step(p, "prioCmds", "prioExchange") /\ UNCHANGED <<gid, deleted, cpl, std>>
      /\ chan' = [chan EXCEPT ![p] = [q \in Proc |->
                    IF q \in DOMAIN std[p] THEN Append(chan[p][q], msg(q)) ELSE chan[p][q]]]
  BY DEF PrioEnd, ifVars, joinVars
<1>3. /\ program' = program /\ round' = round /\ env[p] = "prioCmds" /\ env'[p] = "prioExchange"
      /\ \A a \in Proc : a # p => env'[a] = env[a] /\ Taken(a)' = Taken(a) /\ Sent(a)' = Sent(a)
      /\ r \in 1 .. Len(program) /\ program[r] = "prio"
      /\ Taken(p) = r - 1 /\ Sent(p) = r - 1 /\ Taken(p)' = r - 1 /\ Sent(p)' = r
      /\ StagesKept({"xfer"})
  BY <1>1, <1>2, PrioStepFacts
<1>4. \A a, b \in Proc : Share(a, b)' <=> Share(a, b)
  BY <1>1, <1>2, <1>3, KeptGoing DEF Share
<1>5. PICK S : chan \in [Proc -> [Proc -> Seq(S)]]
  BY DEF ExchangeInv, SeqInv
<1> DEFINE T == S \cup {msg(q) : q \in DOMAIN std[p]}
<1>6. \A a, b \in Proc : chan[a][b] \in Seq(T)
  <2>1. S \subseteq T
    OBVIOUS
  <2> HIDE DEF T
  <2>2. \A s \in Seq(S) : s \in Seq(T)
    BY <2>1
  <2> QED  BY <1>5, <2>2
<1>7. \A q \in DOMAIN std[p] : msg(q) \in T
  OBVIOUS
<1> HIDE DEF T, msg
<1>8. \A q \in Proc : chan'[p][q] = IF q \in DOMAIN std[p] THEN Append(chan[p][q], msg(q)) ELSE chan[p][q]
  BY <1>2, <1>5
<1>18. \A s \in Seq(T), e \in T : Append(s, e) \in Seq(T) /\ Len(Append(s, e)) = Len(s) + 1
  OBVIOUS
<1>9. \A a \in Proc : a # p => chan'[a] = chan[a]
  BY <1>2, <1>5
<1>10. SeqInv'
  <2>1. chan' \in [Proc -> [Proc -> Seq(T)]]
    <3>1. ASSUME NEW a \in Proc PROVE chan'[a] \in [Proc -> Seq(T)]
      <4>1. CASE a = p
        <5>1. \A q \in Proc : chan'[p][q] \in Seq(T)
          BY <1>6, <1>7, <1>8, <1>18
        <5>2. chan'[p] = [q \in Proc |-> IF q \in DOMAIN std[p] THEN Append(chan[p][q], msg(q)) ELSE chan[p][q]]
          BY <1>2, <1>5
        <5> QED  BY <4>1, <5>1, <5>2
      <4>2. CASE a # p
        <5>1. chan[a] = [q \in Proc |-> chan[a][q]]
          BY <1>5
        <5> QED  BY <1>6, <1>9, <4>2, <5>1
      <4> QED  BY <4>1, <4>2
    <3>2. chan' = [a \in Proc |-> chan'[a]]
      BY <1>2, <1>5
    <3> QED  BY <3>1, <3>2
  <2> QED  BY <2>1 DEF SeqInv
<1>11. StdInv'
  <2>1. \A a \in Proc : env'[a] \in PrioEnvs => env[a] \in PrioEnvs
    BY <1>3
  <2>2. \A a \in Proc : Neighbours(a, cpl)' = Neighbours(a, cpl)
    BY <1>2 DEF Neighbours, Coupled
  <2> QED  BY <1>1, <1>2, <2>1, <2>2 DEF StdInv
<1>12. DOMAIN std[p] = {q \in Proc : q # p /\ Share(p, q)}
  BY <1>1, <1>3, NeighboursAre DEF StdInv
<1>13. ASSUME NEW a \in Proc, NEW q \in Proc, a # q, Share(q, a)
       PROVE  \A k \in 1 .. Taken(q)' : program[k] = "prio" => k <= Sent(a)'
  <2>1. \A k \in 1 .. Taken(q) : program[k] = "prio" => k <= Sent(a)
    BY <1>13 DEF ExchangeInv, NotAhead
  <2>2. Taken(q)' = Taken(q)
    BY <1>3
  <2>3. Sent(a)' = Sent(a) \/ (Sent(a) = r - 1 /\ Sent(a)' = r)
    BY <1>3
  <2>4. Taken(q) \in Nat
    BY <1>1, Counts
  <2> QED  BY <1>3, <2>1, <2>2, <2>3, <2>4
<1>14. ASSUME NEW q \in Proc, q # p
       PROVE  Len(chan'[p][q]) = IF Share(q, p) THEN Cardinality(Due(p, q))' ELSE 0
  <2>1. Len(chan[p][q]) = IF Share(q, p) THEN Cardinality(Due(p, q)) ELSE 0
    BY <1>14 DEF ExchangeInv, CountInv
  <2>2. CASE ~Share(q, p)
    <3>1. q \notin DOMAIN std[p]
      BY <1>12, <2>2, ShareSymmetric
    <3> QED  BY <1>8, <2>1, <2>2, <3>1
  <2>3. CASE Share(q, p)
    <3>1. q \in DOMAIN std[p]
      BY <1>12, <1>14, <2>3, ShareSymmetric
    <3>2. Taken(q) \in Nat /\ Taken(q) < r
      <4>1. \A k \in 1 .. Taken(q) : program[k] = "prio" => k <= Sent(p)
        BY <1>14, <2>3 DEF ExchangeInv, NotAhead
      <4>2. Taken(q) \in Nat
        BY <1>1, Counts
      <4> QED  BY <1>3, <4>1, <4>2
    <3>3. Due(p, q)' = Due(p, q) \cup {r} /\ r \notin Due(p, q)
      <4>1. \A k : k \in Due(p, q) <=> k \in Taken(q) + 1 .. r - 1 /\ program[k] = "prio"
        BY <1>3 DEF Due
      <4>2. \A k : k \in Due(p, q)' <=> k \in Taken(q) + 1 .. r /\ program[k] = "prio"
        BY <1>3, <1>14 DEF Due
      <4>3. \A k : k \in Taken(q) + 1 .. r <=> k \in Taken(q) + 1 .. r - 1 \/ k = r
        BY <1>3, <3>2
      <4>4. r \notin Taken(q) + 1 .. r - 1
        BY <1>3, <3>2
      <4> QED  BY <1>3, <4>1, <4>2, <4>3, <4>4
    <3>4. Cardinality(Due(p, q) \cup {r}) = Cardinality(Due(p, q)) + 1
      BY <1>1, <3>3, DueFinite, FS_AddElement
    <3>5. Cardinality(Due(p, q))' = Cardinality(Due(p, q)) + 1
      BY <3>3, <3>4
    <3>6. Len(chan'[p][q]) = Len(chan[p][q]) + 1
      BY <1>6, <1>7, <1>8, <1>18, <3>1
    <3> QED  BY <2>1, <2>3, <3>5, <3>6
  <2> QED  BY <2>2, <2>3
<1>15. ASSUME NEW a \in Proc, NEW q \in Proc, a # q, a # p
       PROVE  Len(chan'[a][q]) = IF Share(q, a) THEN Cardinality(Due(a, q))' ELSE 0
  <2>1. Due(a, q)' = Due(a, q)
    BY <1>3, <1>15 DEF Due
  <2>2. Cardinality(Due(a, q))' = Cardinality(Due(a, q))
    BY <2>1
  <2> QED  BY <1>9, <1>15, <2>2 DEF ExchangeInv, CountInv
<1>16. CountInv'
  BY <1>4, <1>14, <1>15 DEF CountInv
<1>17. NotAhead'
  BY <1>3, <1>4, <1>13 DEF NotAhead
<1> QED  BY <1>10, <1>11, <1>16, <1>17 DEF ExchangeInv

LEMMA PrioEndReturnsExchange ==
  ASSUME ProtocolInv, ProtocolInv', ExchangeInv, NEW p \in Proc, PrioEndReturns(p), UNCHANGED joinVars
  PROVE  ExchangeInv'
<1> USE DEF PrioEnvs
<1> DEFINE r == round[p]
<1>1. StageInv /\ StdInv
  BY DEF ProtocolInv, ExchangeInv
<1>2. /\ Step(p, "prioExchange", "idle") /\ UNCHANGED <<gid, deleted>> /\ IFAllFromScratch(p, cpl')
      /\ \A q \in DOMAIN std[p] : chan[q][p] # <<>>
      /\ chan' = [q \in Proc |-> IF q \in DOMAIN std[p] THEN [chan[q] EXCEPT ![p] = Tail(chan[q][p])] ELSE chan[q]]
  BY DEF PrioEndReturns, joinVars
<1>3. /\ program' = program /\ round' = round /\ env[p] = "prioExchange" /\ env'[p] = "idle"
      /\ \A a \in Proc : a # p => env'[a] = env[a] /\ Taken(a)' = Taken(a) /\ Sent(a)' = Sent(a)
      /\ r \in 1 .. Len(program) /\ program[r] = "prio"
      /\ Taken(p) = r - 1 /\ Sent(p) = r /\ Taken(p)' = r /\ Sent(p)' = r
      /\ StagesKept({"xfer"})
  BY <1>1, <1>2, PrioStepFacts
<1>4. \A a, b \in Proc : Share(a, b)' <=> Share(a, b)
  BY <1>1, <1>2, <1>3, KeptGoing DEF Share
<1>5. PICK S : chan \in [Proc -> [Proc -> Seq(S)]]
  BY DEF ExchangeInv, SeqInv
<1>6. DOMAIN std[p] = {q \in Proc : q # p /\ Share(p, q)}
  BY <1>1, <1>3, NeighboursAre DEF StdInv
<1>7. \A s \in Seq(S) : s # <<>> => Tail(s) \in Seq(S) /\ Len(Tail(s)) = Len(s) - 1 /\ Len(s) > 0
  OBVIOUS
<1>8. \A q \in Proc : chan[q][p] \in Seq(S)
  BY <1>5
<1>9. \A q \in DOMAIN std[p] : chan'[q][p] = Tail(chan[q][p]) /\ \A b \in Proc : b # p => chan'[q][b] = chan[q][b]
  BY <1>2, <1>5, <1>6
<1>10. \A q \in Proc : q \notin DOMAIN std[p] => chan'[q] = chan[q]
  BY <1>2
<1>11. SeqInv'
  <2>1. ASSUME NEW q \in Proc PROVE chan'[q] \in [Proc -> Seq(S)]
    <3>1. CASE q \in DOMAIN std[p]
      <4>1. chan'[q] = [chan[q] EXCEPT ![p] = Tail(chan[q][p])]
        BY <1>2, <3>1
      <4>2. Tail(chan[q][p]) \in Seq(S) /\ chan[q] \in [Proc -> Seq(S)]
        BY <1>2, <1>5, <1>7, <1>8, <3>1
      <4> QED  BY <4>1, <4>2
    <3>2. CASE q \notin DOMAIN std[p]
      BY <1>5, <1>10, <3>2
    <3> QED  BY <3>1, <3>2
  <2>2. chan' = [q \in Proc |-> chan'[q]]
    BY <1>2
  <2>3. chan' \in [Proc -> [Proc -> Seq(S)]]
    BY <2>1, <2>2
  <2> QED  BY <2>3 DEF SeqInv
<1>12. StdInv'
  <2>1. StdKept
    BY <1>1, <1>2, <1>3, RebuiltStd
  <2>2. ASSUME NEW a \in Proc, env'[a] \in PrioEnvs PROVE DOMAIN std'[a] = Neighbours(a, cpl)'
    <3>1. a # p /\ env[a] \in PrioEnvs
      BY <1>3, <2>2
    <3>2. CASE std'[a] = std[a]
      <4>1. DOMAIN std[a] = {q \in Proc : q # a /\ Share(a, q)}
        BY <1>1, <3>1, NeighboursAre DEF StdInv
      <4>2. Neighbours(a, cpl)' = {q \in Proc : q # a /\ Share(a, q)'}
        BY <2>2, NextCounts DEF CountFacts
      <4>3. Neighbours(a, cpl)' = {q \in Proc : q # a /\ Share(a, q)}
        BY <1>4, <4>2
      <4> QED  BY <3>2, <4>1, <4>3
    <3> QED  BY <2>1, <2>2, <3>2 DEF StdKept
  <2> QED  BY <2>1, <2>2 DEF StdInv, StdKept
<1>13. ASSUME NEW q \in Proc, q # p
       PROVE  /\ Len(chan'[q][p]) = IF Share(p, q) THEN Cardinality(Due(q, p))' ELSE 0
              /\ Share(p, q) => r <= Sent(q)
  <2>1. Len(chan[q][p]) = IF Share(p, q) THEN Cardinality(Due(q, p)) ELSE 0
    BY <1>13 DEF ExchangeInv, CountInv
  <2>2. CASE ~Share(p, q)
    BY <1>6, <1>10, <2>1, <2>2
  <2>3. CASE Share(p, q)
    <3>1. q \in DOMAIN std[p]
      BY <1>6, <1>13, <2>3
    <3>2. Len(chan[q][p]) > 0 /\ Len(chan'[q][p]) = Len(chan[q][p]) - 1
      BY <1>2, <1>7, <1>8, <1>9, <3>1
    <3>3. \A k : k \in Due(q, p) <=> k \in r .. Sent(q) /\ program[k] = "prio"
      BY <1>3 DEF Due
    <3>4. \A k : k \in Due(q, p)' <=> k \in r + 1 .. Sent(q) /\ program[k] = "prio"
      BY <1>3, <1>13 DEF Due
    <3>5. Sent(q) \in Nat
      BY <1>1, Counts
    <3>6. Due(q, p) # {}
      <4>1. Cardinality(Due(q, p)) > 0
        BY <2>1, <2>3, <3>2
      <4>2. Cardinality({}) = 0
        BY FS_EmptySet
      <4> QED  BY <4>1, <4>2
    <3>7. r <= Sent(q)
      BY <1>3, <3>3, <3>5, <3>6
    <3>8. r \in Due(q, p)
      BY <1>3, <3>3, <3>5, <3>7
    <3>9. Due(q, p)' = Due(q, p) \ {r}
      <4>1. \A k : k \in r + 1 .. Sent(q) <=> k \in r .. Sent(q) /\ k # r
        BY <1>3, <3>5
      <4> QED  BY <3>3, <3>4, <4>1
    <3>10. Cardinality(Due(q, p) \ {r}) = Cardinality(Due(q, p)) - 1
      BY <1>1, <3>8, DueFinite, FS_RemoveElement
    <3>11. Cardinality(Due(q, p))' = Cardinality(Due(q, p)) - 1
      BY <3>9, <3>10
    <3> QED  BY <2>1, <2>3, <3>2, <3>7, <3>11
  <2> QED  BY <2>2, <2>3
<1>14. ASSUME NEW a \in Proc, NEW q \in Proc, a # q, q # p
       PROVE  Len(chan'[a][q]) = IF Share(q, a) THEN Cardinality(Due(a, q))' ELSE 0
  <2>1. chan'[a][q] = chan[a][q]
    BY <1>9, <1>10, <1>14
  <2>2. Due(a, q)' = Due(a, q)
    BY <1>3, <1>14 DEF Due
  <2>3. Cardinality(Due(a, q))' = Cardinality(Due(a, q))
    BY <2>2
  <2> QED  BY <1>14, <2>1, <2>3 DEF ExchangeInv, CountInv
<1>15. CountInv'
  BY <1>4, <1>13, <1>14 DEF CountInv
<1>16. NotAhead'
  <2>1. ASSUME NEW a \in Proc, NEW q \in Proc, a # q, Share(a, q), NEW k \in 1 .. Taken(a)', program[k] = "prio"
        PROVE  k <= Sent(q)'
    <3>1. \A j \in 1 .. Taken(a) : program[j] = "prio" => j <= Sent(q)
      BY <2>1 DEF ExchangeInv, NotAhead
    <3>2. Sent(q)' = Sent(q)
      BY <1>3
    <3>3. k \in 1 .. Taken(a) \/ (a = p /\ k = r)
      BY <1>3
    <3> QED  BY <1>13, <2>1, <3>1, <3>2, <3>3
  <2> QED  BY <1>3, <1>4, <2>1 DEF NotAhead
<1> QED  BY <1>11, <1>12, <1>15, <1>16 DEF ExchangeInv

LEMMA InitExchange ==
  ASSUME Init
  PROVE  ExchangeInv
<1>1. /\ round = [p \in Proc |-> 0] /\ env = [p \in Proc |-> "idle"]
      /\ chan = [p \in Proc |-> [q \in Proc |-> <<>>]] /\ DOMAIN std = Proc
  BY DEF Init, IFInit
<1>2. \A p \in Proc : Taken(p) = 0 /\ Sent(p) = 0
  BY <1>1 DEF Taken, Sent, PrioEnvs
<1>3. \A p, q \in Proc : Due(p, q) = {}
  BY <1>2 DEF Due
<1>4. Len(<<>>) = 0 /\ Cardinality({}) = 0 /\ <<>> \in Seq({})
  BY FS_EmptySet
<1>5. SeqInv
  BY <1>1, <1>4 DEF SeqInv
<1>6. CountInv
  BY <1>1, <1>3, <1>4 DEF CountInv
<1>7. StdInv /\ NotAhead
  BY <1>1, <1>2 DEF StdInv, NotAhead, PrioEnvs
<1> QED  BY <1>5, <1>6, <1>7 DEF ExchangeInv

LEMMA NextExchange ==
  ASSUME ~Shared, ProtocolInv, ExchangeInv, [Next]_vars
  PROVE  ExchangeInv'
<1>1. ProtocolInv'
  BY NextProtocol
<1>2. ASSUME NEW p \in Proc, Advance(p) PROVE ExchangeInv'
  <2>1. CASE JoinEnd(p)
    BY <1>1, <2>1, JoinEndExchange
  <2>2. CASE XferEndReturns(p)
    BY <1>1, <2>2, XferEndReturnsExchange
  <2>3. CASE PrioEnd(p) /\ UNCHANGED joinVars
    BY <1>1, <2>3, PrioEndExchange
  <2>4. CASE PrioEndReturns(p) /\ UNCHANGED joinVars
    BY <1>1, <2>4, PrioEndReturnsExchange
  <2>5. CASE \/ JoinBegin(p) \/ UnpackPhase1(p) \/ UnpackPhase2(p) \/ JoinEndReturns(p)
             \/ PrioBegin(p) /\ UNCHANGED joinVars
    BY <1>1, <2>5, QuietExchange
  <2> QED  BY <1>2, <2>1, <2>2, <2>3, <2>4, <2>5 DEF Advance
<1>3. ASSUME NEW p \in Proc,
             \/ UseInterfaces(p) /\ UNCHANGED joinVars
             \/ \E o \in Joining, d \in Proc : Home[o] = p /\ \E g \in Targets[o] : JoinObj(p, o, d, g)
      PROVE  ExchangeInv'
  BY <1>1, <1>3, QuietExchange
<1>4. CASE \/ \E o \in Changing, r \in Prio : PrioChange(o, r) /\ UNCHANGED joinVars
           \/ \E o \in Moving : Move(o) /\ UNCHANGED joinVars
           \/ UNCHANGED vars
  <2>1. CASE Proc = {}
    <3>1. SeqInv
      BY DEF ExchangeInv
    <3>2. chan' = chan /\ std' = std
      BY <1>4 DEF PrioChange, Move, HdrConstructorMove, ifVars, vars
    <3> QED  BY <2>1, <3>2 DEF ExchangeInv, SeqInv, StdInv, CountInv, NotAhead
  <2>2. CASE Proc # {}
    <3>1. PICK p \in Proc : TRUE
      BY <2>2
    <3> QED  BY <1>1, <1>4, QuietExchange
  <2> QED  BY <2>1, <2>2
<1>5. ASSUME NEW p \in Proc, NEW gids, XferEnd(p, gids) PROVE ExchangeInv'
  BY <1>1, <1>5, XferEndExchange
<1> QED  BY <1>2, <1>3, <1>4, <1>5 DEF Next

(* A set of numbers has a smallest member.                                   *)
Less == {ss \in Nat \X Nat : ss[1] < ss[2]}

LEMMA Smallest ==
  ASSUME NEW S \in SUBSET Nat, S # {}
  PROVE  \E n \in S : \A m \in S : m >= n
<1>1. OpToRel(<, Nat) = Less
  BY DEF OpToRel, Less
<1>2. IsWellFoundedOn(Less, Nat)
  BY <1>1, NatLessThanWellFounded
<1>3. PICK n \in S : \A m \in S : ~ (<<m, n>> \in Less)
  BY <1>2, WFMin
<1>4. \A m \in S : ~ (m < n)
  BY <1>3 DEF Less
<1> QED  BY <1>4

(* The one that is furthest behind. *)
LEMMA Behind ==
  ASSUME StageInv, Proc # {}
  PROVE  \E p \in Proc : \A q \in Proc : round[q] >= round[p]
<1> DEFINE N == {round[q] : q \in Proc}
<1>1. N \subseteq Nat /\ N # {}
  BY DEF StageInv
<1> HIDE DEF N
<1>2. \E n \in N : \A m \in N : m >= n
  BY <1>1, Smallest
<1> QED  BY <1>2 DEF N

(* Among those in a round of the environment somebody can go on. *)
LEMMA GoesOn ==
  ASSUME ProtocolInv, ExchangeInv, NEW p \in Proc, \A q \in Proc : round[q] >= round[p]
  PROVE  \/ \E q \in Proc : CanGoOn(q)
         \/ \A q \in Proc : round[q] = round[p] => env[q] = "idle" /\ round[q] = Len(program)
<1> USE DEF PrioEnvs, JoinEnvs, Joins3
<1> DEFINE k == round[p]
<1>1. StageInv /\ StdInv /\ k \in Nat /\ Len(program) \in Nat /\ \A q \in Proc : round[q] \in 0 .. Len(program)
  BY DEF ProtocolInv, ExchangeInv, StageInv
<1> SUFFICES ASSUME NEW q \in Proc, round[q] = k, ~(env[q] = "idle" /\ round[q] = Len(program))
             PROVE  \E a \in Proc : CanGoOn(a)
  OBVIOUS
<1>2. \A a \in Proc : env[a] \in Envs
  BY <1>1 DEF StageInv
<1>3. CASE env[q] = "idle"
  BY <1>1, <1>3 DEF CanGoOn
<1>4. CASE env[q] = "xfer"
  BY <1>4 DEF CanGoOn
<1>5. CASE env[q] \in {"joinCmds", "prioCmds"}
  BY <1>5 DEF CanGoOn
<1>6. CASE env[q] \in Joins3
  <2>1. program[k] = "join"
    BY <1>1, <1>6 DEF StageInv
  <2>2. \A a \in Proc : round[a] = k => env[a] \in JoinEnvs \cup {"idle"}
    BY <1>1, <1>2, <2>1 DEF StageInv, Envs
  <2>3. CASE \E a \in Proc : round[a] = k /\ env[a] = "joinCmds"
    BY <2>3 DEF CanGoOn
  <2>4. CASE \A a \in Proc : round[a] = k => env[a] # "joinCmds"
    <3>1. ASSUME NEW a \in Proc, round[a] = k, env[a] \in Joins3,
                 \A b \in Proc : round[b] = k => PhaseOf(env[b]) >= PhaseOf(env[a])
          PROVE  CanGoOn(a)
      <4>1. \A b \in Proc : round[b] > k \/ round[b] = k
        BY <1>1
      <4>2. Connected(a, env[a])
        BY <3>1, <4>1 DEF Connected
      <4> QED  BY <3>1, <4>2 DEF CanGoOn
    <3>2. CASE \E a \in Proc : round[a] = k /\ env[a] = "phase1"
      <4>1. PICK a \in Proc : round[a] = k /\ env[a] = "phase1"
        BY <3>2
      <4>2. \A b \in Proc : round[b] = k => PhaseOf(env[b]) >= PhaseOf(env[a])
        BY <2>2, <2>4, <4>1, PhaseNumbers
      <4> QED  BY <3>1, <4>1, <4>2
    <3>3. CASE (\A a \in Proc : round[a] = k => env[a] # "phase1") /\ \E a \in Proc : round[a] = k /\ env[a] = "phase2"
      <4>1. PICK a \in Proc : round[a] = k /\ env[a] = "phase2"
        BY <3>3
      <4>2. \A b \in Proc : round[b] = k => PhaseOf(env[b]) >= PhaseOf(env[a])
        BY <2>2, <2>4, <3>3, <4>1, PhaseNumbers
      <4> QED  BY <3>1, <4>1, <4>2
    <3>4. CASE \A a \in Proc : round[a] = k => env[a] \notin {"phase1", "phase2"}
      <4>1. env[q] = "phase3"
        BY <1>6, <3>4
      <4>2. \A b \in Proc : round[b] = k => PhaseOf(env[b]) >= PhaseOf(env[q])
        BY <2>2, <2>4, <3>4, <4>1, PhaseNumbers
      <4> QED  BY <3>1, <4>1, <4>2
    <3> QED  BY <3>2, <3>3, <3>4
  <2> QED  BY <2>3, <2>4
<1>7. CASE env[q] = "prioExchange"
  <2>1. program[k] = "prio" /\ Taken(q) = k - 1 /\ k \in 1 .. Len(program)
    BY <1>1, <1>7 DEF StageInv, Taken
  <2>2. CASE \E a \in Proc : round[a] = k /\ env[a] = "prioCmds"
    BY <2>2 DEF CanGoOn
  <2>3. CASE \A a \in Proc : round[a] = k => env[a] # "prioCmds"
    <3>1. ASSUME NEW a \in DOMAIN std[q] PROVE chan[a][q] # <<>>
      <4>1. a \in Proc /\ a # q /\ Share(q, a)
        BY <1>1, <1>7, NeighboursAre DEF StdInv
      <4>2. Sent(a) \in Nat /\ k <= Sent(a)
        <5>1. round[a] = k \/ round[a] > k
          BY <1>1, <4>1
        <5> QED  BY <1>1, <2>3, <4>1, <5>1 DEF Sent
      <4>3. k \in Due(a, q)
        BY <2>1, <4>2 DEF Due
      <4>4. IsFiniteSet(Due(a, q)) /\ Cardinality(Due(a, q)) \in Nat
        BY <1>1, <4>1, DueFinite
      <4>5. Cardinality(Due(a, q)) # 0
        BY <4>3, <4>4, FS_EmptySet
      <4>6. Len(chan[a][q]) = Cardinality(Due(a, q))
        BY <4>1 DEF ExchangeInv, CountInv
      <4>7. Len(<<>>) = 0
        OBVIOUS
      <4> QED  BY <4>5, <4>6, <4>7
    <3> QED  BY <1>7, <3>1 DEF CanGoOn
  <2> QED  BY <2>2, <2>3
<1> QED  BY <1>2, <1>3, <1>4, <1>5, <1>6, <1>7 DEF Envs

(* Nobody waits forever: as long as any processor is not through with the    *)
(* program, somebody can take a step that brings it nearer to the end.  In   *)
(* particular ddd_StdIFExchangeX never waits for a message that is not sent: *)
(* two processors that share an object both have a list for the other.       *)
THEOREM ProgressHolds ==
  ASSUME ~Shared
  PROVE  Spec => []SomebodyGoesOn
<1>1. Init => ProtocolInv /\ ExchangeInv
  BY InitProtocol, InitExchange
<1>2. ProtocolInv /\ ExchangeInv /\ [Next]_vars => (ProtocolInv /\ ExchangeInv)'
  BY NextProtocol, NextExchange
<1>3. ProtocolInv /\ ExchangeInv => SomebodyGoesOn
  <2> SUFFICES ASSUME ProtocolInv, ExchangeInv, NEW q \in Proc, env[q] # "idle" \/ round[q] < Len(program)
               PROVE  \E a \in Proc : CanGoOn(a)
    BY DEF SomebodyGoesOn
  <2>1. StageInv
    BY DEF ProtocolInv
  <2>2. PICK p \in Proc : \A a \in Proc : round[a] >= round[p]
    BY <2>1, Behind
  <2>3. CASE \A a \in Proc : round[a] = round[p] => env[a] = "idle" /\ round[a] = Len(program)
    <3>1. round[p] = Len(program) /\ round[q] \in 0 .. Len(program) /\ Len(program) \in Nat
      BY <2>1, <2>3 DEF StageInv
    <3>2. round[q] = round[p]
      BY <2>2, <3>1
    <3> QED  BY <2>3, <3>1, <3>2
  <2> QED  BY <2>2, <2>3, GoesOn
<1> QED  BY <1>1, <1>2, <1>3, PTL DEF Spec
-------------------------------------------------------------------------------
(* What travels along the interfaces is right: between the same environments *)
(* every copy knows the priorities of all others, both sides of a boundary   *)
(* have the same lists, and a message of the priority environment fits the   *)
(* list it is unpacked along.                                                *)
(*                                                                           *)
(* The argument: a list is determined by the set of its objects (the rank of *)
(* an object in a sorted list is the number of those before it), so two      *)
(* sides that share the same objects, and have their attributes and global   *)
(* ids from the same source (OriginInv), have the same lists.  When p has    *)
(* taken all messages of q, and q is not about to change priorities, what p  *)
(* knows of q's priorities is right (KnownPrios); before, the last message   *)
(* on its way is (ChanInv); and joins tell the priorities of the moment,     *)
(* which nobody changes as long as they are on their way (ItemInv).          *)

-------------------------------------------------------------------------------
(* Sorted lists.                                                             *)

(* Objects of one processor: their global ids differ. *)
Sortable(S) ==
    /\ S \subseteq Obj /\ \A x \in S : gid[x] \in Nat
    /\ \A x, y \in S : gid[x] = gid[y] => x = y
Rank(S, o) == Cardinality({x \in S : Before(x, o)})

LEMMA BeforeOrder ==
  ASSUME NEW S, Sortable(S)
  PROVE  /\ \A x, y \in S : x # y => Before(x, y) \/ Before(y, x)
         /\ \A x \in S : ~Before(x, x)
         /\ \A x, y, z \in S : Before(x, y) /\ Before(y, z) => Before(x, z)
<1>1. \A x \in S : Attr[x] \in Nat /\ gid[x] \in Nat
  BY InterfacesAssumption DEF Sortable
<1> QED  BY <1>1 DEF Before, Sortable

LEMMA RankGrows ==
  ASSUME NEW S, Sortable(S)
  PROVE  /\ IsFiniteSet(S) /\ Cardinality(S) \in Nat
         /\ \A o \in S : Rank(S, o) \in 0 .. Cardinality(S) - 1
         /\ \A x, y \in S : Before(x, y) => Rank(S, x) < Rank(S, y)
         /\ \A x, y \in S : Rank(S, x) = Rank(S, y) => x = y
<1>1. IsFiniteSet(S) /\ Cardinality(S) \in Nat
  BY InterfacesAssumption, FS_Subset, FS_CardinalityType DEF Sortable
<1> DEFINE P(o) == {x \in S : Before(x, o)}
<1>2. \A o \in S : IsFiniteSet(P(o)) /\ Cardinality(P(o)) \in Nat
  <2>1. \A o \in S : P(o) \in SUBSET S
    OBVIOUS
  <2> QED  BY <1>1, <2>1, FS_Subset, FS_CardinalityType
<1>3. ASSUME NEW x \in S, NEW y \in S, Before(x, y) PROVE Cardinality(P(x)) < Cardinality(P(y))
  <2>1. P(x) \cup {x} \subseteq P(y) /\ x \notin P(x)
    BY <1>3, BeforeOrder
  <2> HIDE DEF P
  <2>2. Cardinality(P(x) \cup {x}) = Cardinality(P(x)) + 1
    BY <1>2, <2>1, FS_AddElement
  <2>3. Cardinality(P(x) \cup {x}) <= Cardinality(P(y))
    BY <1>2, <2>1, FS_Subset
  <2> QED  BY <1>2, <2>2, <2>3
<1>4. ASSUME NEW o \in S PROVE Cardinality(P(o)) <= Cardinality(S) - 1
  <2>1. P(o) \cup {o} \subseteq S /\ o \notin P(o)
    BY BeforeOrder
  <2> HIDE DEF P
  <2>2. Cardinality(P(o) \cup {o}) = Cardinality(P(o)) + 1
    BY <1>2, <2>1, FS_AddElement
  <2>3. Cardinality(P(o) \cup {o}) <= Cardinality(S)
    BY <1>1, <2>1, FS_Subset
  <2> QED  BY <1>1, <1>2, <2>2, <2>3
<1>5. \A o \in S : Rank(S, o) = Cardinality(P(o))
  BY DEF Rank
<1> HIDE DEF P
<1>6. \A o \in S : Rank(S, o) \in 0 .. Cardinality(S) - 1
  BY <1>1, <1>2, <1>4, <1>5
<1>7. \A x, y \in S : Before(x, y) => Rank(S, x) < Rank(S, y)
  BY <1>3, <1>5
<1>8. \A x, y \in S : Rank(S, x) = Rank(S, y) => x = y
  <2>1. \A x \in S : Rank(S, x) \in Nat
    BY <1>2, <1>5
  <2>2. \A x, y \in S : x # y => Before(x, y) \/ Before(y, x)
    BY BeforeOrder
  <2> QED  BY <1>7, <2>1, <2>2
<1> QED  BY <1>1, <1>6, <1>7, <1>8

(* Every position is the rank of some object. *)
LEMMA RankOnto ==
  ASSUME NEW S, Sortable(S), NEW i \in 1 .. Cardinality(S)
  PROVE  \E o \in S : Rank(S, o) = i - 1
<1> DEFINE n == Cardinality(S)
           r == [o \in S |-> Rank(S, o) + 1]
<1>1. IsFiniteSet(S) /\ n \in Nat /\ \A o \in S : Rank(S, o) \in 0 .. n - 1
  BY RankGrows
<1>2. IsFiniteSet(1 .. n) /\ Cardinality(1 .. n) = n
  BY <1>1, FS_Interval
<1>3. r \in [S -> 1 .. n]
  BY <1>1
<1>4. \A x, y \in S : r[x] = r[y] => x = y
  <2>1. \A x, y \in S : Rank(S, x) = Rank(S, y) => x = y
    BY RankGrows
  <2> QED  BY <1>1, <2>1
<1> HIDE DEF r
<1>5. r \in Injection(S, 1 .. n)
  BY <1>3, <1>4 DEF Injection, IsInjective
<1>6. r \in Surjection(S, 1 .. n)
  BY <1>2, <1>5, FS_Injection
<1>7. PICK o \in S : r[o] = i
  BY <1>6 DEF Surjection
<1> QED  BY <1>1, <1>7 DEF r

(* The list has every object once, each at the position of its rank. *)
SortedList(S, list) ==
    /\ list \in [1 .. Cardinality(S) -> S] /\ Cardinality(S) \in Nat
    /\ \A i \in 1 .. Cardinality(S) : Rank(S, list[i]) = i - 1
    /\ \A i, j \in 1 .. Cardinality(S) : list[i] = list[j] => i = j
    /\ \A o \in S : \E i \in 1 .. Cardinality(S) : list[i] = o

LEMMA SortedExists ==
  ASSUME NEW S, Sortable(S)
  PROVE  SortedSeqs(S) # {}
<1> DEFINE n == Cardinality(S)
           list == [i \in 1 .. n |-> CHOOSE o \in S : Rank(S, o) = i - 1]
<1>1. n \in Nat /\ \A o \in S : Rank(S, o) \in 0 .. n - 1
  BY RankGrows
<1>2. \A i \in 1 .. n : list[i] \in S /\ Rank(S, list[i]) = i - 1
  BY RankOnto
<1>3. list \in [1 .. n -> S]
  BY <1>2
<1> HIDE DEF list
<1>4. \A i, j \in 1 .. n : i # j => list[i] # list[j]
  BY <1>1, <1>2
<1>5. ASSUME NEW i \in 1 .. n, NEW j \in 1 .. n, i < j PROVE ~Before(list[j], list[i])
  <2>1. Rank(S, list[i]) < Rank(S, list[j])
    BY <1>1, <1>2, <1>5
  <2>2. Before(list[j], list[i]) => Rank(S, list[j]) < Rank(S, list[i])
    BY <1>2, RankGrows
  <2>3. Rank(S, list[i]) \in Nat /\ Rank(S, list[j]) \in Nat
    BY <1>1, <1>2
  <2> QED  BY <2>1, <2>2, <2>3
<1>6. list \in SetToSeqs(S)
  BY <1>3, <1>4 DEF SetToSeqs
<1>7. DOMAIN list = 1 .. n
  BY <1>3
<1> QED  BY <1>5, <1>6, <1>7 DEF SortedSeqs

LEMMA SortedIs ==
  ASSUME NEW S, Sortable(S), NEW list \in SortedSeqs(S)
  PROVE  SortedList(S, list)
<1> DEFINE n == Cardinality(S)
<1>1. IsFiniteSet(S) /\ n \in Nat
  BY RankGrows
<1>2. IsFiniteSet(1 .. n) /\ Cardinality(1 .. n) = n
  BY <1>1, FS_Interval
<1>3. list \in [1 .. n -> S] /\ \A i, j \in 1 .. n : i # j => list[i] # list[j]
  BY DEF SortedSeqs, SetToSeqs
<1>4. \A i, j \in 1 .. n : i < j => ~Before(list[j], list[i])
  BY <1>3 DEF SortedSeqs
<1>5. list \in Injection(1 .. n, S)
  BY <1>3 DEF Injection, IsInjective
<1>6. list \in Surjection(1 .. n, S)
  BY <1>1, <1>2, <1>5, FS_Injection
<1>7. \A o \in S : \E i \in 1 .. n : list[i] = o
  BY <1>6 DEF Surjection
<1>8. \A i, j \in 1 .. n : Before(list[i], list[j]) <=> i < j
  <2>1. \A i, j \in 1 .. n : i < j => Before(list[i], list[j])
    BY <1>3, <1>4, BeforeOrder
  <2>2. \A i \in 1 .. n : ~Before(list[i], list[i])
    BY <1>3, BeforeOrder
  <2>3. \A i, j \in 1 .. n : i < j \/ i = j \/ j < i
    OBVIOUS
  <2> QED  BY <1>4, <2>1, <2>2, <2>3
<1>9. ASSUME NEW i \in 1 .. n PROVE Rank(S, list[i]) = i - 1
  <2> DEFINE P == {x \in S : Before(x, list[i])}
             f == [k \in 1 .. i - 1 |-> list[k]]
  <2>1. \A k \in 1 .. i - 1 : k \in 1 .. n /\ k < i
    BY <1>1
  <2>2. f \in [1 .. i - 1 -> P] /\ \A k, l \in 1 .. i - 1 : f[k] = f[l] => k = l
    BY <1>3, <1>8, <2>1
  <2>3. ASSUME NEW x \in P PROVE \E k \in 1 .. i - 1 : f[k] = x
    <3>1. PICK k \in 1 .. n : list[k] = x
      BY <1>7
    <3>2. k < i
      BY <1>8, <3>1
    <3>3. k \in 1 .. i - 1
      BY <3>2
    <3> QED  BY <3>1, <3>3
  <2>4. IsFiniteSet(1 .. i - 1) /\ Cardinality(1 .. i - 1) = i - 1
    <3> DEFINE k == i - 1
    <3>1. k \in Int /\ k >= 0 /\ 1 \in Int
      BY <1>1
    <3> HIDE DEF k
    <3>2. IsFiniteSet(1 .. k) /\ Cardinality(1 .. k) = IF 1 > k THEN 0 ELSE k - 1 + 1
      BY <3>1, FS_Interval
    <3>3. Cardinality(1 .. k) = k
      BY <3>1, <3>2
    <3> QED  BY <3>2, <3>3 DEF k
  <2> HIDE DEF f, P
  <2>5. f \in Bijection(1 .. i - 1, P)
    BY <2>2, <2>3 DEF Bijection, Injection, Surjection, IsInjective
  <2>6. Cardinality(P) = i - 1
    BY <2>4, <2>5, FS_Bijection DEF ExistsBijection
  <2> QED  BY <2>6 DEF Rank, P
<1> QED  BY <1>1, <1>3, <1>7, <1>9 DEF SortedList

LEMMA IFSortedIs ==
  ASSUME NEW S, Sortable(S)
  PROVE  SortedList(S, IFSorted(S))
  BY SortedExists, SortedIs DEF IFSorted

(* Two sets of objects with the same ids: the lists match. *)
Alike(S, T) ==
    /\ \A x \in S : \E y \in T : gid[y] = gid[x]
    /\ \A y \in T : \E x \in S : gid[x] = gid[y]
    /\ \A x \in S, y \in T : gid[x] = gid[y] => Attr[x] = Attr[y]

LEMMA RanksAlike ==
  ASSUME NEW S, NEW T, Sortable(S), Sortable(T), Alike(S, T)
  PROVE  /\ Cardinality(S) = Cardinality(T)
         /\ \A x \in S, y \in T : gid[x] = gid[y] => Rank(S, x) = Rank(T, y)
<1> DEFINE h == [x \in S |-> CHOOSE y \in T : gid[y] = gid[x]]
<1>1. h \in [S -> T] /\ \A x \in S : gid[h[x]] = gid[x] /\ Attr[h[x]] = Attr[x]
  BY DEF Alike
<1>2. \A x, y \in S : h[x] = h[y] => x = y
  <2>1. \A x, y \in S : gid[x] = gid[y] => x = y
    BY DEF Sortable
  <2> QED  BY <1>1, <2>1
<1>3. \A x \in S, y \in T : gid[x] = gid[y] => h[x] = y
  BY <1>1 DEF Sortable
<1>4. \A y \in T : \E x \in S : h[x] = y
  BY <1>3 DEF Alike
<1>5. IsFiniteSet(S) /\ IsFiniteSet(T)
  BY RankGrows
<1> HIDE DEF h
<1>6. h \in Bijection(S, T)
  BY <1>1, <1>2, <1>4 DEF Bijection, Injection, Surjection, IsInjective
<1>7. Cardinality(S) = Cardinality(T)
  BY <1>5, <1>6, FS_Bijection DEF ExistsBijection
<1>8. \A x, z \in S : Before(h[x], h[z]) <=> Before(x, z)
  BY <1>1 DEF Before
<1>9. ASSUME NEW z \in S PROVE Rank(S, z) = Rank(T, h[z])
  <2> DEFINE P == {x \in S : Before(x, z)}
             Q == {y \in T : Before(y, h[z])}
             f == [x \in P |-> h[x]]
  <2>1. f \in [P -> Q] /\ \A x, y \in P : f[x] = f[y] => x = y
    BY <1>1, <1>2, <1>8
  <2>2. \A y \in Q : \E x \in P : f[x] = y
    BY <1>4, <1>8
  <2>3. P \in SUBSET S
    OBVIOUS
  <2>4. IsFiniteSet(P)
    BY <1>5, <2>3, FS_Subset
  <2> HIDE DEF f, P, Q
  <2>5. f \in Bijection(P, Q)
    BY <2>1, <2>2 DEF Bijection, Injection, Surjection, IsInjective
  <2>6. Cardinality(P) = Cardinality(Q)
    BY <2>4, <2>5, FS_Bijection DEF ExistsBijection
  <2> QED  BY <2>6 DEF Rank, P, Q
<1> QED  BY <1>3, <1>7, <1>9

LEMMA ListsMatch ==
  ASSUME NEW S, NEW T, Sortable(S), Sortable(T), Alike(S, T)
  PROVE  /\ Cardinality(S) = Cardinality(T)
         /\ DOMAIN IFSorted(S) = DOMAIN IFSorted(T)
         /\ \A i \in DOMAIN IFSorted(S) : gid[IFSorted(S)[i]] = gid[IFSorted(T)[i]]
         /\ GidsOf(IFSorted(S)) = GidsOf(IFSorted(T))
<1>1. SortedList(S, IFSorted(S)) /\ SortedList(T, IFSorted(T))
  BY IFSortedIs
<1>2. Cardinality(S) = Cardinality(T)
  BY RanksAlike
<1>3. DOMAIN IFSorted(S) = 1 .. Cardinality(S) /\ DOMAIN IFSorted(T) = 1 .. Cardinality(T)
  BY <1>1 DEF SortedList
<1>4. ASSUME NEW i \in 1 .. Cardinality(S) PROVE gid[IFSorted(S)[i]] = gid[IFSorted(T)[i]]
  <2> DEFINE x == IFSorted(S)[i]
             z == IFSorted(T)[i]
  <2>1. x \in S /\ Rank(S, x) = i - 1 /\ z \in T /\ Rank(T, z) = i - 1
    BY <1>1, <1>2 DEF SortedList
  <2>2. PICK y \in T : gid[y] = gid[x]
    BY <2>1 DEF Alike
  <2>3. Rank(T, y) = i - 1
    BY <2>1, <2>2, RanksAlike
  <2>4. y = z
    BY <2>1, <2>3, RankGrows
  <2> QED  BY <2>2, <2>4
<1> QED  BY <1>2, <1>3, <1>4 DEF GidsOf

-------------------------------------------------------------------------------
(* The interfaces as functions of couplings, global ids and priorities: they *)
(* do not change unless those of the objects in them do.                     *)

SortedBy(S, g) == CHOOSE seq \in {s \in SetToSeqs(S) : \A i, j \in DOMAIN s : i < j =>
    ~(Attr[s[j]] > Attr[s[i]] \/ (Attr[s[j]] = Attr[s[i]] /\ g[s[j]] < g[s[i]]))} : TRUE
On(f, S) == [o \in S |-> f[o]]

LEMMA SortedByGid ==
  ASSUME NEW S
  PROVE  IFSorted(S) = SortedBy(S, On(gid, S))
<1> DEFINE g == On(gid, S)
           T == {s \in SetToSeqs(S) : \A i, j \in DOMAIN s : i < j =>
    ~(Attr[s[j]] > Attr[s[i]] \/ (Attr[s[j]] = Attr[s[i]] /\ g[s[j]] < g[s[i]]))}
<1>1. \A x \in S : g[x] = gid[x]
  BY DEF On
<1>2. ASSUME NEW s \in SetToSeqs(S), NEW i \in DOMAIN s PROVE s[i] \in S
  BY DEF SetToSeqs
<1> HIDE DEF g
<1>3. SortedSeqs(S) = T
  BY <1>1, <1>2 DEF SortedSeqs, Before
<1> QED  BY <1>3 DEF IFSorted, SortedBy, g

(* The objects p shares with q as far as p knows. *)
Common(p, q, cpls) == {o \in Coupled(p, cpls) : q \in DOMAIN cpls[o]}
ListsOf(p, cpls, g) ==
    [q \in Neighbours(p, cpls) |-> SortedBy(Common(p, q, cpls), On(g, Common(p, q, cpls)))]

LEMMA CollectedLists ==
  ASSUME NEW p, NEW cpls
  PROVE  IFCollectStdCouplings(p, cpls) = ListsOf(p, cpls, gid)
<1>1. \A q : IFSorted(Common(p, q, cpls)) = SortedBy(Common(p, q, cpls), On(gid, Common(p, q, cpls)))
  BY SortedByGid
<1> QED  BY <1>1 DEF IFCollectStdCouplings, ListsOf, Common

DirBy(pr, o, q, cpls) == {d \in {"AB", "BA"} :
    \/ d = "AB" /\ pr[o] \in A /\ cpls[o][q] \in B
    \/ d = "BA" /\ pr[o] \in B /\ cpls[o][q] \in A}
MembersBy(pr, p, q, cpls) ==
    {o \in Coupled(p, cpls) : q \in DOMAIN cpls[o] /\ DirBy(pr, o, q, cpls) # {}}
Directed(pr, p, q, d, cpls) == {o \in MembersBy(pr, p, q, cpls) : DirBy(pr, o, q, cpls) = d}
HeadsOf(p, cpls, g, pr) ==
    [q \in {x \in Neighbours(p, cpls) : MembersBy(pr, p, x, cpls) # {}} |->
       [d \in Directions |-> SortedBy(Directed(pr, p, q, d, cpls), On(g, Directed(pr, p, q, d, cpls)))]]

LEMMA CollectedHeads ==
  ASSUME NEW p, NEW cpls
  PROVE  IFHeads(p, cpls) = HeadsOf(p, cpls, gid, prio)
<1>1. \A o, q : Dir(o, q, cpls) = DirBy(prio, o, q, cpls)
  BY DEF Dir, DirBy
<1>2. \A q : Members(p, q, cpls) = MembersBy(prio, p, q, cpls)
  BY <1>1 DEF Members, MembersBy
<1>3. \A q, d : {o \in Members(p, q, cpls) : Dir(o, q, cpls) = d} = Directed(prio, p, q, d, cpls)
  BY <1>1, <1>2 DEF Directed
<1>4. \A q, d : IFSorted(Directed(prio, p, q, d, cpls))
                = SortedBy(Directed(prio, p, q, d, cpls), On(gid, Directed(prio, p, q, d, cpls)))
  BY SortedByGid
<1> QED  BY <1>2, <1>3, <1>4 DEF IFHeads, HeadsOf

(* The same in the next state. *)
Collected(p) == /\ IFCollectStdCouplings(p, cpl) = ListsOf(p, cpl, gid)
                /\ IFHeads(p, cpl) = HeadsOf(p, cpl, gid, prio)
LEMMA NextCollected ==
  ASSUME NEW p
  PROVE  Collected(p)'
<1>1. Collected(p)
  BY CollectedLists, CollectedHeads DEF Collected
<1> QED  BY <1>1, PTL

(* Lists depend on who has couplings, with whom, and on global ids. *)
LEMMA SameLists ==
  ASSUME NEW p, NEW c1, NEW c2, NEW g1, NEW g2,
         \A o \in Obj : Home[o] = p => DOMAIN c1[o] = DOMAIN c2[o] /\ (c1[o] = NoCouplings <=> c2[o] = NoCouplings),
         \A o \in Coupled(p, c1) : g1[o] = g2[o]
  PROVE  /\ ListsOf(p, c1, g1) = ListsOf(p, c2, g2)
         /\ Coupled(p, c1) = Coupled(p, c2)
<1>1. Coupled(p, c1) = Coupled(p, c2)
  BY DEF Coupled
<1>2. \A o \in Coupled(p, c1) : DOMAIN c1[o] = DOMAIN c2[o]
  BY DEF Coupled
<1>3. Neighbours(p, c1) = Neighbours(p, c2)
  BY <1>1, <1>2 DEF Neighbours
<1>4. \A q : Common(p, q, c1) = Common(p, q, c2)
  BY <1>1, <1>2 DEF Common
<1>5. \A q : On(g1, Common(p, q, c1)) = On(g2, Common(p, q, c2))
  <2>1. \A q : \A o \in Common(p, q, c1) : g1[o] = g2[o]
    BY DEF Common
  <2> QED  BY <1>4, <2>1 DEF On
<1> QED  BY <1>1, <1>3, <1>4, <1>5 DEF ListsOf

LEMMA SameHeads ==
  ASSUME NEW p, NEW c1, NEW c2, NEW g1, NEW g2, NEW r1, NEW r2,
         \A o \in Obj : Home[o] = p => c1[o] = c2[o] /\ r1[o] = r2[o],
         \A o \in Coupled(p, c1) : g1[o] = g2[o]
  PROVE  HeadsOf(p, c1, g1, r1) = HeadsOf(p, c2, g2, r2)
<1>1. Coupled(p, c1) = Coupled(p, c2) /\ \A o \in Coupled(p, c1) : c1[o] = c2[o] /\ r1[o] = r2[o]
  BY DEF Coupled
<1>2. Neighbours(p, c1) = Neighbours(p, c2)
  BY <1>1 DEF Neighbours
<1>3. \A q : \A o \in Coupled(p, c1) : DirBy(r1, o, q, c1) = DirBy(r2, o, q, c2)
  BY <1>1 DEF DirBy
<1>4. \A q : MembersBy(r1, p, q, c1) = MembersBy(r2, p, q, c2)
  BY <1>1, <1>3 DEF MembersBy
<1>5. \A q : \A o \in MembersBy(r1, p, q, c1) : o \in Coupled(p, c1)
  BY DEF MembersBy
<1>6. \A q, d : Directed(r1, p, q, d, c1) = Directed(r2, p, q, d, c2)
  BY <1>3, <1>4, <1>5 DEF Directed
<1>7. \A q, d : On(g1, Directed(r1, p, q, d, c1)) = On(g2, Directed(r2, p, q, d, c2))
  <2>1. \A q, d : \A o \in Directed(r1, p, q, d, c1) : g1[o] = g2[o]
    BY <1>5 DEF Directed
  <2> QED  BY <1>6, <2>1 DEF On
<1> QED  BY <1>2, <1>4, <1>6, <1>7 DEF HeadsOf

-------------------------------------------------------------------------------
(* The invariant. *)

(* Where an object has its global id from. *)
OriginInv ==
    /\ \A o \in Obj : gid[o] \in {NoGid, FirstGids[o]} \/ (o \in Joining /\ gid[o] \in Targets[o])
    /\ \A p \in Proc : \A j \in joins[p] : j.gid \in Targets[j.obj]

SharedList(p, q) == IFSorted(Common(p, q, cpl))

(* When the standard lists of p are those of its couplings. *)
StdValid(p) == IF env[p] = "idle" THEN p \notin Explicit \/ (round[p] > 0 /\ program[round[p]] = "prio")
               ELSE env[p] \in PrioEnvs
ListsAt(p) ==
    /\ StdValid(p) => std[p] = IFCollectStdCouplings(p, cpl)
    /\ env[p] = "idle" /\ p \notin Explicit => heads[p] = IFHeads(p, cpl)
    /\ p \notin Explicit => \A q \in DOMAIN std[p] : ToSet(std[p][q]) \subseteq Coupled(p, cpl)
ListsInv == DOMAIN heads = Proc /\ \A p \in Proc : ListsAt(p)

(* p has all that q has told of its priorities. *)
Fresh(q, p) == chan[q][p] = <<>> /\ env[q] # "prioCmds"
Known1(o, q) ==
    /\ cpl[o][q] \in Prio
    /\ \A x \in Copy(q, gid[o]) : Fresh(q, Home[o]) /\ ~Going(o, q) => cpl[o][q] = prio[x]
KnownPrios == prio \in [Obj -> Prio] /\ \A o \in Obj : \A q \in DOMAIN cpl[o] : Known1(o, q)

(* What is on its way from q to p. *)
ChanAt(q, p) == \A n \in 1 .. Len(chan[q][p]) :
    /\ chan[q][p][n] \in [DOMAIN SharedList(q, p) -> Prio]
    /\ n = Len(chan[q][p]) /\ env[q] # "prioCmds" =>
        \A i \in DOMAIN SharedList(q, p) : chan[q][p][n][i] = prio[SharedList(q, p)[i]]
ChanInv == \A p, q \in Proc : p # q => ChanAt(q, p)

ItemRight(m, i) ==
    /\ i.prio \in Prio
    /\ m.phase = "phase1" => \A x \in Copy(m.from, i.gid) : i.prio = prio[x]
    /\ m.phase = "phase2" => \A x \in Copy(i.proc, i.gid) : i.prio = prio[x]
    /\ m.phase = "phase3" => \A x \in Copy(i.proc, i.gid) : Fresh(i.proc, m.to) => i.prio = prio[x]
TaskRight(p) == addCpl3[p] \subseteq Items
    /\ (env[p] = "phase2" => \A i \in addCpl3[p] : \A x \in Copy(i.proc, i.gid) : i.prio = prio[x])
ItemInv ==
    /\ \A m \in net : \A i \in m.items : ItemRight(m, i)
    /\ \A p \in Proc : TaskRight(p)

PrioInv == OriginInv /\ ListsInv /\ KnownPrios /\ ChanInv /\ ItemInv

-------------------------------------------------------------------------------
(* The lists. *)

(* What the lists of p are made of can be sorted. *)
LEMMA CommonSortable ==
  ASSUME DataInv, OneCopy, NEW p
  PROVE  \A S \in SUBSET Coupled(p, cpl) : Sortable(S)
<1>1. \A o \in Coupled(p, cpl) : o \in Obj /\ Home[o] = p /\ gid[o] \in Nat /\ gid[o] # NoGid
  BY DEF Coupled, DataInv
<1> QED  BY <1>1 DEF Sortable, OneCopy

StdWithin(p) == \A q \in DOMAIN IFCollectStdCouplings(p, cpl) :
    ToSet(IFCollectStdCouplings(p, cpl)[q]) \subseteq Coupled(p, cpl)
LEMMA CollectedWithin ==
  ASSUME DataInv, OneCopy, NEW p
  PROVE  StdWithin(p)
<1> SUFFICES ASSUME NEW q \in DOMAIN IFCollectStdCouplings(p, cpl)
             PROVE  ToSet(IFCollectStdCouplings(p, cpl)[q]) \subseteq Coupled(p, cpl)
  BY DEF StdWithin
<1> DEFINE S == Common(p, q, cpl)
<1>1. IFCollectStdCouplings(p, cpl)[q] = IFSorted(S) /\ S \in SUBSET Coupled(p, cpl)
  BY DEF IFCollectStdCouplings, Common
<1>2. SortedList(S, IFSorted(S))
  BY <1>1, CommonSortable, IFSortedIs
<1>3. ToSet(IFSorted(S)) \subseteq S
  BY <1>2 DEF SortedList, ToSet
<1> QED  BY <1>1, <1>3

LEMMA NextStdWithin ==
  ASSUME NEW p
  PROVE  (DataInv /\ OneCopy)' => StdWithin(p)'
<1>1. DataInv /\ OneCopy => StdWithin(p)
  BY CollectedWithin
<1> QED  BY <1>1, PTL

LEMMA RebuiltLists ==
  ASSUME ListsInv, DOMAIN std = Proc, DataInv', OneCopy', NEW p \in Proc, IFRebuildAll(p, cpl'),
         \A o \in Coupled(p, cpl') : gid'[o] = gid[o], prio' = prio
  PROVE  /\ ListsAt(p)' /\ DOMAIN heads' = Proc
         /\ \A a \in Proc : a # p => std'[a] = std[a] /\ heads'[a] = heads[a]
<1>1. /\ std' = [std EXCEPT ![p] = ListsOf(p, cpl', gid)]
      /\ heads' = [heads EXCEPT ![p] = HeadsOf(p, cpl', gid, prio)]
  BY CollectedLists, CollectedHeads DEF IFRebuildAll
<1>2. ListsOf(p, cpl', gid) = ListsOf(p, cpl', gid')
  BY SameLists
<1>3. HeadsOf(p, cpl', gid, prio) = HeadsOf(p, cpl', gid', prio')
  BY SameHeads
<1>4. std'[p] = ListsOf(p, cpl', gid') /\ heads'[p] = HeadsOf(p, cpl', gid', prio')
  BY <1>1, <1>2, <1>3 DEF ListsInv
<1>5. std'[p] = IFCollectStdCouplings(p, cpl)' /\ heads'[p] = IFHeads(p, cpl)'
  BY <1>4, NextCollected DEF Collected
<1>6. StdWithin(p)'
  BY NextStdWithin
<1> QED  BY <1>1, <1>5, <1>6 DEF ListsAt, StdWithin, ListsInv

(* The lists of a, whose objects and interfaces do not change. *)
LEMMA KeptListsAt ==
  ASSUME NEW a \in Proc, ListsAt(a), std'[a] = std[a], heads'[a] = heads[a],
         StdValid(a)' => StdValid(a), (env[a] = "idle")' => env[a] = "idle",
         \A o \in Obj : Home[o] = a => cpl'[o] = cpl[o] /\ (cpl[o] # NoCouplings => gid'[o] = gid[o])
                                       /\ (env'[a] = "idle" => prio'[o] = prio[o])
  PROVE  ListsAt(a)'
<1>1. \A o \in Coupled(a, cpl) : gid[o] = gid'[o]
  BY DEF Coupled
<1>2. ListsOf(a, cpl, gid) = ListsOf(a, cpl', gid') /\ Coupled(a, cpl') = Coupled(a, cpl)
  BY <1>1, SameLists
<1>3. env'[a] = "idle" => HeadsOf(a, cpl, gid, prio) = HeadsOf(a, cpl', gid', prio')
  BY <1>1, SameHeads
<1>4. StdValid(a) => std[a] = ListsOf(a, cpl, gid)
  BY CollectedLists DEF ListsAt
<1>5. env[a] = "idle" /\ a \notin Explicit => heads[a] = HeadsOf(a, cpl, gid, prio)
  BY CollectedHeads DEF ListsAt
<1>6. StdValid(a)' => std'[a] = IFCollectStdCouplings(a, cpl)'
  BY <1>2, <1>4, NextCollected DEF Collected
<1>7. env'[a] = "idle" /\ a \notin Explicit => heads'[a] = IFHeads(a, cpl)'
  BY <1>3, <1>5, NextCollected DEF Collected
<1>8. a \notin Explicit => \A q \in DOMAIN std'[a] : ToSet(std'[a][q]) \subseteq Coupled(a, cpl')
  BY <1>2 DEF ListsAt
<1>9. Coupled(a, cpl)' = Coupled(a, cpl')
  BY DEF Coupled
<1> QED  BY <1>6, <1>7, <1>8, <1>9 DEF ListsAt

(* The lists of the others in a step of p. *)
LEMMA ListsStep ==
  ASSUME ListsInv, NEW p \in Proc, ListsAt(p)', DOMAIN heads' = Proc, program' = program,
         \A a \in Proc : a # p => /\ std'[a] = std[a] /\ heads'[a] = heads[a]
                                  /\ env'[a] = env[a] /\ round'[a] = round[a],
         \A o \in Obj : Home[o] # p => cpl'[o] = cpl[o] /\ gid'[o] = gid[o] /\ prio'[o] = prio[o]
  PROVE  ListsInv'
<1>1. ASSUME NEW a \in Proc, a # p PROVE ListsAt(a)'
  BY <1>1, KeptListsAt DEF ListsInv, StdValid
<1> QED  BY <1>1 DEF ListsInv

-------------------------------------------------------------------------------
(* The lists in each step.                                                   *)

(* Who moves, and who does not. *)
LEMMA SamePhase ==
  ASSUME StageInv, NEW p \in Proc, NEW from, NEW to, Step(p, from, to)
  PROVE  /\ program' = program /\ round' = round /\ env[p] = from /\ env'[p] = to
         /\ \A a \in Proc : a # p => env'[a] = env[a] /\ round'[a] = round[a]
  BY DEF Step, StageInv

LEMMA BegunPhase ==
  ASSUME StageInv, NEW p \in Proc, NEW x, NEW first, Begin(p, x, first)
  PROVE  /\ program' = program /\ env[p] = "idle" /\ env'[p] = first
         /\ round[p] \in Nat /\ round'[p] = round[p] + 1
         /\ \A a \in Proc : a # p => env'[a] = env[a] /\ round'[a] = round[a]
  BY DEF Begin, StageInv

LEMMA BeginLists ==
  ASSUME StageInv, ListsInv, NEW p \in Proc, NEW x, NEW first, Begin(p, x, first), first # "idle",
         UNCHANGED <<gid, prio, cpl, std, heads>>
  PROVE  ListsInv'
<1>1. /\ program' = program /\ env[p] = "idle" /\ env'[p] = first
      /\ \A a \in Proc : a # p => env'[a] = env[a] /\ round'[a] = round[a]
  BY BegunPhase
<1>2. std[p] = IFCollectStdCouplings(p, cpl)
  BY DEF Begin
<1>3. std[p] = ListsOf(p, cpl, gid)
  BY <1>2, CollectedLists
<1>4. std'[p] = IFCollectStdCouplings(p, cpl)'
  BY <1>3, NextCollected DEF Collected
<1>5. Coupled(p, cpl)' = Coupled(p, cpl)
  BY DEF Coupled
<1>6. ListsAt(p)'
  BY <1>1, <1>4, <1>5 DEF ListsInv, ListsAt
<1> QED  BY <1>1, <1>6, ListsStep DEF ListsInv

(* p does something without changing its couplings or interfaces. *)
LEMMA QuietLists ==
  ASSUME StageInv, ListsInv, NEW p \in Proc, program' = program,
         \A a \in Proc : a # p => env'[a] = env[a] /\ round'[a] = round[a],
         StdValid(p)' => StdValid(p), (env[p] = "idle")' => env[p] = "idle",
         UNCHANGED <<cpl, std, heads>>,
         \A o \in Obj : Home[o] # p => gid'[o] = gid[o] /\ prio'[o] = prio[o],
         \A o \in Obj : Home[o] = p => /\ (cpl[o] # NoCouplings => gid'[o] = gid[o])
                                       /\ (env'[p] = "idle" => prio'[o] = prio[o])
  PROVE  ListsInv'
<1>1. ListsAt(p)'
  BY KeptListsAt DEF ListsInv
<1> QED  BY <1>1, ListsStep DEF ListsInv

(* p adds to its couplings. *)
LEMMA GrownLists ==
  ASSUME StageInv, ListsInv, CplFunctions, CplFunctions', NEW p \in Proc, program' = program,
         \A a \in Proc : a # p => env'[a] = env[a] /\ round'[a] = round[a],
         env'[p] \in Joins3, UNCHANGED <<gid, prio, std, heads>>,
         \A o \in Obj : DOMAIN cpl[o] \subseteq DOMAIN cpl'[o] /\ (Home[o] # p => cpl'[o] = cpl[o])
  PROVE  ListsInv'
<1>1. \A o \in Obj : cpl[o] # NoCouplings => cpl'[o] # NoCouplings
  BY GrownCouplings
<1>2. Coupled(p, cpl) \subseteq Coupled(p, cpl)'
  BY <1>1 DEF Coupled
<1>3. ListsAt(p)'
  <2>1. ~StdValid(p)' /\ env'[p] # "idle"
    BY DEF StdValid, Joins3, PrioEnvs
  <2>2. p \notin Explicit => \A q \in DOMAIN std'[p] : ToSet(std'[p][q]) \subseteq Coupled(p, cpl)'
    BY <1>2 DEF ListsInv, ListsAt
  <2> QED  BY <2>1, <2>2 DEF ListsAt
<1> QED  BY <1>3, ListsStep DEF ListsInv

(* p comes to the end of an environment, and makes its interfaces anew. *)
LEMMA RenewedLists ==
  ASSUME StageInv, ListsInv, StdInv, DataInv', OneCopy', NEW p \in Proc, program' = program,
         \A a \in Proc : a # p => env'[a] = env[a] /\ round'[a] = round[a],
         IFAllFromScratch(p, cpl'), p \in Explicit => env'[p] = "idle" /\ program[round'[p]] # "prio",
         \A o \in Obj : Home[o] # p => cpl'[o] = cpl[o] /\ gid'[o] = gid[o],
         \A o \in Coupled(p, cpl') : gid'[o] = gid[o], prio' = prio
  PROVE  ListsInv'
<1>1. CASE p \notin Explicit
  <2>1. IFRebuildAll(p, cpl')
    BY <1>1 DEF IFAllFromScratch
  <2>2. /\ ListsAt(p)' /\ DOMAIN heads' = Proc
        /\ \A a \in Proc : a # p => std'[a] = std[a] /\ heads'[a] = heads[a]
    BY <2>1, RebuiltLists DEF StdInv
  <2> QED  BY <2>2, ListsStep
<1>2. CASE p \in Explicit
  <2>1. std' = std /\ heads' = heads
    BY <1>2 DEF IFAllFromScratch, ifVars
  <2>2. ListsAt(p)'
    <3>1. env'[p] = "idle" /\ program[round'[p]] # "prio"
      BY <1>2
    <3>2. ~StdValid(p)'
      BY <1>2, <3>1 DEF StdValid
    <3> QED  BY <1>2, <3>2 DEF ListsAt
  <2> QED  BY <2>1, <2>2, ListsStep DEF ListsInv
<1> QED  BY <1>1, <1>2

(* After the exchange of priorities the couplings are with the same. *)
LEMMA PrioEndReturnsLists ==
  ASSUME StageInv, ListsInv, StdInv, DataInv, DataInv', OneCopy', NEW p \in Proc, PrioEndReturns(p)
  PROVE  ListsInv'
<1>1. /\ cpl' = ScatterPrio(p) /\ IFAllFromScratch(p, cpl') /\ UNCHANGED <<gid, prio>>
      /\ Step(p, "prioExchange", "idle")
  BY DEF PrioEndReturns
<1>2. /\ program' = program /\ env[p] = "prioExchange" /\ env'[p] = "idle"
      /\ \A a \in Proc : a # p => env'[a] = env[a] /\ round'[a] = round[a]
  BY <1>1, SamePhase
<1>3. \A o \in Obj : Home[o] # p => cpl'[o] = cpl[o]
  BY <1>1 DEF ScatterPrio
<1>4. CASE p \notin Explicit
  BY <1>1, <1>2, <1>3, <1>4, RenewedLists
<1>5. CASE p \in Explicit
  <2>1. std' = std /\ heads' = heads
    BY <1>1, <1>5 DEF IFAllFromScratch, ifVars
  <2>2. \A o \in Obj : DOMAIN cpl'[o] = DOMAIN cpl[o]
    BY <1>1 DEF ScatterPrio
  <2>3. \A o \in Obj : cpl[o] = NoCouplings <=> cpl'[o] = NoCouplings
    <3>1. \A o \in Obj : /\ cpl[o] = [q \in DOMAIN cpl[o] |-> cpl[o][q]]
                         /\ cpl'[o] = [q \in DOMAIN cpl'[o] |-> cpl'[o][q]]
      BY DEF DataInv
    <3> QED  BY <2>2, <3>1 DEF NoCouplings
  <2>4. ListsOf(p, cpl, gid) = ListsOf(p, cpl', gid')
    BY <1>1, <2>2, <2>3, SameLists
  <2>5. std[p] = ListsOf(p, cpl, gid)
    BY <1>2, CollectedLists DEF ListsInv, ListsAt, StdValid, PrioEnvs
  <2>6. std'[p] = IFCollectStdCouplings(p, cpl)'
    BY <2>1, <2>4, <2>5, NextCollected DEF Collected
  <2>7. ListsAt(p)'
    BY <1>5, <2>6 DEF ListsAt
  <2> QED  BY <1>1, <1>2, <1>3, <2>1, <2>7, ListsStep DEF ListsInv
<1> QED  BY <1>4, <1>5

(* What unpacking changes: couplings of the objects told of. *)
LEMMA AddingElsewhere ==
  ASSUME NEW told, NEW p, \A t \in told : Home[t[1]] = p, CplFunctions
  PROVE  \A o \in Obj : /\ DOMAIN cpl[o] \subseteq DOMAIN Adding(told)[o]
                        /\ Home[o] # p => Adding(told)[o] = cpl[o]
<1> SUFFICES ASSUME NEW o \in Obj
             PROVE  /\ DOMAIN cpl[o] \subseteq DOMAIN Adding(told)[o]
                    /\ Home[o] # p => Adding(told)[o] = cpl[o]
  OBVIOUS
<1>1. DOMAIN cpl[o] \subseteq DOMAIN Adding(told)[o]
  BY AddingIs
<1>2. ASSUME Home[o] # p PROVE Adding(told)[o] = cpl[o]
  <2>1. {x \in told : x[1] = o} = {}
    BY <1>2
  <2>2. Adding(told)[o] = WithCouplings(cpl[o], {<<t[2], t[3]>> : t \in {x \in told : x[1] = o}})
    BY DEF Adding
  <2>3. {<<t[2], t[3]>> : t \in {x \in told : x[1] = o}} = {}
    BY <2>1
  <2>4. Adding(told)[o] = WithCouplings(cpl[o], {})
    BY <2>2, <2>3
  <2>5. cpl[o] = [q \in DOMAIN cpl[o] |-> cpl[o][q]]
    BY DEF CplFunctions
  <2>6. WithCouplings(cpl[o], {}) = [q \in DOMAIN cpl[o] |-> cpl[o][q]]
    BY DEF WithCouplings
  <2> QED  BY <2>4, <2>5, <2>6
<1> QED  BY <1>1, <1>2

LEMMA UnpackPhase1Couplings ==
  ASSUME NEW p \in Proc, UnpackPhase1(p), CplFunctions
  PROVE  \A o \in Obj : DOMAIN cpl[o] \subseteq DOMAIN cpl'[o] /\ (Home[o] # p => cpl'[o] = cpl[o])
<1> DEFINE of(o) == {<<c[2], c[3]>> : c \in {x \in Asked(p) : x[1] = o}}
<1>1. \A o \in Obj : cpl'[o] = WithCouplings(cpl[o], of(o))
  BY DEF UnpackPhase1
<1> HIDE DEF of
<1>2. \A o \in Obj : DOMAIN cpl[o] \subseteq DOMAIN cpl'[o]
  <2>1. \A o \in Obj : \A q \in DOMAIN cpl[o] : q \in DOMAIN WithCouplings(cpl[o], of(o))
    BY WithCouplingsDomain
  <2> QED  BY <1>1, <2>1
<1>3. ASSUME NEW o \in Obj, Home[o] # p PROVE cpl'[o] = cpl[o]
  <2>1. {x \in Asked(p) : x[1] = o} = {}
    BY <1>3, AskedIs
  <2>2. of(o) = {}
    BY <2>1 DEF of
  <2>3. cpl'[o] = WithCouplings(cpl[o], {})
    BY <1>1, <2>2
  <2>4. cpl[o] = [q \in DOMAIN cpl[o] |-> cpl[o][q]]
    BY DEF CplFunctions
  <2>5. WithCouplings(cpl[o], {}) = [q \in DOMAIN cpl[o] |-> cpl[o][q]]
    BY DEF WithCouplings
  <2> QED  BY <2>3, <2>4, <2>5
<1> QED  BY <1>2, <1>3

LEMMA UnpackLists ==
  ASSUME ProtocolInv, ProtocolInv', ListsInv, StdInv, NEW p \in Proc,
         UnpackPhase1(p) \/ UnpackPhase2(p) \/ JoinEndReturns(p)
  PROVE  ListsInv'
<1>1. StageInv /\ JoinTypeInv /\ CplFunctions /\ CplFunctions' /\ DataInv' /\ OneCopy'
  BY DEF ProtocolInv, DataInv, CplFunctions
<1>2. CASE UnpackPhase1(p)
  <2>1. Step(p, "phase1", "phase2") /\ UNCHANGED <<gid, prio, std, heads>>
    BY <1>2 DEF UnpackPhase1, ifVars
  <2>2. \A o \in Obj : DOMAIN cpl[o] \subseteq DOMAIN cpl'[o] /\ (Home[o] # p => cpl'[o] = cpl[o])
    BY <1>1, <1>2, UnpackPhase1Couplings
  <2>3. /\ program' = program /\ env'[p] \in Joins3
        /\ \A a \in Proc : a # p => env'[a] = env[a] /\ round'[a] = round[a]
    BY <1>1, <2>1, SamePhase DEF Joins3
  <2> QED  BY <1>1, <2>1, <2>2, <2>3, GrownLists
<1>3. CASE UnpackPhase2(p)
  <2> DEFINE told == Told(p, "phase2", Coupled(p, cpl))
  <2>1. Step(p, "phase2", "phase3") /\ UNCHANGED <<gid, prio, std, heads>> /\ cpl' = Adding(told)
    BY <1>3 DEF UnpackPhase2, ifVars
  <2>2. \A t \in told : Home[t[1]] = p
    BY ToldIs DEF Coupled
  <2> HIDE DEF told
  <2>3. \A o \in Obj : DOMAIN cpl[o] \subseteq DOMAIN cpl'[o] /\ (Home[o] # p => cpl'[o] = cpl[o])
    BY <1>1, <2>1, <2>2, AddingElsewhere
  <2>4. /\ program' = program /\ env'[p] \in Joins3
        /\ \A a \in Proc : a # p => env'[a] = env[a] /\ round'[a] = round[a]
    BY <1>1, <2>1, SamePhase DEF Joins3
  <2> QED  BY <1>1, <2>1, <2>3, <2>4, GrownLists
<1>4. CASE JoinEndReturns(p)
  <2> DEFINE told == Told(p, "phase3", {j.obj : j \in joins[p]})
  <2>1. /\ Step(p, "phase3", "idle") /\ UNCHANGED <<gid, prio>> /\ cpl' = Adding(told)
        /\ IFAllFromScratch(p, cpl')
    BY <1>4 DEF JoinEndReturns
  <2>2. \A t \in told : Home[t[1]] = p
    <3>1. \A j \in joins[p] : Home[j.obj] = p
      BY <1>1 DEF JoinTypeInv
    <3> QED  BY <3>1, ToldIs
  <2> HIDE DEF told
  <2>3. \A o \in Obj : Home[o] # p => cpl'[o] = cpl[o]
    BY <1>1, <2>1, <2>2, AddingElsewhere
  <2>4. /\ program' = program /\ round' = round /\ env[p] = "phase3" /\ env'[p] = "idle"
        /\ \A a \in Proc : a # p => env'[a] = env[a] /\ round'[a] = round[a]
    BY <1>1, <2>1, SamePhase
  <2>5. program[round'[p]] # "prio"
    BY <1>1, <2>4 DEF StageInv, JoinEnvs, Joins3
  <2> QED  BY <1>1, <2>1, <2>3, <2>4, <2>5, RenewedLists
<1> QED  BY <1>2, <1>3, <1>4

LEMMA XferEndReturnsLists ==
  ASSUME ProtocolInv, ProtocolInv', ListsInv, StdInv, NEW p \in Proc, XferEndReturns(p)
  PROVE  ListsInv'
<1>1. StageInv /\ DataInv' /\ OneCopy'
  BY DEF ProtocolInv
<1>2. /\ Step(p, "xfer", "idle") /\ UNCHANGED prio /\ IFAllFromScratch(p, cpl')
      /\ cpl' = [o \in Obj |-> IF o \in Deleted(p) THEN NoCouplings
                               ELSE IF o \in Copies(p) THEN [q \in Keeping(o) |-> cpl[o][q]]
                               ELSE cpl[o]]
      /\ gid' = [o \in Obj |-> IF o \in Deleted(p) THEN NoGid ELSE gid[o]]
  BY DEF XferEndReturns
<1>3. \A o \in Obj : Home[o] # p => cpl'[o] = cpl[o] /\ gid'[o] = gid[o]
  BY <1>2 DEF Deleted, Copies
<1>4. \A o \in Coupled(p, cpl') : gid'[o] = gid[o]
  BY <1>2 DEF Coupled
<1>5. /\ program' = program /\ round' = round /\ env[p] = "xfer" /\ env'[p] = "idle"
      /\ \A a \in Proc : a # p => env'[a] = env[a] /\ round'[a] = round[a]
  BY <1>1, <1>2, SamePhase
<1>6. program[round'[p]] # "prio"
  BY <1>1, <1>5 DEF StageInv
<1> QED  BY <1>1, <1>2, <1>3, <1>4, <1>5, <1>6, RenewedLists

LEMMA JoinEndGids ==
  ASSUME JoinTypeInv, NEW p \in Proc, JoinEnd(p)
  PROVE  \A o \in Obj : \/ gid'[o] = gid[o] /\ ~\E j \in joins[p] : j.obj = o
                        \/ Home[o] = p /\ cpl[o] = NoCouplings /\ \E j \in joins[p] : j.obj = o /\ gid'[o] = j.gid
<1> SUFFICES ASSUME NEW o \in Obj
             PROVE  \/ gid'[o] = gid[o] /\ ~\E j \in joins[p] : j.obj = o
                    \/ Home[o] = p /\ cpl[o] = NoCouplings /\ \E j \in joins[p] : j.obj = o /\ gid'[o] = j.gid
  OBVIOUS
<1>1. gid'[o] = IF \E j \in joins[p] : j.obj = o THEN (CHOOSE j \in joins[p] : j.obj = o).gid ELSE gid[o]
  BY DEF JoinEnd
<1>2. CASE \E j \in joins[p] : j.obj = o
  <2> DEFINE j == CHOOSE i \in joins[p] : i.obj = o
  <2>1. j \in joins[p] /\ j.obj = o
    BY <1>2
  <2>2. gid'[o] = j.gid
    BY <1>1, <1>2
  <2> QED  BY <2>1, <2>2 DEF JoinTypeInv
<1>3. CASE ~\E j \in joins[p] : j.obj = o
  BY <1>1, <1>3
<1> QED  BY <1>2, <1>3

LEMMA NextLists ==
  ASSUME ProtocolInv, ProtocolInv', ListsInv, StdInv, [Next]_vars
  PROVE  ListsInv'
<1>1. StageInv /\ DataInv /\ JoinTypeInv /\ DataInv' /\ OneCopy'
  BY DEF ProtocolInv
<1>2. ASSUME NEW p \in Proc, JoinBegin(p) \/ PrioBegin(p) PROVE ListsInv'
  <2>1. \E x : \E first \in {"joinCmds", "prioCmds"} : Begin(p, x, first)
    <3>1. CASE JoinBegin(p)
      BY <3>1 DEF JoinBegin
    <3>2. CASE PrioBegin(p)
      BY <3>2 DEF PrioBegin
    <3> QED  BY <1>2, <3>1, <3>2
  <2>2. UNCHANGED <<gid, prio, cpl, std, heads>>
    BY <1>2 DEF JoinBegin, PrioBegin, ifVars
  <2> QED  BY <1>1, <2>1, <2>2, BeginLists
<1>3. ASSUME NEW p \in Proc, NEW gids, XferEnd(p, gids) PROVE ListsInv'
  <2>1. Begin(p, "xfer", "xfer") /\ UNCHANGED <<gid, prio, cpl, std, heads>>
    BY <1>3 DEF XferEnd, ifVars
  <2> QED  BY <1>1, <2>1, BeginLists
<1>4. ASSUME NEW p \in Proc, JoinEnd(p) PROVE ListsInv'
  <2>1. Step(p, "joinCmds", "phase1") /\ UNCHANGED <<prio, cpl, std, heads>>
    BY <1>4 DEF JoinEnd, ifVars
  <2>2. \A o \in Obj : gid'[o] = gid[o] \/ (Home[o] = p /\ cpl[o] = NoCouplings)
    BY <1>1, <1>4, JoinEndGids
  <2>3. /\ program' = program /\ env[p] = "joinCmds" /\ env'[p] = "phase1"
        /\ \A a \in Proc : a # p => env'[a] = env[a] /\ round'[a] = round[a]
    BY <1>1, <2>1, SamePhase
  <2>4. ~StdValid(p)'
    BY <2>3 DEF StdValid, PrioEnvs
  <2> QED  BY <1>1, <2>1, <2>2, <2>3, <2>4, QuietLists
<1>5. ASSUME NEW p \in Proc, PrioEnd(p) PROVE ListsInv'
  <2>1. Step(p, "prioCmds", "prioExchange") /\ UNCHANGED <<gid, prio, cpl, std, heads>>
    BY <1>5 DEF PrioEnd, ifVars
  <2>2. /\ program' = program /\ env[p] = "prioCmds" /\ env'[p] = "prioExchange"
        /\ \A a \in Proc : a # p => env'[a] = env[a] /\ round'[a] = round[a]
    BY <1>1, <2>1, SamePhase
  <2>3. StdValid(p) /\ env'[p] # "idle"
    BY <2>2 DEF StdValid, PrioEnvs
  <2> QED  BY <1>1, <2>1, <2>2, <2>3, QuietLists
<1>6. ASSUME NEW o \in Changing, NEW r \in Prio, PrioChange(o, r) PROVE ListsInv'
  <2>1. o \in Obj /\ Home[o] \in Proc
    BY PrioAssumption, InterfacesAssumption
  <2>2. env[Home[o]] = "prioCmds" /\ UNCHANGED <<gid, cpl, std, heads, program, round, env>>
    BY <1>6 DEF PrioChange, ifVars, envVars
  <2>3. \A x \in Obj : Home[x] # Home[o] => prio'[x] = prio[x]
    <3>1. prio' = [prio EXCEPT ![o] = r]
      BY <1>6 DEF PrioChange
    <3> QED  BY <3>1
  <2>4. StdValid(Home[o]) /\ env'[Home[o]] # "idle"
    BY <2>2 DEF StdValid, PrioEnvs
  <2> QED  BY <1>1, <2>1, <2>2, <2>3, <2>4, QuietLists
<1>7. ASSUME NEW p \in Proc, UseInterfaces(p) PROVE ListsInv'
  <2>1. UNCHANGED <<gid, prio, cpl, program, round, env>>
    BY <1>7 DEF UseInterfaces, IFRefreshAll, IFExecLocal, envVars
  <2>2. CASE IFRefreshAll(p)
    <3>1. IFRebuildAll(p, cpl')
      BY <2>1, <2>2 DEF IFRefreshAll
    <3>2. /\ ListsAt(p)' /\ DOMAIN heads' = Proc
          /\ \A a \in Proc : a # p => std'[a] = std[a] /\ heads'[a] = heads[a]
      BY <1>1, <2>1, <3>1, RebuiltLists DEF StdInv
    <3> QED  BY <2>1, <3>2, ListsStep
  <2>3. CASE IFExecLocal(p)
    <3>1. UNCHANGED <<std, heads>>
      BY <2>3 DEF IFExecLocal
    <3> QED  BY <1>1, <2>1, <3>1, QuietLists DEF StdValid
  <2> QED  BY <1>7, <2>2, <2>3 DEF UseInterfaces
<1>8. ASSUME UNCHANGED <<gid, prio, cpl, std, heads, program, round, env>> PROVE ListsInv'
  <2>1. ASSUME NEW a \in Proc PROVE ListsAt(a)'
    BY <1>8, KeptListsAt DEF ListsInv, StdValid
  <2> QED  BY <1>8, <2>1 DEF ListsInv
<1>9. CASE \/ \E p \in Proc, o \in Joining, d \in Proc : Home[o] = p /\ \E g \in Targets[o] : JoinObj(p, o, d, g)
           \/ \E o \in Moving : Move(o) /\ UNCHANGED joinVars
           \/ UNCHANGED vars
  <2>1. UNCHANGED <<gid, prio, cpl, std, heads, program, round, env>>
    BY <1>9 DEF JoinObj, Move, HdrConstructorMove, vars, ifVars, envVars
  <2> QED  BY <1>8, <2>1
<1>10. ASSUME NEW p \in Proc, Advance(p) PROVE ListsInv'
  BY <1>1, <1>2, <1>4, <1>5, <1>10, UnpackLists, XferEndReturnsLists, PrioEndReturnsLists DEF Advance
<1> QED  BY <1>3, <1>6, <1>7, <1>9, <1>10 DEF Next

-------------------------------------------------------------------------------
(* The attributes. *)

LEMMA SameAttr ==
  ASSUME OriginInv, NEW x \in Obj, NEW y \in Obj, gid[x] = gid[y], gid[x] # NoGid
  PROVE  Attr[x] = Attr[y]
<1>1. \A o \in {x, y} : gid[o] = FirstGids[o] \/ (o \in Joining /\ gid[o] \in Targets[o])
  BY DEF OriginInv
<1> QED  BY <1>1, AttrAssumption

LEMMA NextOrigin ==
  ASSUME ProtocolInv, OriginInv, [Next]_vars
  PROVE  OriginInv'
<1>1. JoinTypeInv
  BY DEF ProtocolInv
<1>2. ASSUME UNCHANGED <<gid, joins>> PROVE OriginInv'
  BY <1>2 DEF OriginInv
<1>3. ASSUME NEW p \in Proc, JoinEnd(p) PROVE OriginInv'
  <2>1. joins' = joins
    BY <1>3 DEF JoinEnd
  <2>2. \A j \in joins[p] : j.obj \in Joining
    BY <1>1 DEF JoinTypeInv
  <2>3. \A o \in Obj : gid'[o] = gid[o] \/ \E j \in joins[p] : j.obj = o /\ gid'[o] = j.gid
    BY <1>1, <1>3, JoinEndGids
  <2> QED  BY <2>1, <2>2, <2>3 DEF OriginInv
<1>4. ASSUME NEW p \in Proc, JoinEndReturns(p) PROVE OriginInv'
  <2>1. gid' = gid /\ joins' = [joins EXCEPT ![p] = {}]
    BY <1>4 DEF JoinEndReturns
  <2>2. \A a \in Proc : joins'[a] \subseteq joins[a]
    BY <1>1, <2>1 DEF JoinTypeInv
  <2> QED  BY <2>1, <2>2 DEF OriginInv
<1>5. ASSUME NEW p \in Proc, XferEndReturns(p) PROVE OriginInv'
  <2>1. joins' = joins /\ \A o \in Obj : gid'[o] \in {NoGid, gid[o]}
    BY <1>5 DEF XferEndReturns
  <2> QED  BY <2>1 DEF OriginInv
<1>6. ASSUME NEW p \in Proc, NEW o \in Joining, NEW d \in Proc, NEW g \in Targets[o], JoinObj(p, o, d, g)
      PROVE  OriginInv'
  <2>1. gid' = gid /\ joins' = [joins EXCEPT ![p] = @ \cup {[obj |-> o, dest |-> d, gid |-> g]}]
    BY <1>6 DEF JoinObj
  <2>2. \A a \in Proc : \A j \in joins'[a] : j \in joins[a] \/ j = [obj |-> o, dest |-> d, gid |-> g]
    BY <1>1, <2>1 DEF JoinTypeInv
  <2>3. \A a \in Proc : \A j \in joins'[a] : j.gid \in Targets[j.obj]
    BY <2>2 DEF OriginInv
  <2> QED  BY <2>1, <2>3 DEF OriginInv
<1>7. ASSUME NEW p \in Proc, Advance(p) PROVE OriginInv'
  <2>1. CASE JoinBegin(p) \/ UnpackPhase1(p) \/ UnpackPhase2(p)
    BY <1>2, <2>1 DEF JoinBegin, UnpackPhase1, UnpackPhase2, joinVars
  <2>2. CASE (PrioBegin(p) \/ PrioEnd(p) \/ PrioEndReturns(p)) /\ UNCHANGED joinVars
    BY <1>2, <2>2 DEF PrioBegin, PrioEnd, PrioEndReturns, joinVars
  <2> QED  BY <1>3, <1>4, <1>5, <1>7, <2>1, <2>2 DEF Advance
<1>8. CASE \/ \E p \in Proc : \E gids \in SUBSET {gid[o] : o \in Deletable \cap Copies(p)} : XferEnd(p, gids)
           \/ \E o \in Changing, r \in Prio : PrioChange(o, r) /\ UNCHANGED joinVars
           \/ \E o \in Moving : Move(o) /\ UNCHANGED joinVars
           \/ \E p \in Proc : UseInterfaces(p) /\ UNCHANGED joinVars
           \/ UNCHANGED vars
  <2>1. UNCHANGED <<gid, joins>>
    BY <1>8 DEF XferEnd, PrioChange, Move, HdrConstructorMove, UseInterfaces, IFRefreshAll, IFExecLocal,
                vars, joinVars
  <2> QED  BY <1>2, <2>1
<1> QED  BY <1>6, <1>7, <1>8 DEF Next

-------------------------------------------------------------------------------
(* The priorities. *)

SharedIs(p, q) == SharedList(p, q) = SortedBy(Common(p, q, cpl), On(gid, Common(p, q, cpl)))
LEMMA NextShared ==
  ASSUME NEW p, NEW q
  PROVE  SharedIs(p, q) /\ SharedIs(p, q)'
<1>1. SharedIs(p, q)
  BY SortedByGid DEF SharedIs, SharedList
<1> QED  BY <1>1, PTL

LEMMA KeptShared ==
  ASSUME NEW a, NEW q,
         \A o \in Obj : Home[o] = a => /\ DOMAIN cpl'[o] = DOMAIN cpl[o]
                                       /\ cpl'[o] = NoCouplings <=> cpl[o] = NoCouplings
                                       /\ cpl[o] # NoCouplings => gid'[o] = gid[o]
  PROVE  SharedList(a, q)' = SharedList(a, q)
<1>1. \A o \in Coupled(a, cpl) : gid[o] = gid'[o] /\ DOMAIN cpl[o] = DOMAIN cpl'[o]
  BY DEF Coupled
<1>2. Coupled(a, cpl) = Coupled(a, cpl')
  BY DEF Coupled
<1>3. Common(a, q, cpl) = Common(a, q, cpl')
  BY <1>1, <1>2 DEF Common
<1>4. On(gid, Common(a, q, cpl)) = On(gid', Common(a, q, cpl'))
  <2>1. \A o \in Common(a, q, cpl) : gid[o] = gid'[o]
    BY <1>1 DEF Common
  <2> QED  BY <1>3, <2>1 DEF On
<1>5. SharedList(a, q)' = SortedBy(Common(a, q, cpl'), On(gid', Common(a, q, cpl')))
  BY NextShared DEF SharedIs
<1>6. SharedList(a, q) = SortedBy(Common(a, q, cpl), On(gid, Common(a, q, cpl)))
  BY NextShared DEF SharedIs
<1> QED  BY <1>3, <1>4, <1>5, <1>6

LEMMA CplDomain ==
  ASSUME DataInv, KnownInv, NEW o \in Obj, NEW q \in DOMAIN cpl[o]
  PROVE  q \in Proc /\ Knows(o, q) /\ gid[o] # NoGid /\ cpl[o] # NoCouplings /\ q # Home[o] /\ Home[o] \in Proc
<1>1. cpl[o] # NoCouplings
  BY CoupledIff
<1>2. gid[o] # NoGid
  BY <1>1 DEF DataInv
<1> QED  BY <1>1, <1>2, InterfacesAssumption DEF KnownInv, Knows

(* Nothing is on its way to p from those whose messages it has all taken. *)
LEMMA QuietChan ==
  ASSUME StageInv, ExchangeInv, NEW p \in Proc, NEW q \in Proc, p # q, Taken(p) >= Sent(q)
  PROVE  chan[q][p] = <<>>
<1>1. Taken(p) \in Nat /\ Sent(q) \in Nat
  BY Counts
<1>2. Due(q, p) = {}
  BY <1>1 DEF Due
<1>3. Len(chan[q][p]) = 0
  BY <1>2, FS_EmptySet DEF ExchangeInv, CountInv
<1>4. PICK S : chan \in [Proc -> [Proc -> Seq(S)]]
  BY DEF ExchangeInv, SeqInv
<1>5. chan[q][p] \in Seq(S)
  BY <1>4
<1> QED  BY <1>3, <1>5

(* p does something else. *)
LEMMA QuietPrios ==
  ASSUME DataInv, KnownInv, KnownPrios, ChanInv, ItemInv,
         UNCHANGED <<gid, prio, cpl, chan, net, addCpl3>>,
         \A a \in Proc : /\ env'[a] # "prioCmds" => env[a] # "prioCmds"
                         /\ env'[a] = "phase2" => env[a] = "phase2",
         \A o \in Obj, q \in Proc : Going(o, q) => Going(o, q)',
         \A m \in net : m.to \in Proc /\ \A i \in m.items : m.phase = "phase3" => i.proc \in Proc
  PROVE  KnownPrios' /\ ChanInv' /\ ItemInv'
<1>1. \A q, g : Copy(q, g)' = Copy(q, g)
  BY DEF Copy, Copies
<1>2. \A q \in Proc : \A p : Fresh(q, p)' => Fresh(q, p)
  BY DEF Fresh
<1>3. KnownPrios'
  <2>1. ASSUME NEW o \in Obj, NEW q \in DOMAIN cpl[o] PROVE Known1(o, q)'
    <3>1. q \in Proc
      BY CplDomain
    <3> QED  BY <1>1, <1>2, <3>1 DEF KnownPrios, Known1
  <2> QED  BY <2>1 DEF KnownPrios
<1>4. ChanInv'
  <2>1. \A p, q : SharedList(q, p)' = SharedList(q, p)
    BY KeptShared
  <2> QED  BY <2>1 DEF ChanInv, ChanAt
<1>5. ItemInv'
  <2>1. ASSUME NEW m \in net, NEW i \in m.items PROVE ItemRight(m, i)'
    BY <1>1, <1>2 DEF ItemInv, ItemRight
  <2>2. ASSUME NEW a \in Proc PROVE TaskRight(a)'
    BY <1>1 DEF ItemInv, TaskRight
  <2> QED  BY <2>1, <2>2 DEF ItemInv
<1> QED  BY <1>3, <1>4, <1>5

LEMMA ItemProcs ==
  ASSUME NetInv
  PROVE  \A m \in net : m.to \in Proc /\ \A i \in m.items : m.phase = "phase3" => i.proc \in Proc
  BY DEF NetInv, Net3

(* Steps that begin an environment, and steps that change nothing here. *)
LEMMA BeginPrios ==
  ASSUME ProtocolInv, PrioInv, NEW p \in Proc, NEW x, NEW first, Begin(p, x, first),
         first \in {"joinCmds", "prioCmds", "xfer"},
         UNCHANGED <<gid, prio, cpl, chan, net, addCpl3>>, \A a \in Proc : a # p => deleted'[a] = deleted[a]
  PROVE  KnownPrios' /\ ChanInv' /\ ItemInv'
<1>1. StageInv /\ DataInv /\ KnownInv /\ NetInv /\ KnownPrios /\ ChanInv /\ ItemInv
  BY DEF ProtocolInv, PrioInv
<1>2. /\ program' = program /\ env[p] = "idle" /\ env'[p] = first
      /\ round[p] \in Nat /\ round'[p] = round[p] + 1
      /\ \A a \in Proc : a # p => env'[a] = env[a] /\ round'[a] = round[a]
  BY <1>1, BegunPhase
<1>3. ASSUME NEW o \in Obj, NEW q \in Proc, Going(o, q) PROVE Going(o, q)'
  <2>1. Home[o] \in Proc /\ Home[o] # p
    BY <1>2, <1>3, InterfacesAssumption DEF Going
  <2>2. env'[Home[o]] = "xfer" /\ Deletes(Home[o], Home[o], o)'
    BY <1>2, <1>3, <2>1 DEF Going, Deletes
  <2>3. Passed(q, round[Home[o]])'
    <3>1. round[Home[o]] \in Nat /\ round[q] \in Nat
      BY <1>1, <2>1 DEF StageInv
    <3>2. Passed(q, round[Home[o]])
      BY <1>3 DEF Going
    <3>3. round'[Home[o]] = round[Home[o]]
      BY <1>2, <2>1
    <3>4. CASE q = p
      BY <1>2, <3>1, <3>2, <3>3, <3>4 DEF Passed
    <3>5. CASE q # p
      BY <1>2, <3>2, <3>3, <3>5 DEF Passed
    <3> QED  BY <3>4, <3>5
  <2> QED  BY <1>2, <2>1, <2>2, <2>3 DEF Going
<1>4. \A a \in Proc : /\ env'[a] # "prioCmds" => env[a] # "prioCmds"
                      /\ env'[a] = "phase2" => env[a] = "phase2"
  BY <1>2
<1> QED  BY <1>1, <1>3, <1>4, ItemProcs, QuietPrios

(* Steps between the stages. *)
LEMMA StayPrios ==
  ASSUME ProtocolInv, PrioInv, UNCHANGED <<gid, prio, cpl, chan, net, addCpl3, env, round, deleted>>
  PROVE  KnownPrios' /\ ChanInv' /\ ItemInv'
<1>1. DataInv /\ KnownInv /\ NetInv /\ KnownPrios /\ ChanInv /\ ItemInv
  BY DEF ProtocolInv, PrioInv
<1>2. \A o \in Obj, q \in Proc : Going(o, q) => Going(o, q)'
  BY DEF Going, Deletes, Passed
<1> QED  BY <1>1, <1>2, ItemProcs, QuietPrios

(* p has changed what it is about, and has nothing on its way. *)
LEMMA LocalChan ==
  ASSUME ChanInv, NEW p \in Proc, \A q \in Proc : q # p => chan[p][q] = <<>>,
         UNCHANGED <<chan, prio>>, \A a \in Proc : env'[a] # "prioCmds" => env[a] # "prioCmds",
         \A o \in Obj : Home[o] # p => cpl'[o] = cpl[o] /\ (cpl[o] # NoCouplings => gid'[o] = gid[o])
  PROVE  ChanInv'
<1>1. ASSUME NEW a \in Proc, NEW q \in Proc, a # q PROVE ChanAt(a, q)'
  <2>1. CASE a = p
    <3>1. Len(chan'[a][q]) = 0
      BY <1>1, <2>1
    <3> QED  BY <3>1 DEF ChanAt
  <2>2. CASE a # p
    <3>1. SharedList(a, q)' = SharedList(a, q)
      BY <2>2, KeptShared
    <3>2. ChanAt(a, q)
      BY <1>1 DEF ChanInv
    <3> QED  BY <3>1, <3>2 DEF ChanAt
  <2> QED  BY <2>1, <2>2
<1> QED  BY <1>1 DEF ChanInv

LEMMA WithCouplingsValue ==
  ASSUME NEW list, NEW adds, NEW q \in DOMAIN WithCouplings(list, adds)
  PROVE  \/ \E a \in adds : a[1] = q /\ WithCouplings(list, adds)[q] = a[2]
         \/ q \in DOMAIN list /\ WithCouplings(list, adds)[q] = list[q]
<1>1. q \in DOMAIN list \cup {a[1] : a \in adds}
  BY DEF WithCouplings
<1>2. WithCouplings(list, adds)[q] = IF \E a \in adds : a[1] = q THEN (CHOOSE a \in adds : a[1] = q)[2] ELSE list[q]
  BY <1>1 DEF WithCouplings
<1>3. CASE \E a \in adds : a[1] = q
  <2> DEFINE b == CHOOSE a \in adds : a[1] = q
  <2>1. b \in adds /\ b[1] = q
    BY <1>3
  <2> QED  BY <1>2, <1>3, <2>1
<1>4. CASE ~\E a \in adds : a[1] = q
  BY <1>1, <1>2, <1>4
<1> QED  BY <1>3, <1>4

(* p is told of copies, and of their priorities. *)
TellsRight(told, p) == \A t \in told :
    /\ Home[t[1]] = p /\ t[2] \in Proc /\ t[3] \in Prio
    /\ \A x \in Copy(t[2], gid[t[1]]) : Fresh(t[2], p) => t[3] = prio[x]

LEMMA ToldPrios ==
  ASSUME DataInv, KnownInv, KnownPrios, NEW p \in Proc, NEW told, TellsRight(told, p),
         \A o \in Obj : cpl'[o] = WithCouplings(cpl[o], {<<t[2], t[3]>> : t \in {x \in told : x[1] = o}}),
         UNCHANGED <<gid, prio, chan>>, \A a \in Proc : env'[a] # "prioCmds" => env[a] # "prioCmds",
         \A o \in Obj, q \in Proc : Going(o, q) => Going(o, q)'
  PROVE  KnownPrios'
<1>1. \A q, g : Copy(q, g)' = Copy(q, g)
  BY DEF Copy, Copies
<1>2. \A q \in Proc : \A r : Fresh(q, r)' => Fresh(q, r)
  BY DEF Fresh
<1>3. ASSUME NEW o \in Obj, NEW q \in DOMAIN cpl'[o] PROVE Known1(o, q)'
  <2> DEFINE adds == {<<t[2], t[3]>> : t \in {x \in told : x[1] = o}}
  <2>1. cpl'[o] = WithCouplings(cpl[o], adds)
    OBVIOUS
  <2>2. CASE \E a \in adds : a[1] = q /\ cpl'[o][q] = a[2]
    <3>1. PICK t \in told : t[1] = o /\ t[2] = q /\ cpl'[o][q] = t[3]
      BY <2>2
    <3>2. /\ Home[o] = p /\ q \in Proc /\ cpl'[o][q] \in Prio
          /\ \A x \in Copy(q, gid[o]) : Fresh(q, p) => cpl'[o][q] = prio[x]
      BY <3>1 DEF TellsRight
    <3> QED  BY <1>1, <1>2, <3>2 DEF Known1
  <2>3. CASE q \in DOMAIN cpl[o] /\ cpl'[o][q] = cpl[o][q]
    <3>1. q \in Proc
      BY <2>3, CplDomain
    <3> QED  BY <1>1, <1>2, <2>3, <3>1 DEF KnownPrios, Known1
  <2> HIDE DEF adds
  <2>4. \/ \E a \in adds : a[1] = q /\ cpl'[o][q] = a[2]
        \/ q \in DOMAIN cpl[o] /\ cpl'[o][q] = cpl[o][q]
    BY <2>1, WithCouplingsValue
  <2> QED  BY <2>2, <2>3, <2>4
<1> QED  BY <1>3 DEF KnownPrios

(* A joining object takes its new id; its copies are told its priority. *)
LEMMA JoinEndPrios ==
  ASSUME ProtocolInv, ProtocolInv', PrioInv, NEW p \in Proc, JoinEnd(p)
  PROVE  KnownPrios' /\ ChanInv' /\ ItemInv'
<1>1. /\ StageInv /\ Barriers /\ DataInv /\ OneCopy' /\ JoinTypeInv /\ KnownInv /\ NetInv
      /\ KnownPrios /\ ChanInv /\ ItemInv
  BY DEF ProtocolInv, PrioInv
<1> DEFINE items == {[dest |-> j.dest, gid |-> j.gid, prio |-> prio[j.obj]] : j \in joins[p]}
           msgs == MsgsFrom(p, "phase1", items)
<1>2. /\ Step(p, "joinCmds", "phase1") /\ net' = net \cup msgs
      /\ UNCHANGED <<prio, cpl, chan, joins, addCpl3, deleted>>
  BY DEF JoinEnd
<1>3. /\ program' = program /\ round' = round /\ env[p] = "joinCmds" /\ env'[p] = "phase1"
      /\ \A a \in Proc : a # p => env'[a] = env[a]
  BY <1>1, <1>2, SamePhase
<1>4. \A o \in Obj : \/ gid'[o] = gid[o] /\ ~\E j \in joins[p] : j.obj = o
                     \/ Home[o] = p /\ cpl[o] = NoCouplings /\ \E j \in joins[p] : j.obj = o /\ gid'[o] = j.gid
  BY <1>1, JoinEndGids
<1>5. \A a \in Proc : /\ env'[a] # "prioCmds" => env[a] # "prioCmds"
                      /\ env'[a] = "phase2" => env[a] = "phase2"
  BY <1>3
<1>6. CASE joins[p] = {}
  <2>1. gid' = gid
    <3>1. \A o \in Obj : gid'[o] = gid[o]
      BY <1>4, <1>6
    <3>2. gid' = [o \in Obj |-> gid'[o]] /\ gid = [o \in Obj |-> gid[o]]
      BY <1>1 DEF JoinEnd, DataInv
    <3> QED  BY <3>1, <3>2
  <2>2. net' = net
    <3>1. items = {}
      BY <1>6
    <3>2. msgs = {}
      BY <3>1 DEF MsgsFrom
    <3> QED  BY <1>2, <3>2
  <2>3. \A o \in Obj, q \in Proc : Going(o, q) => Going(o, q)'
    <3> SUFFICES ASSUME NEW o \in Obj, NEW q \in Proc, Going(o, q) PROVE Going(o, q)'
      OBVIOUS
    <3>1. Home[o] \in Proc /\ Home[o] # p
      BY <1>3, InterfacesAssumption DEF Going
    <3>2. Passed(q, round[Home[o]])'
      BY <1>3, <3>1 DEF Going, Passed
    <3> QED  BY <1>2, <1>3, <2>1, <3>1, <3>2 DEF Going, Deletes
  <2> QED  BY <1>1, <1>2, <1>5, <2>1, <2>2, <2>3, ItemProcs, QuietPrios
<1>7. CASE joins[p] # {}
  (* Nobody else is any further, and nothing but first messages is on its way. *)
  <2>1. \A a \in Proc : env[a] \in {"joinCmds", "phase1"}
    BY <1>1, <1>3, <1>7, JoinersStages
  <2>2. \A m \in net : m.from \in Proc /\ m.phase = "phase1" /\ m.from # p
    <3> SUFFICES ASSUME NEW m \in net PROVE m.from \in Proc /\ m.phase = "phase1" /\ m.from # p
      OBVIOUS
    <3>1. m.from \in Proc /\ m.to \in Proc /\ m.phase \in Joins3
      BY <1>1 DEF NetInv
    <3>2. m.phase # "phase2"
      BY <1>1, <2>1, <3>1 DEF NetInv, Net2
    <3>3. m.phase # "phase3"
      BY <1>1, <2>1, <3>1 DEF NetInv, Net3
    <3>4. m.phase = "phase1" => env[m.from] \in {"phase1", "phase2"}
      BY <1>1 DEF NetInv, Net1
    <3> QED  BY <1>3, <3>1, <3>2, <3>3, <3>4 DEF Joins3
  <2>3. \A j \in joins[p] : /\ Copy(p, j.gid) = {} /\ j.obj \in Obj /\ Home[j.obj] = p /\ j.gid # NoGid
                            /\ gid'[j.obj] = j.gid
    <3>1. \A j \in joins[p] : Copy(p, j.gid) = {} /\ j.obj \in Obj /\ Home[j.obj] = p /\ j.gid # NoGid
      BY <1>1, <1>3, JoinAssumption DEF JoinTypeInv, NoGid
    <3>2. \A i, j \in joins[p] : i.obj = j.obj => i = j
      BY <1>1 DEF JoinTypeInv
    <3> QED  BY <1>4, <3>1, <3>2
  <2>4. KnownPrios'
    <3>1. ASSUME NEW o \in Obj, NEW q \in DOMAIN cpl[o] PROVE Known1(o, q)'
      <4>1. q \in Proc /\ Knows(o, q) /\ cpl[o] # NoCouplings /\ Home[o] \in Proc
        BY <1>1, CplDomain
      <4>2. gid'[o] = gid[o]
        BY <1>4, <4>1
      <4>3. Copy(q, gid[o]) # {}
        <5>1. env[Home[o]] # "xfer"
          BY <2>1, <4>1
        <5> QED  BY <4>1, <5>1 DEF Knows
      <4>4. ASSUME NEW x \in Copy(q, gid[o])' PROVE x \in Copy(q, gid[o])
        <5>1. x \in Obj /\ Home[x] = q /\ gid'[x] = gid[o] /\ gid[o] # NoGid
          BY <4>2, <4>4 DEF Copy, Copies
        <5>2. CASE gid'[x] = gid[x]
          BY <5>1, <5>2 DEF Copy, Copies
        <5>3. CASE gid'[x] # gid[x]
          <6>1. q = p /\ \E j \in joins[p] : gid[o] = j.gid
            BY <1>4, <5>1, <5>3
          <6> QED  BY <2>3, <4>3, <6>1
        <5> QED  BY <5>2, <5>3
      <4>5. Fresh(q, Home[o])' => Fresh(q, Home[o]) /\ ~Going(o, q)
        BY <1>2, <1>5, <2>1, <4>1 DEF Fresh, Going
      <4>6. Known1(o, q)
        BY <1>1 DEF KnownPrios
      <4> QED  BY <1>2, <4>2, <4>4, <4>5, <4>6 DEF Known1
    <3> QED  BY <1>1, <1>2, <3>1 DEF KnownPrios
  <2>5. ChanInv'
    <3>1. \A a, q : SharedList(a, q)' = SharedList(a, q)
      <4>1. \A o \in Obj : cpl[o] # NoCouplings => gid'[o] = gid[o]
        BY <1>4
      <4> QED  BY <1>2, <4>1, KeptShared
    <3>2. ASSUME NEW a \in Proc, NEW q \in Proc, a # q PROVE ChanAt(a, q)'
      <4>1. ChanAt(a, q)
        BY <1>1, <3>2 DEF ChanInv
      <4> QED  BY <1>2, <1>5, <3>1, <4>1 DEF ChanAt
    <3> QED  BY <3>2 DEF ChanInv
  <2>6. ItemInv'
    <3>1. ASSUME NEW m \in net, NEW i \in m.items PROVE ItemRight(m, i)'
      <4>1. m.phase = "phase1" /\ m.from # p
        BY <2>2
      <4>2. Copy(m.from, i.gid)' = Copy(m.from, i.gid)
        BY <1>4, <4>1 DEF Copy, Copies
      <4> QED  BY <1>1, <1>2, <4>1, <4>2 DEF ItemInv, ItemRight
    <3>2. ASSUME NEW m \in msgs, NEW i \in m.items PROVE ItemRight(m, i)'
      <4>1. m.from = p /\ m.phase = "phase1" /\ i \in items
        BY <3>2, MsgsFromItems
      <4>2. PICK j \in joins[p] : i = [dest |-> j.dest, gid |-> j.gid, prio |-> prio[j.obj]]
        BY <4>1
      <4>3. i.prio = prio[j.obj] /\ i.gid = j.gid
        BY <4>2
      <4>4. prio[j.obj] \in Prio
        BY <1>1, <2>3 DEF KnownPrios
      <4>5. \A x \in Copy(p, j.gid)' : x = j.obj
        BY <1>1, <2>3 DEF Copy, Copies, OneCopy
      <4> QED  BY <1>2, <4>1, <4>3, <4>4, <4>5 DEF ItemRight
    <3>3. ASSUME NEW a \in Proc PROVE TaskRight(a)'
      <4>1. env'[a] # "phase2"
        BY <1>5, <2>1
      <4> QED  BY <1>1, <1>2, <4>1 DEF ItemInv, TaskRight
    <3> QED  BY <1>2, <3>1, <3>2, <3>3 DEF ItemInv
  <2> QED  BY <2>4, <2>5, <2>6
<1> QED  BY <1>6, <1>7

(* The deletion of copies leaves the priorities of the others known. *)
LEMMA XferEndReturnsPrios ==
  ASSUME ProtocolInv, ProtocolInv', ExchangeInv, PrioInv, NEW p \in Proc, XferEndReturns(p)
  PROVE  KnownPrios' /\ ChanInv' /\ ItemInv'
<1>1. StageInv /\ DataInv /\ KnownInv /\ NetInv /\ KnownPrios /\ ChanInv /\ ItemInv
  BY DEF ProtocolInv, PrioInv
<1>2. /\ Step(p, "xfer", "idle") /\ UNCHANGED <<prio, chan, net, addCpl3, deleted>>
      /\ \A q \in Proc : round[q] >= round[p]
      /\ cpl' = [o \in Obj |-> IF o \in Deleted(p) THEN NoCouplings
                               ELSE IF o \in Copies(p) THEN [q \in Keeping(o) |-> cpl[o][q]]
                               ELSE cpl[o]]
      /\ gid' = [o \in Obj |-> IF o \in Deleted(p) THEN NoGid ELSE gid[o]]
  BY DEF XferEndReturns
<1>3. /\ program' = program /\ round' = round /\ env[p] = "xfer" /\ env'[p] = "idle"
      /\ \A a \in Proc : a # p => env'[a] = env[a]
  BY <1>1, <1>2, SamePhase
<1>4. \A q, g : Copy(q, g)' \subseteq Copy(q, g)
  BY <1>2 DEF Copy, Copies
<1>5. \A q \in Proc : \A r : Fresh(q, r)' => Fresh(q, r)
  BY <1>2, <1>3 DEF Fresh
<1>6. KnownPrios'
  <2>1. ASSUME NEW o \in Obj, NEW q \in DOMAIN cpl'[o] PROVE Known1(o, q)'
    <3>1. o \notin Deleted(p)
      BY <1>2 DEF NoCouplings
    <3>2. q \in DOMAIN cpl[o] /\ cpl'[o][q] = cpl[o][q] /\ gid'[o] = gid[o]
      <4>1. CASE o \in Copies(p)
        <5>1. cpl'[o] = [x \in Keeping(o) |-> cpl[o][x]]
          BY <1>2, <3>1, <4>1
        <5>2. q \in Keeping(o)
          BY <5>1
        <5> QED  BY <1>2, <3>1, <5>1, <5>2 DEF Keeping
      <4>2. CASE o \notin Copies(p)
        BY <1>2, <3>1, <4>2
      <4> QED  BY <4>1, <4>2
    <3>3. q \in Proc /\ gid[o] # NoGid /\ Home[o] \in Proc
      BY <1>1, <3>2, CplDomain
    <3>4. Going(o, q) => Going(o, q)'
      <4> SUFFICES ASSUME Going(o, q) PROVE Going(o, q)'
        OBVIOUS
      <4>1. Home[o] # p
        BY <1>3, <3>1, <3>3 DEF Going, Deleted, Copies
      <4>2. Passed(q, round[Home[o]])'
        <5>1. Passed(q, round[Home[o]])
          BY DEF Going
        <5>2. env[q] = "idle" => env'[q] = "idle"
          BY <1>3, <3>3
        <5> QED  BY <1>3, <5>1, <5>2 DEF Passed
      <4> QED  BY <1>2, <1>3, <3>2, <3>3, <4>1, <4>2 DEF Going, Deletes
    <3>5. Known1(o, q)
      BY <1>1, <3>2 DEF KnownPrios
    <3> QED  BY <1>2, <1>4, <1>5, <3>2, <3>3, <3>4, <3>5 DEF Known1
  <2> QED  BY <1>1, <1>2, <2>1 DEF KnownPrios
<1>7. ChanInv'
  <2>1. ASSUME NEW q \in Proc, q # p PROVE chan[p][q] = <<>>
    <3>1. round[p] \in Nat /\ round[q] \in Nat /\ round[q] >= round[p] /\ program[round[p]] = "xfer"
      BY <1>1, <1>2, <1>3 DEF StageInv
    <3>2. round[q] = round[p] => env[q] \notin PrioEnvs
      BY <1>1, <3>1 DEF StageInv
    <3>3. Sent(p) = round[p] /\ Taken(q) >= round[p]
      BY <1>3, <3>1, <3>2 DEF Sent, Taken
    <3> QED  BY <1>1, <2>1, <3>3, QuietChan
  <2>2. \A o \in Obj : Home[o] # p => cpl'[o] = cpl[o] /\ gid'[o] = gid[o]
    BY <1>2 DEF Deleted, Copies
  <2> QED  BY <1>1, <1>2, <1>3, <2>1, <2>2, LocalChan
<1>8. ItemInv'
  <2>1. ASSUME NEW m \in net, NEW i \in m.items PROVE ItemRight(m, i)'
    <3>1. m.phase = "phase3" => i.proc \in Proc
      BY <1>1, ItemProcs
    <3> QED  BY <1>1, <1>2, <1>4, <1>5, <3>1 DEF ItemInv, ItemRight
  <2>2. ASSUME NEW a \in Proc PROVE TaskRight(a)'
    BY <1>1, <1>2, <1>3, <1>4 DEF ItemInv, TaskRight
  <2> QED  BY <1>2, <2>1, <2>2 DEF ItemInv
<1> QED  BY <1>6, <1>7, <1>8

(* What p is asked for and told comes from messages. *)
LEMMA AskedItems ==
  ASSUME NEW p
  PROVE  \A c \in Asked(p) : /\ c[1] \in Coupled(p, cpl)
                             /\ \E m \in net : /\ m.phase = "phase1" /\ m.from = c[2] /\ m.to = p
                                               /\ \E i \in m.items : i.gid = gid[c[1]] /\ i.prio = c[3]
<1> DEFINE Of(o, m) == {<<o, m.from, i.prio>> : i \in {x \in m.items : x.gid = gid[o]}}
<1>1. Asked(p) = UNION {Of(o, m) : o \in Coupled(p, cpl), m \in Received(p, "phase1")}
  BY DEF Asked
<1>2. \A o, m : \A c \in Of(o, m) : c[1] = o /\ c[2] = m.from /\ \E i \in m.items : i.gid = gid[o] /\ i.prio = c[3]
  OBVIOUS
<1> HIDE DEF Of
<1> SUFFICES ASSUME NEW c \in Asked(p)
             PROVE  /\ c[1] \in Coupled(p, cpl)
                    /\ \E m \in net : /\ m.phase = "phase1" /\ m.from = c[2] /\ m.to = p
                                      /\ \E i \in m.items : i.gid = gid[c[1]] /\ i.prio = c[3]
  OBVIOUS
<1>3. PICK o \in Coupled(p, cpl), m \in Received(p, "phase1") : c \in Of(o, m)
  BY <1>1
<1>4. c[1] = o /\ c[2] = m.from /\ \E i \in m.items : i.gid = gid[o] /\ i.prio = c[3]
  BY <1>2, <1>3
<1> QED  BY <1>3, <1>4 DEF Received

LEMMA ToldItems ==
  ASSUME NEW p, NEW x, NEW objs
  PROVE  \A t \in Told(p, x, objs) :
            t[1] \in objs /\ \E m \in net : m.phase = x /\ m.to = p
                /\ \E i \in m.items : i.gid = gid[t[1]] /\ i.proc = t[2] /\ i.prio = t[3]
<1> DEFINE Of(o, m) == {<<o, i.proc, i.prio>> : i \in {y \in m.items : y.gid = gid[o]}}
<1>1. Told(p, x, objs) = UNION {Of(o, m) : o \in objs, m \in Received(p, x)}
  BY DEF Told
<1>2. \A o, m, t : t \in Of(o, m) <=> \E i \in m.items : i.gid = gid[o] /\ t = <<o, i.proc, i.prio>>
  OBVIOUS
<1> HIDE DEF Of
<1> SUFFICES ASSUME NEW t \in Told(p, x, objs)
             PROVE  t[1] \in objs /\ \E m \in net : m.phase = x /\ m.to = p
                      /\ \E i \in m.items : i.gid = gid[t[1]] /\ i.proc = t[2] /\ i.prio = t[3]
  OBVIOUS
<1>3. PICK o \in objs, m \in Received(p, x) : t \in Of(o, m)
  BY <1>1
<1>4. PICK i \in m.items : i.gid = gid[o] /\ t = <<o, i.proc, i.prio>>
  BY <1>2, <1>3
<1> QED  BY <1>3, <1>4 DEF Received

(* Nothing is on its way between those who unpack. *)
LEMMA UnpackQuiet ==
  ASSUME StageInv, Barriers, ExchangeInv, NEW p \in Proc, NEW q \in Proc, p # q,
         \/ env[p] = "phase1" /\ Connected(p, "phase1")
         \/ env[p] = "phase2" /\ Connected(p, "phase2")
  PROVE  chan[p][q] = <<>> /\ chan[q][p] = <<>> /\ Fresh(q, p)
<1>1. round[q] = round[p] /\ round[p] \in Nat /\ env[q] \in Joins3 /\ env[p] \in Joins3
  BY UnpackStages DEF Joins3
<1>2. Taken(p) = Sent(q) /\ Taken(q) = Sent(p)
  BY <1>1 DEF Taken, Sent, Joins3, PrioEnvs
<1>3. Taken(p) >= Sent(q) /\ Taken(q) >= Sent(p)
  BY <1>2, Counts
<1>4. chan[p][q] = <<>> /\ chan[q][p] = <<>>
  BY <1>3, QuietChan
<1> QED  BY <1>1, <1>4 DEF Fresh, Joins3

(* The steps of JoinEnd leave the other environments alone. *)
LEMMA JoinStepFacts ==
  ASSUME StageInv, NEW p \in Proc, NEW from \in Joins3, NEW to, Step(p, from, to), to # "prioCmds", to # "xfer",
         UNCHANGED <<gid, deleted>>
  PROVE  /\ program' = program /\ round' = round /\ env[p] = from /\ env'[p] = to
         /\ \A a \in Proc : a # p => env'[a] = env[a]
         /\ \A a \in Proc : env'[a] # "prioCmds" => env[a] # "prioCmds"
         /\ \A o \in Obj, q \in Proc : Going(o, q) => Going(o, q)'
         /\ \A q, g : Copy(q, g)' = Copy(q, g)
<1>1. /\ program' = program /\ round' = round /\ env[p] = from /\ env'[p] = to
      /\ \A a \in Proc : a # p => env'[a] = env[a]
  BY SamePhase
<1>2. ASSUME NEW o \in Obj, NEW q \in Proc, Going(o, q) PROVE Going(o, q)'
  <2>1. Home[o] \in Proc /\ Home[o] # p
    BY <1>1, <1>2, InterfacesAssumption DEF Going, Joins3
  <2>2. env[q] = "idle" => env'[q] = "idle"
    BY <1>1 DEF Joins3
  <2>3. Passed(q, round[Home[o]])'
    BY <1>1, <1>2, <2>2 DEF Going, Passed
  <2> QED  BY <1>1, <1>2, <2>1, <2>3 DEF Going, Deletes
<1> QED  BY <1>1, <1>2 DEF Joins3, Copy, Copies

(* The three phases of the join. *)
LEMMA UnpackPhase1Prios ==
  ASSUME ProtocolInv, ExchangeInv, PrioInv, NEW p \in Proc, UnpackPhase1(p)
  PROVE  KnownPrios' /\ ChanInv' /\ ItemInv'
<1>1. /\ StageInv /\ Barriers /\ DataInv /\ OneCopy /\ KnownInv /\ NetInv
      /\ KnownPrios /\ ChanInv /\ ItemInv /\ CplFunctions
  BY DEF ProtocolInv, PrioInv, DataInv, CplFunctions
<1> DEFINE asked == Asked(p)
           msgs == MsgsFrom(p, "phase2", AddCpl2(asked))
<1>2. /\ Step(p, "phase1", "phase2") /\ Connected(p, "phase1")
      /\ cpl' = [o \in Obj |-> WithCouplings(cpl[o], {<<c[2], c[3]>> : c \in {x \in asked : x[1] = o}})]
      /\ addCpl3' = [addCpl3 EXCEPT ![p] = FirstAddCpl3(p, asked)]
      /\ net' = (net \ Received(p, "phase1")) \cup msgs
      /\ UNCHANGED <<gid, prio, chan, deleted>>
  BY DEF UnpackPhase1
<1>3. /\ program' = program /\ round' = round /\ env[p] = "phase1" /\ env'[p] = "phase2"
      /\ \A a \in Proc : a # p => env'[a] = env[a]
      /\ \A a \in Proc : env'[a] # "prioCmds" => env[a] # "prioCmds"
      /\ \A o \in Obj, q \in Proc : Going(o, q) => Going(o, q)'
      /\ \A q, g : Copy(q, g)' = Copy(q, g)
  BY <1>1, <1>2, JoinStepFacts DEF Joins3
<1>4. \A q \in Proc : q # p => chan[p][q] = <<>> /\ Fresh(q, p)
  BY <1>1, <1>2, <1>3, UnpackQuiet
<1>5. \A c \in asked : /\ c[1] \in Obj /\ Home[c[1]] = p /\ gid[c[1]] \in Nat /\ gid[c[1]] # NoGid
                       /\ c[2] \in Proc /\ c[3] \in Prio
                       /\ \A x \in Copy(c[2], gid[c[1]]) : c[3] = prio[x]
  <2> SUFFICES ASSUME NEW c \in asked
               PROVE  /\ c[1] \in Obj /\ Home[c[1]] = p /\ gid[c[1]] \in Nat /\ gid[c[1]] # NoGid
                      /\ c[2] \in Proc /\ c[3] \in Prio
                      /\ \A x \in Copy(c[2], gid[c[1]]) : c[3] = prio[x]
    OBVIOUS
  <2>1. c[1] \in Coupled(p, cpl)
    BY AskedItems
  <2>2. PICK m \in net : /\ m.phase = "phase1" /\ m.from = c[2] /\ m.to = p
                         /\ \E i \in m.items : i.gid = gid[c[1]] /\ i.prio = c[3]
    BY AskedItems
  <2>3. PICK i \in m.items : i.gid = gid[c[1]] /\ i.prio = c[3]
    BY <2>2
  <2>4. c[3] \in Prio /\ \A x \in Copy(c[2], gid[c[1]]) : c[3] = prio[x]
    BY <1>1, <2>2, <2>3 DEF ItemInv, ItemRight
  <2>5. c[1] \in Obj /\ Home[c[1]] = p /\ gid[c[1]] \in Nat /\ gid[c[1]] # NoGid
    BY <1>1, <2>1 DEF Coupled, DataInv
  <2> QED  BY <1>1, <2>2, <2>4, <2>5 DEF NetInv
<1>6. KnownPrios'
  <2>1. TellsRight(asked, p)
    BY <1>5 DEF TellsRight
  <2>2. \A o \in Obj : cpl'[o] = WithCouplings(cpl[o], {<<c[2], c[3]>> : c \in {x \in asked : x[1] = o}})
    BY <1>2
  <2> HIDE DEF asked
  <2> QED  BY <1>1, <1>2, <1>3, <2>1, <2>2, ToldPrios
<1>7. ChanInv'
  <2>1. \A o \in Obj : Home[o] # p => cpl'[o] = cpl[o]
    BY <1>1, UnpackPhase1Couplings
  <2> QED  BY <1>1, <1>2, <1>3, <1>4, <2>1, LocalChan
<1>8. \A q \in Proc : \A r : Fresh(q, r)' => Fresh(q, r)
  BY <1>2, <1>3 DEF Fresh
<1>9. ASSUME NEW m \in net, NEW i \in m.items PROVE ItemRight(m, i)'
  <2>1. m.phase = "phase3" => i.proc \in Proc
    BY <1>1, ItemProcs
  <2> QED  BY <1>1, <1>2, <1>3, <1>8, <2>1 DEF ItemInv, ItemRight
<1> HIDE DEF asked
<1>10. ASSUME NEW m \in msgs, NEW i \in m.items PROVE ItemRight(m, i)'
  <2>1. m.phase = "phase2" /\ i \in AddCpl2(asked)
    BY <1>10, MsgsFromItems
  <2>2. PICK c \in asked : i \in {Item(q, gid[c[1]], c[2], c[3]) : q \in DOMAIN cpl[c[1]]}
    BY <2>1 DEF AddCpl2
  <2>3. i.gid = gid[c[1]] /\ i.proc = c[2] /\ i.prio = c[3]
    BY <2>2 DEF Item
  <2> QED  BY <1>2, <1>3, <1>5, <2>1, <2>3 DEF ItemRight
<1>11. ASSUME NEW i \in FirstAddCpl3(p, asked)
       PROVE  i \in Items /\ \A x \in Copy(i.proc, i.gid) : i.prio = prio[x]
  <2>1. CASE i \in OwnersFor(asked)
    <3>1. PICK c \in asked : i \in {Item(c[2], gid[c[1]], q, cpl[c[1]][q]) : q \in DOMAIN cpl[c[1]]}
      BY <2>1 DEF OwnersFor
    <3>2. PICK q \in DOMAIN cpl[c[1]] : i = Item(c[2], gid[c[1]], q, cpl[c[1]][q])
      BY <3>1
    <3>3. c[1] \in Obj /\ Home[c[1]] = p /\ gid[c[1]] \in Nat /\ c[2] \in Proc
      BY <1>5
    <3>4. q \in Proc /\ q # p
      BY <1>1, <3>3, CplDomain
    <3>5. cpl[c[1]][q] \in Prio /\ \A x \in Copy(q, gid[c[1]]) : cpl[c[1]][q] = prio[x]
      <4>1. ~Going(c[1], q)
        BY <1>3, <3>3 DEF Going
      <4> QED  BY <1>1, <1>4, <3>3, <3>4, <4>1 DEF KnownPrios, Known1
    <3> QED  BY <3>2, <3>3, <3>4, <3>5 DEF Item, Items
  <2>2. CASE i \in MyselfFor(p, asked)
    <3>1. PICK c \in asked : i = Item(c[2], gid[c[1]], p, prio[c[1]])
      BY <2>2 DEF MyselfFor
    <3>2. c[1] \in Obj /\ Home[c[1]] = p /\ gid[c[1]] \in Nat /\ gid[c[1]] # NoGid /\ c[2] \in Proc
      BY <1>5
    <3>3. \A x \in Copy(p, gid[c[1]]) : x = c[1]
      BY <1>1, <3>2 DEF Copy, Copies, OneCopy
    <3>4. prio[c[1]] \in Prio
      BY <1>1, <3>2 DEF KnownPrios
    <3> QED  BY <3>1, <3>2, <3>3, <3>4 DEF Item, Items
  <2> QED  BY <1>11, <2>1, <2>2 DEF FirstAddCpl3
<1>12. ASSUME NEW a \in Proc PROVE TaskRight(a)'
  <2>1. CASE a = p
    <3>1. addCpl3'[p] = FirstAddCpl3(p, asked)
      BY <1>1, <1>2 DEF NetInv
    <3> QED  BY <1>2, <1>3, <1>11, <2>1, <3>1 DEF TaskRight
  <2>2. CASE a # p
    BY <1>1, <1>2, <1>3, <2>2 DEF ItemInv, TaskRight
  <2> QED  BY <2>1, <2>2
<1>13. ItemInv'
  BY <1>2, <1>9, <1>10, <1>12 DEF ItemInv
<1> QED  BY <1>6, <1>7, <1>13

LEMMA UnpackPhase2Prios ==
  ASSUME ProtocolInv, ExchangeInv, PrioInv, NEW p \in Proc, UnpackPhase2(p)
  PROVE  KnownPrios' /\ ChanInv' /\ ItemInv'
<1>1. /\ StageInv /\ Barriers /\ DataInv /\ KnownInv /\ NetInv
      /\ KnownPrios /\ ChanInv /\ ItemInv /\ CplFunctions
  BY DEF ProtocolInv, PrioInv, DataInv, CplFunctions
<1> DEFINE told == Told(p, "phase2", Coupled(p, cpl))
           msgs == MsgsFrom(p, "phase3", addCpl3[p] \cup Forwards(p))
<1>2. /\ Step(p, "phase2", "phase3") /\ Connected(p, "phase2") /\ cpl' = Adding(told)
      /\ addCpl3' = [addCpl3 EXCEPT ![p] = @ \cup Forwards(p)]
      /\ net' = (net \ Received(p, "phase2")) \cup msgs
      /\ UNCHANGED <<gid, prio, chan, deleted>>
  BY DEF UnpackPhase2
<1>3. /\ program' = program /\ round' = round /\ env[p] = "phase2" /\ env'[p] = "phase3"
      /\ \A a \in Proc : a # p => env'[a] = env[a]
      /\ \A a \in Proc : env'[a] # "prioCmds" => env[a] # "prioCmds"
      /\ \A o \in Obj, q \in Proc : Going(o, q) => Going(o, q)'
      /\ \A q, g : Copy(q, g)' = Copy(q, g)
  BY <1>1, <1>2, JoinStepFacts DEF Joins3
<1>4. \A q \in Proc : q # p => chan[p][q] = <<>>
  BY <1>1, <1>2, <1>3, UnpackQuiet
<1>5. ASSUME NEW m \in net, m.phase = "phase2", NEW i \in m.items
      PROVE  i.proc \in Proc /\ i.prio \in Prio /\ \A x \in Copy(i.proc, i.gid) : i.prio = prio[x]
  BY <1>1, <1>5 DEF NetInv, Net2, ItemInv, ItemRight
<1>6. TellsRight(told, p)
  <2> SUFFICES ASSUME NEW t \in told
               PROVE  /\ Home[t[1]] = p /\ t[2] \in Proc /\ t[3] \in Prio
                      /\ \A x \in Copy(t[2], gid[t[1]]) : t[3] = prio[x]
    BY DEF TellsRight
  <2>1. t[1] \in Coupled(p, cpl)
    BY ToldItems
  <2>2. PICK m \in net : m.phase = "phase2" /\ m.to = p
                         /\ \E i \in m.items : i.gid = gid[t[1]] /\ i.proc = t[2] /\ i.prio = t[3]
    BY ToldItems
  <2>3. PICK i \in m.items : i.gid = gid[t[1]] /\ i.proc = t[2] /\ i.prio = t[3]
    BY <2>2
  <2> QED  BY <1>5, <2>1, <2>2, <2>3 DEF Coupled
<1> HIDE DEF told
<1>7. KnownPrios'
  <2>1. \A o \in Obj : cpl'[o] = WithCouplings(cpl[o], {<<t[2], t[3]>> : t \in {x \in told : x[1] = o}})
    BY <1>2 DEF Adding
  <2> QED  BY <1>1, <1>2, <1>3, <1>6, <2>1, ToldPrios
<1>8. ChanInv'
  <2>1. \A t \in told : Home[t[1]] = p
    BY <1>6 DEF TellsRight
  <2>2. \A o \in Obj : Home[o] # p => cpl'[o] = cpl[o]
    BY <1>1, <1>2, <2>1, AddingElsewhere
  <2> QED  BY <1>1, <1>2, <1>3, <1>4, <2>2, LocalChan
<1>9. \A q \in Proc : \A r : Fresh(q, r)' => Fresh(q, r)
  BY <1>2, <1>3 DEF Fresh
<1>10. ASSUME NEW m \in net, NEW i \in m.items PROVE ItemRight(m, i)'
  <2>1. m.phase = "phase3" => i.proc \in Proc
    BY <1>1, ItemProcs
  <2> QED  BY <1>1, <1>2, <1>3, <1>9, <2>1 DEF ItemInv, ItemRight
<1>11. ASSUME NEW i \in addCpl3[p] \cup Forwards(p)
       PROVE  i \in Items /\ \A x \in Copy(i.proc, i.gid) : i.prio = prio[x]
  <2>1. CASE i \in addCpl3[p]
    BY <1>1, <1>3, <2>1 DEF ItemInv, TaskRight
  <2>2. CASE i \in Forwards(p)
    <3>1. PICK c \in joinObjs[p], m \in Received(p, "phase2") :
            i \in {Item(c[2], k.gid, k.proc, k.prio) :
                     k \in {x \in m.items : x.gid = gid[c[1]] /\ FirstOfItsObject(x, m)}}
      BY <2>2 DEF Forwards
    <3>2. PICK k \in m.items : k.gid = gid[c[1]] /\ i = Item(c[2], k.gid, k.proc, k.prio)
      BY <3>1
    <3>3. m \in net /\ m.phase = "phase2"
      BY DEF Received
    <3>4. c[1] \in Obj /\ c[2] \in Proc
      BY <1>1, <1>3 DEF NetInv, Tasks, Told3
    <3>5. gid[c[1]] \in Nat
      BY <1>1, <3>4 DEF DataInv
    <3> QED  BY <1>5, <3>2, <3>3, <3>4, <3>5 DEF Item, Items
  <2> QED  BY <1>11, <2>1, <2>2
<1>12. ASSUME NEW m \in msgs, NEW i \in m.items PROVE ItemRight(m, i)'
  <2>1. m.phase = "phase3" /\ i \in addCpl3[p] \cup Forwards(p)
    BY <1>12, MsgsFromItems
  <2>2. i \in Items /\ \A x \in Copy(i.proc, i.gid) : i.prio = prio[x]
    BY <1>11, <2>1
  <2> QED  BY <1>2, <1>3, <2>1, <2>2 DEF ItemRight, Items
<1>13. ASSUME NEW a \in Proc PROVE TaskRight(a)'
  <2>1. CASE a = p
    <3>1. addCpl3'[p] = addCpl3[p] \cup Forwards(p)
      BY <1>1, <1>2 DEF NetInv
    <3> QED  BY <1>3, <1>11, <2>1, <3>1 DEF TaskRight
  <2>2. CASE a # p
    BY <1>1, <1>2, <1>3, <2>2 DEF ItemInv, TaskRight
  <2> QED  BY <2>1, <2>2
<1>14. ItemInv'
  BY <1>2, <1>10, <1>12, <1>13 DEF ItemInv
<1> QED  BY <1>7, <1>8, <1>14

LEMMA JoinEndReturnsPrios ==
  ASSUME ProtocolInv, ExchangeInv, PrioInv, NEW p \in Proc, JoinEndReturns(p)
  PROVE  KnownPrios' /\ ChanInv' /\ ItemInv'
<1>1. /\ StageInv /\ Barriers /\ DataInv /\ JoinTypeInv /\ KnownInv /\ NetInv
      /\ KnownPrios /\ ChanInv /\ ItemInv /\ CplFunctions
  BY DEF ProtocolInv, PrioInv, DataInv, CplFunctions
<1> DEFINE told == Told(p, "phase3", {j.obj : j \in joins[p]})
<1>2. /\ Step(p, "phase3", "idle") /\ Connected(p, "phase3") /\ cpl' = Adding(told)
      /\ addCpl3' = [addCpl3 EXCEPT ![p] = {}] /\ net' = net \ Received(p, "phase3")
      /\ UNCHANGED <<gid, prio, chan, deleted>>
  BY DEF JoinEndReturns
<1>3. /\ program' = program /\ round' = round /\ env[p] = "phase3" /\ env'[p] = "idle"
      /\ \A a \in Proc : a # p => env'[a] = env[a]
      /\ \A a \in Proc : env'[a] # "prioCmds" => env[a] # "prioCmds"
      /\ \A o \in Obj, q \in Proc : Going(o, q) => Going(o, q)'
      /\ \A q, g : Copy(q, g)' = Copy(q, g)
  BY <1>1, <1>2, JoinStepFacts DEF Joins3
<1>4. ASSUME NEW q \in Proc, q # p PROVE chan[p][q] = <<>>
  <2>1. /\ round[q] >= round[p]
        /\ round[q] = round[p] => env[q] \in Joins3 \cup {"idle"}
    BY <1>1, <1>2, <1>3, ConnectedStages DEF Joins3
  <2>2. round[p] \in Nat /\ round[q] \in Nat
    BY <1>1 DEF StageInv
  <2>3. Sent(p) = round[p] /\ Taken(q) >= round[p]
    BY <1>3, <2>1, <2>2 DEF Sent, Taken, Joins3, PrioEnvs
  <2> QED  BY <1>1, <1>4, <2>3, QuietChan
<1>5. TellsRight(told, p)
  <2> SUFFICES ASSUME NEW t \in told
               PROVE  /\ Home[t[1]] = p /\ t[2] \in Proc /\ t[3] \in Prio
                      /\ \A x \in Copy(t[2], gid[t[1]]) : Fresh(t[2], p) => t[3] = prio[x]
    BY DEF TellsRight
  <2>1. t[1] \in {j.obj : j \in joins[p]}
    BY ToldItems
  <2>2. PICK m \in net : m.phase = "phase3" /\ m.to = p
                         /\ \E i \in m.items : i.gid = gid[t[1]] /\ i.proc = t[2] /\ i.prio = t[3]
    BY ToldItems
  <2>3. PICK i \in m.items : i.gid = gid[t[1]] /\ i.proc = t[2] /\ i.prio = t[3]
    BY <2>2
  <2>4. i.proc \in Proc /\ ItemRight(m, i)
    BY <1>1, <2>2 DEF NetInv, Net3, ItemInv
  <2>5. Home[t[1]] = p
    BY <1>1, <2>1 DEF JoinTypeInv
  <2> QED  BY <2>2, <2>3, <2>4, <2>5 DEF ItemRight
<1> HIDE DEF told
<1>6. KnownPrios'
  <2>1. \A o \in Obj : cpl'[o] = WithCouplings(cpl[o], {<<t[2], t[3]>> : t \in {x \in told : x[1] = o}})
    BY <1>2 DEF Adding
  <2> QED  BY <1>1, <1>2, <1>3, <1>5, <2>1, ToldPrios
<1>7. ChanInv'
  <2>1. \A t \in told : Home[t[1]] = p
    BY <1>5 DEF TellsRight
  <2>2. \A o \in Obj : Home[o] # p => cpl'[o] = cpl[o]
    BY <1>1, <1>2, <2>1, AddingElsewhere
  <2> QED  BY <1>1, <1>2, <1>3, <1>4, <2>2, LocalChan
<1>8. \A q \in Proc : \A r : Fresh(q, r)' => Fresh(q, r)
  BY <1>2, <1>3 DEF Fresh
<1>9. ASSUME NEW m \in net, NEW i \in m.items PROVE ItemRight(m, i)'
  <2>1. m.phase = "phase3" => i.proc \in Proc
    BY <1>1, ItemProcs
  <2> QED  BY <1>1, <1>2, <1>3, <1>8, <2>1 DEF ItemInv, ItemRight
<1>10. ASSUME NEW a \in Proc PROVE TaskRight(a)'
  <2>1. addCpl3'[a] = IF a = p THEN {} ELSE addCpl3[a]
    BY <1>1, <1>2 DEF NetInv
  <2> QED  BY <1>1, <1>2, <1>3, <2>1 DEF ItemInv, TaskRight
<1>11. ItemInv'
  BY <1>2, <1>9, <1>10 DEF ItemInv
<1> QED  BY <1>6, <1>7, <1>11

(* A change of priority is known to nobody yet; but its owner is not Fresh. *)
LEMMA PrioChangePrios ==
  ASSUME ProtocolInv, PrioInv, NEW o1 \in Changing, NEW r \in Prio, PrioChange(o1, r), UNCHANGED joinVars
  PROVE  KnownPrios' /\ ChanInv' /\ ItemInv'
<1>1. /\ StageInv /\ Barriers /\ DataInv /\ JoinTypeInv /\ KnownInv /\ NetInv
      /\ KnownPrios /\ ChanInv /\ ItemInv
  BY DEF ProtocolInv, PrioInv
<1> DEFINE p == Home[o1]
<1>2. /\ o1 \in Obj /\ p \in Proc /\ env[p] = "prioCmds" /\ prio' = [prio EXCEPT ![o1] = r]
      /\ UNCHANGED <<gid, cpl, chan, program, round, env, net, addCpl3, deleted>>
  BY PrioAssumption, InterfacesAssumption DEF PrioChange, envVars, joinVars
<1>3. prio' \in [Obj -> Prio] /\ \A x \in Obj : Home[x] # p => prio'[x] = prio[x]
  BY <1>1, <1>2 DEF KnownPrios
<1>4. \A q, g : /\ Copy(q, g)' = Copy(q, g)
                /\ q # p => \A x \in Copy(q, g) : prio'[x] = prio[x]
  BY <1>2, <1>3 DEF Copy, Copies
<1>5. \A q, a : Fresh(q, a)' => Fresh(q, a) /\ q # p
  BY <1>2 DEF Fresh
<1>6. KnownPrios'
  <2>1. ASSUME NEW o \in Obj, NEW q \in DOMAIN cpl[o] PROVE Known1(o, q)'
    <3>1. Known1(o, q)
      BY <1>1 DEF KnownPrios
    <3>2. Going(o, q)' <=> Going(o, q)
      BY <1>2 DEF Going, Deletes, Passed
    <3> QED  BY <1>2, <1>4, <1>5, <3>1, <3>2 DEF Known1
  <2> QED  BY <1>2, <1>3, <2>1 DEF KnownPrios
<1>7. ChanInv'
  <2>1. ASSUME NEW a \in Proc, NEW q \in Proc, a # q PROVE ChanAt(a, q)'
    <3>1. SharedList(a, q)' = SharedList(a, q)
      BY <1>2, KeptShared
    <3>2. ChanAt(a, q)
      BY <1>1, <2>1 DEF ChanInv
    <3>3. CASE a = p
      BY <1>2, <3>1, <3>2, <3>3 DEF ChanAt
    <3>4. CASE a # p
      <4> DEFINE S == Common(a, q, cpl)
      <4>1. \A x \in S : prio'[x] = prio[x] /\ S \in SUBSET Coupled(a, cpl)
        BY <1>3, <3>4 DEF Common, Coupled
      <4>2. \A i \in DOMAIN SharedList(a, q) : SharedList(a, q)[i] \in S
        <5>1. Sortable(S)
          BY <1>1, CommonSortable DEF Common, ProtocolInv
        <5>2. SortedList(S, IFSorted(S))
          BY <5>1, IFSortedIs
        <5> QED  BY <5>2 DEF SortedList, SharedList
      <4> QED  BY <1>2, <3>1, <3>2, <4>1, <4>2 DEF ChanAt
    <3> QED  BY <3>3, <3>4
  <2> QED  BY <2>1 DEF ChanInv
<1>8. ItemInv'
  (* While the first two kinds of messages are on their way, everybody they   *)
  (* are about is in JoinEnd.                                                 *)
  <2>1. \A q \in Proc : joins[q] # {} => q # p
    BY <1>1, <1>2 DEF JoinTypeInv, JoinEnvs, Joins3
  <2>2. ASSUME NEW m \in net, NEW i \in m.items PROVE ItemRight(m, i)'
    <3>1. m.phase = "phase1" => m.from # p
      BY <1>1, <1>2 DEF NetInv, Net1
    <3>2. m.phase = "phase2" => i.proc # p
      BY <1>1, <2>1 DEF NetInv, Net2, JoinsAt
    <3>3. ItemRight(m, i)
      BY <1>1 DEF ItemInv
    <3> QED  BY <1>2, <1>4, <1>5, <3>1, <3>2, <3>3 DEF ItemRight
  <2>3. ASSUME NEW a \in Proc PROVE TaskRight(a)'
    <3>1. TaskRight(a)
      BY <1>1 DEF ItemInv
    <3>2. ASSUME env[a] = "phase2", NEW i \in addCpl3[a] PROVE i.proc # p
      <4>1. PICK q \in Proc : joins[q] # {}
        <5>1. i.dest \in Proc /\ JoinsAt(i.dest, a, i.gid)
          BY <1>1, <3>2 DEF NetInv, Tasks, Told3
        <5> QED  BY <5>1 DEF JoinsAt
      <4>2. round[a] \in 1 .. Len(program) /\ program[round[a]] = "join"
        BY <1>1, <3>2 DEF StageInv, JoinEnvs, Joins3
      <4>3. Barrier(a, p) /\ Barrier(p, a) /\ round[p] \in Nat
        BY <1>1, <1>2 DEF Barriers, StageInv
      <4>4. ~Passed(p, round[a])
        BY <3>2, <4>2, <4>3 DEF Barrier
      <4>5. round[p] = round[a] /\ env[p] \in Joins3
        BY <3>2, <4>2, <4>3, <4>4 DEF Barrier, Passed
      <4> QED  BY <1>2, <4>5 DEF Joins3
    <3> QED  BY <1>2, <1>4, <3>1, <3>2 DEF TaskRight
  <2> QED  BY <1>2, <2>2, <2>3 DEF ItemInv
<1> QED  BY <1>6, <1>7, <1>8

(* The lists in the exchange. *)
LEMMA ExchangeStd ==
  ASSUME ListsInv, ExchangeInv, ProtocolInv, NEW p \in Proc, env[p] \in PrioEnvs
  PROVE  /\ DOMAIN std[p] = Neighbours(p, cpl)
         /\ DOMAIN std[p] = {q \in Proc : q # p /\ Share(p, q)}
         /\ \A q \in DOMAIN std[p] : std[p][q] = SharedList(p, q)
         /\ \A q : SortedList(Common(p, q, cpl), SharedList(p, q))
<1>1. std[p] = IFCollectStdCouplings(p, cpl)
  BY DEF ListsInv, ListsAt, StdValid, PrioEnvs
<1>2. \A q : Sortable(Common(p, q, cpl))
  BY CommonSortable DEF Common, ProtocolInv
<1>3. \A q : SortedList(Common(p, q, cpl), SharedList(p, q))
  BY <1>2, IFSortedIs DEF SharedList
<1> QED  BY <1>1, <1>3, NeighboursAre DEF IFCollectStdCouplings, SharedList, Common

(* p sends its priorities to all who share an object with it. *)
LEMMA PrioEndPrios ==
  ASSUME ProtocolInv, ExchangeInv, PrioInv, NEW p \in Proc, PrioEnd(p), UNCHANGED joinVars
  PROVE  KnownPrios' /\ ChanInv' /\ ItemInv'
<1>1. /\ StageInv /\ Barriers /\ DataInv /\ JoinTypeInv /\ KnownInv /\ NetInv
      /\ ListsInv /\ KnownPrios /\ ChanInv /\ ItemInv
  BY DEF ProtocolInv, PrioInv
<1> DEFINE msg(q) == [i \in DOMAIN std[p][q] |-> prio[std[p][q][i]]]
<1>2. /\ Step(p, "prioCmds", "prioExchange") /\ UNCHANGED <<gid, prio, cpl, net, addCpl3, deleted>>
      /\ chan' = [chan EXCEPT ![p] = [q \in Proc |->
                    IF q \in DOMAIN std[p] THEN Append(chan[p][q], msg(q)) ELSE chan[p][q]]]
  BY DEF PrioEnd, joinVars
<1>3. /\ program' = program /\ round' = round /\ env[p] = "prioCmds" /\ env'[p] = "prioExchange"
      /\ \A a \in Proc : a # p => env'[a] = env[a]
  BY <1>1, <1>2, SamePhase
<1>4. /\ DOMAIN std[p] = {q \in Proc : q # p /\ Share(p, q)}
      /\ \A q \in DOMAIN std[p] : std[p][q] = SharedList(p, q)
      /\ \A q : SortedList(Common(p, q, cpl), SharedList(p, q))
  BY <1>1, <1>3, ExchangeStd DEF PrioEnvs
<1> HIDE DEF msg
<1>5. PICK S : chan \in [Proc -> [Proc -> Seq(S)]]
  BY DEF ExchangeInv, SeqInv
<1>6. /\ \A q \in Proc : chan'[p][q] = IF q \in DOMAIN std[p] THEN Append(chan[p][q], msg(q)) ELSE chan[p][q]
      /\ \A a, q \in Proc : a # p => chan'[a][q] = chan[a][q]
      /\ \A a, q \in Proc : chan[a][q] \in Seq(S)
  BY <1>2, <1>5
<1>7. \A q \in Proc : \A g : Copy(q, g)' = Copy(q, g)
  BY <1>2 DEF Copy, Copies
<1>8. \A q, a \in Proc : Fresh(q, a)' => Fresh(q, a) \/ (q = p /\ a \notin DOMAIN std[p])
  <2> SUFFICES ASSUME NEW q \in Proc, NEW a \in Proc, Fresh(q, a)'
               PROVE  Fresh(q, a) \/ (q = p /\ a \notin DOMAIN std[p])
    OBVIOUS
  <2>1. CASE q = p
    <3>1. chan'[p][a] = <<>>
      BY <2>1 DEF Fresh
    <3>2. \A s \in Seq(S) : \A m : Append(s, m) # <<>>
      OBVIOUS
    <3> QED  BY <1>6, <2>1, <3>1, <3>2
  <2>2. CASE q # p
    BY <1>3, <1>6, <2>2 DEF Fresh
  <2> QED  BY <2>1, <2>2
<1>9. \A o \in Obj, q \in Proc : Going(o, q)' <=> Going(o, q)
  <2>1. \A q \in Proc : env'[q] = "idle" <=> env[q] = "idle"
    BY <1>3
  <2>2. \A q \in Proc : env'[q] = "xfer" <=> env[q] = "xfer"
    BY <1>3
  <2> QED  BY <1>2, <1>3, <2>1, <2>2, InterfacesAssumption DEF Going, Deletes, Passed
<1>10. KnownPrios'
  <2>1. ASSUME NEW o \in Obj, NEW q \in DOMAIN cpl[o] PROVE Known1(o, q)'
    <3>1. q \in Proc /\ Knows(o, q) /\ gid[o] # NoGid /\ Home[o] \in Proc /\ q # Home[o]
      BY <1>1, CplDomain
    <3>2. Known1(o, q)
      BY <1>1 DEF KnownPrios
    <3>3. ASSUME NEW x \in Copy(q, gid[o]), ~Going(o, q), q = p PROVE Home[o] \in DOMAIN std[p]
      <4>1. ~Going(x, Home[o])
        BY <1>3, <3>3 DEF Going, Copy, Copies
      <4>2. Share(p, Home[o])
        BY <3>1, <3>3, <4>1 DEF Share, Copy, Copies
      <4> QED  BY <1>4, <3>1, <3>3, <4>2
    <3> QED  BY <1>2, <1>7, <1>8, <1>9, <3>1, <3>2, <3>3 DEF Known1
  <2> QED  BY <1>1, <1>2, <2>1 DEF KnownPrios
<1>11. ChanInv'
  <2>1. ASSUME NEW a \in Proc, NEW q \in Proc, a # q PROVE ChanAt(a, q)'
    <3>1. SharedList(a, q)' = SharedList(a, q)
      BY <1>2, KeptShared
    <3>2. ChanAt(a, q)
      BY <1>1, <2>1 DEF ChanInv
    <3>3. CASE a # p
      BY <1>2, <1>3, <1>6, <3>1, <3>2, <3>3 DEF ChanAt
    <3>4. CASE a = p /\ q \notin DOMAIN std[p]
      <4>1. ~Share(q, p)
        BY <1>4, <2>1, <3>4, ShareSymmetric
      <4>2. Len(chan[p][q]) = 0
        BY <2>1, <3>4, <4>1 DEF ExchangeInv, CountInv
      <4>3. Len(chan'[p][q]) = 0
        BY <1>6, <3>4, <4>2
      <4> QED  BY <3>4, <4>3 DEF ChanAt
    <3>5. CASE a = p /\ q \in DOMAIN std[p]
      <4> DEFINE list == SharedList(p, q)
                 s == chan[p][q]
      <4>1. chan'[p][q] = Append(s, msg(q)) /\ s \in Seq(S)
        BY <1>6, <3>5
      <4>2. /\ Len(chan'[p][q]) = Len(s) + 1 /\ chan'[p][q][Len(s) + 1] = msg(q) /\ Len(s) \in Nat
            /\ \A n \in 1 .. Len(s) : chan'[p][q][n] = s[n]
        BY <4>1
      <4>3. msg(q) = [i \in DOMAIN list |-> prio[list[i]]]
        BY <1>4, <3>5 DEF msg
      <4>4. \A i \in DOMAIN list : prio[list[i]] \in Prio
        <5>1. \A i \in DOMAIN list : list[i] \in Common(p, q, cpl)
          BY <1>4 DEF SortedList
        <5> QED  BY <1>1, <5>1 DEF KnownPrios, Common, Coupled
      <4>5. msg(q) \in [DOMAIN list -> Prio] /\ \A i \in DOMAIN list : msg(q)[i] = prio[list[i]]
        BY <4>3, <4>4
      <4>6. \A n \in 1 .. Len(s) : s[n] \in [DOMAIN list -> Prio]
        BY <3>2, <3>5 DEF ChanAt
      <4> HIDE DEF list, s
      <4>7. ASSUME NEW n \in 1 .. Len(s) + 1
            PROVE  /\ chan'[p][q][n] \in [DOMAIN list -> Prio]
                   /\ n = Len(s) + 1 => \A i \in DOMAIN list : chan'[p][q][n][i] = prio[list[i]]
        <5>1. CASE n = Len(s) + 1
          BY <4>2, <4>5, <5>1
        <5>2. CASE n # Len(s) + 1
          <6>1. n \in 1 .. Len(s)
            BY <4>2, <5>2
          <6> QED  BY <4>2, <4>6, <5>2, <6>1
        <5> QED  BY <5>1, <5>2
      <4> QED  BY <1>2, <3>1, <3>5, <4>2, <4>7 DEF ChanAt, list
    <3> QED  BY <3>3, <3>4, <3>5
  <2> QED  BY <2>1 DEF ChanInv
<1>12. ItemInv'
  <2>1. ASSUME NEW m \in net, NEW i \in m.items PROVE ItemRight(m, i)'
    <3>1. ItemRight(m, i)
      BY <1>1 DEF ItemInv
    <3>2. m.from \in Proc /\ m.to \in Proc
      BY <1>1 DEF NetInv
    (* The sender tells the joining processor itself. *)
    <3>3. ASSUME m.phase = "phase3", NEW x \in Copy(i.proc, i.gid), i.proc = p PROVE m.to \in DOMAIN std[p]
      <4>1. env[m.to] \in {"phase2", "phase3"} /\ JoinsAt(m.to, m.from, i.gid) /\ p # m.to
        BY <1>1, <3>3 DEF NetInv, Net3
      <4>2. PICK j \in joins[m.to] : j.gid = i.gid
        BY <4>1 DEF JoinsAt
      <4>3. j.obj \in Obj /\ Home[j.obj] = m.to /\ gid[j.obj] = i.gid
        BY <1>1, <3>2, <4>1, <4>2, JoinAssumption DEF JoinTypeInv
      <4>4. x \in Obj /\ Home[x] = p /\ gid[x] = i.gid /\ gid[x] # NoGid
        BY <3>3 DEF Copy, Copies
      <4>5. ~Going(x, m.to) /\ ~Going(j.obj, p)
        BY <1>3, <4>1, <4>3, <4>4 DEF Going
      <4>6. Share(p, m.to)
        BY <4>3, <4>4, <4>5 DEF Share
      <4> QED  BY <1>4, <3>2, <4>1, <4>6
    <3>4. m.phase = "phase3" => i.proc \in Proc
      BY <1>1, ItemProcs
    <3>5. \A q, g : Copy(q, g)' = Copy(q, g)
      BY <1>2 DEF Copy, Copies
    <3>6. ASSUME m.phase = "phase3", NEW x \in Copy(i.proc, i.gid), Fresh(i.proc, m.to)' PROVE i.prio = prio[x]
      BY <1>8, <3>1, <3>2, <3>3, <3>4, <3>6 DEF ItemRight
    <3> QED  BY <1>2, <3>1, <3>5, <3>6 DEF ItemRight
  <2>2. ASSUME NEW a \in Proc PROVE TaskRight(a)'
    <3>1. \A q, g : Copy(q, g)' = Copy(q, g)
      BY <1>2 DEF Copy, Copies
    <3>2. env'[a] = "phase2" => env[a] = "phase2"
      BY <1>3
    <3> QED  BY <1>1, <1>2, <3>1, <3>2 DEF ItemInv, TaskRight
  <2> QED  BY <1>2, <2>1, <2>2 DEF ItemInv
<1> QED  BY <1>10, <1>11, <1>12

(* p, in the exchange, and q, which is as far, agree on what they share. *)
LEMMA SharedAlike ==
  ASSUME ProtocolInv, OriginInv, NEW p \in Proc, NEW q \in Proc, p # q, env[p] \in PrioEnvs, round[q] >= round[p]
  PROVE  Alike(Common(p, q, cpl), Common(q, p, cpl))
<1> USE DEF PrioEnvs, Joins3, JoinEnvs
<1>1. StageInv /\ Barriers /\ DataInv /\ JoinTypeInv /\ KnownInv
  BY DEF ProtocolInv
<1>2. round[p] \in Nat /\ round[q] \in Nat /\ program[round[p]] = "prio" /\ (env[q] = "xfer" => program[round[q]] = "xfer")
  BY <1>1 DEF StageInv
<1>3. \A x \in Obj : Home[x] = q => ~Joiner(x)
  <2> SUFFICES ASSUME NEW x \in Obj, Home[x] = q, Joiner(x) PROVE FALSE
    OBVIOUS
  <2>1. joins[q] # {} /\ env[q] \in Joins3
    BY DEF Joiner
  <2>2. round[p] >= round[q] /\ program[round[q]] = "join"
    BY <1>1, <2>1, JoinersStages DEF StageInv
  <2> QED  BY <1>2, <2>2
<1>4. \A o \in Obj : Home[o] = p => ~Joiner(o) /\ ~Going(o, q)
  BY DEF Joiner, Going
<1>5. \A x \in Obj : Home[x] = q => ~Going(x, p)
  BY <1>2 DEF Going, Passed
<1>6. ASSUME NEW o \in Common(p, q, cpl) PROVE \E x \in Common(q, p, cpl) : gid[x] = gid[o]
  <2>1. o \in Obj /\ Home[o] = p /\ q \in DOMAIN cpl[o]
    BY DEF Common, Coupled
  <2>2. Knows(o, q) /\ gid[o] # NoGid
    BY <1>1, <2>1, CplDomain
  <2>3. PICK x \in Copy(q, gid[o]) : TRUE
    BY <2>1, <2>2 DEF Knows
  <2>4. x \in Obj /\ Home[x] = q /\ gid[x] = gid[o]
    BY DEF Copy, Copies
  <2>5. Knows(x, p)
    BY <1>3, <1>4, <2>1, <2>2, <2>4 DEF Knows, Introduced, Copy, Copies
  <2>6. p \in DOMAIN cpl[x]
    BY <1>1, <2>2, <2>4, <2>5 DEF KnownInv
  <2>7. cpl[x] # NoCouplings
    BY <2>6 DEF NoCouplings
  <2> QED  BY <2>4, <2>6, <2>7 DEF Common, Coupled
<1>7. ASSUME NEW x \in Common(q, p, cpl) PROVE \E o \in Common(p, q, cpl) : gid[o] = gid[x]
  <2>1. x \in Obj /\ Home[x] = q /\ p \in DOMAIN cpl[x]
    BY DEF Common, Coupled
  <2>2. Knows(x, p) /\ gid[x] # NoGid
    BY <1>1, <2>1, CplDomain
  <2>3. ~(env[q] = "xfer" /\ Deletes(p, q, x))
    <3> SUFFICES ASSUME env[q] = "xfer", Deletes(p, q, x) PROVE FALSE
      OBVIOUS
    <3>1. <<round[q], gid[x]>> \in deleted[p]
      BY DEF Deletes
    <3>2. round[q] \in 1 .. round[p]
      BY <1>1, <3>1 DEF DataInv
    <3> QED  BY <1>2, <3>2
  <2>4. PICK o \in Copy(p, gid[x]) : TRUE
    BY <2>1, <2>2, <2>3 DEF Knows
  <2>5. o \in Obj /\ Home[o] = p /\ gid[o] = gid[x]
    BY DEF Copy, Copies
  <2>6. Knows(o, q)
    BY <1>3, <1>4, <1>5, <2>1, <2>2, <2>5 DEF Knows, Introduced, Copy, Copies
  <2>7. q \in DOMAIN cpl[o]
    BY <1>1, <2>2, <2>5, <2>6 DEF KnownInv
  <2>8. cpl[o] # NoCouplings
    BY <2>7 DEF NoCouplings
  <2> QED  BY <2>5, <2>7, <2>8 DEF Common, Coupled
<1>8. \A o \in Common(p, q, cpl), x \in Common(q, p, cpl) : gid[o] = gid[x] => Attr[o] = Attr[x]
  <2>1. \A o \in Common(p, q, cpl) : o \in Obj /\ gid[o] # NoGid
    BY <1>1 DEF Common, Coupled, DataInv
  <2>2. \A x \in Common(q, p, cpl) : x \in Obj
    BY DEF Common, Coupled
  <2> QED  BY <2>1, <2>2, SameAttr
<1> QED  BY <1>6, <1>7, <1>8 DEF Alike

(* A message on its way to p, and the lists of both sides. *)
LEMMA MessageMatches ==
  ASSUME ProtocolInv, ExchangeInv, PrioInv, NEW p \in Proc, NEW q \in Proc, p # q,
         env[p] \in PrioEnvs, chan[q][p] # <<>>
  PROVE  /\ Len(chan[q][p]) >= 1 /\ Len(chan[q][p]) \in Nat
         /\ DOMAIN SharedList(p, q) = DOMAIN SharedList(q, p)
         /\ \A i \in DOMAIN SharedList(p, q) : gid[SharedList(p, q)[i]] = gid[SharedList(q, p)[i]]
         /\ GidsOf(SharedList(p, q)) = GidsOf(SharedList(q, p))
         /\ round[q] >= round[p]
<1>1. StageInv /\ DataInv /\ OneCopy /\ OriginInv
  BY DEF ProtocolInv, PrioInv
<1>2. PICK S : chan \in [Proc -> [Proc -> Seq(S)]]
  BY DEF ExchangeInv, SeqInv
<1>3. chan[q][p] \in Seq(S)
  BY <1>2
<1>4. Len(chan[q][p]) \in Nat /\ Len(chan[q][p]) >= 1
  BY <1>3
<1>5. Due(q, p) # {}
  <2>1. Len(chan[q][p]) = IF Share(p, q) THEN Cardinality(Due(q, p)) ELSE 0
    BY DEF ExchangeInv, CountInv
  <2>2. Due(q, p) = {} => Cardinality(Due(q, p)) = 0
    BY FS_EmptySet
  <2> QED  BY <1>4, <2>1, <2>2
<1>6. round[q] >= round[p]
  <2>1. PICK k \in Taken(p) + 1 .. Sent(q) : TRUE
    BY <1>5 DEF Due
  <2>2. round[p] \in Nat /\ round[q] \in Nat /\ Taken(p) = round[p] - 1 /\ Sent(q) <= round[q] /\ Sent(q) \in Nat
    BY <1>1, Counts DEF Taken, Sent
  <2> QED  BY <2>1, <2>2
<1>7. Sortable(Common(p, q, cpl)) /\ Sortable(Common(q, p, cpl))
  BY <1>1, CommonSortable DEF Common
<1>8. Alike(Common(p, q, cpl), Common(q, p, cpl))
  BY <1>1, <1>6, SharedAlike
<1> QED  BY <1>4, <1>6, <1>7, <1>8, ListsMatch DEF SharedList

(* What the messages of the neighbours tell. *)
LEMMA PrioEndReturnsPrios ==
  ASSUME ProtocolInv, ExchangeInv, PrioInv, NEW p \in Proc, PrioEndReturns(p), UNCHANGED joinVars
  PROVE  KnownPrios' /\ ChanInv' /\ ItemInv'
<1>1. /\ StageInv /\ DataInv /\ OneCopy /\ KnownInv /\ NetInv
      /\ ListsInv /\ KnownPrios /\ ChanInv /\ ItemInv /\ CplFunctions
  BY DEF ProtocolInv, PrioInv, DataInv, CplFunctions
<1>2. /\ Step(p, "prioExchange", "idle") /\ UNCHANGED <<gid, prio, net, addCpl3, deleted>>
      /\ \A q \in DOMAIN std[p] : chan[q][p] # <<>>
      /\ cpl' = ScatterPrio(p)
      /\ chan' = [q \in Proc |-> IF q \in DOMAIN std[p] THEN [chan[q] EXCEPT ![p] = Tail(@)] ELSE chan[q]]
  BY DEF PrioEndReturns, joinVars
<1>3. /\ program' = program /\ round' = round /\ env[p] = "prioExchange" /\ env'[p] = "idle"
      /\ \A a \in Proc : a # p => env'[a] = env[a]
  BY <1>1, <1>2, SamePhase
<1>4. /\ DOMAIN std[p] = Neighbours(p, cpl)
      /\ DOMAIN std[p] = {q \in Proc : q # p /\ Share(p, q)}
      /\ \A q \in DOMAIN std[p] : std[p][q] = SharedList(p, q)
      /\ \A q : SortedList(Common(p, q, cpl), SharedList(p, q))
  BY <1>1, <1>3, ExchangeStd DEF PrioEnvs
<1>5. PICK S : chan \in [Proc -> [Proc -> Seq(S)]]
  BY DEF ExchangeInv, SeqInv
<1>6. /\ \A a, q \in Proc : chan'[a][q] = IF q = p /\ a \in DOMAIN std[p] THEN Tail(chan[a][p]) ELSE chan[a][q]
      /\ \A a, q \in Proc : chan[a][q] \in Seq(S)
  BY <1>2, <1>5
<1>7. \A q, g : Copy(q, g)' = Copy(q, g)
  BY <1>2 DEF Copy, Copies
<1>8. \A q \in DOMAIN std[p] :
        /\ q \in Proc /\ q # p /\ Len(chan[q][p]) >= 1 /\ Len(chan[q][p]) \in Nat
        /\ DOMAIN SharedList(p, q) = DOMAIN SharedList(q, p)
        /\ \A i \in DOMAIN SharedList(p, q) : gid[SharedList(p, q)[i]] = gid[SharedList(q, p)[i]]
  BY <1>2, <1>3, <1>4, MessageMatches DEF PrioEnvs
<1>9. \A q \in DOMAIN std[p] : \A s \in Seq(S) : Len(s) >= 1 =>
        /\ Len(Tail(s)) = Len(s) - 1 /\ Head(s) = s[1]
        /\ \A n \in 1 .. Len(s) - 1 : Tail(s)[n] = s[n + 1]
  OBVIOUS
<1>10. ASSUME NEW o \in Obj, NEW q \in Proc, Home[o] # p \/ env[p] # "xfer", Going(o, q) PROVE Going(o, q)'
  <2>1. Home[o] \in Proc /\ Home[o] # p
    BY <1>3, <1>10, InterfacesAssumption DEF Going
  <2>2. Passed(q, round[Home[o]])'
    <3>1. Passed(q, round[Home[o]]) /\ (env[q] = "idle" => env'[q] = "idle")
      BY <1>3, <1>10 DEF Going
    <3> QED  BY <1>3, <3>1 DEF Passed
  <2> QED  BY <1>2, <1>3, <1>10, <2>1, <2>2 DEF Going, Deletes
(* The priority of an item is that of the object on the other side, as soon  *)
(* as there is no further message.                                           *)
<1>11. ASSUME NEW o \in Obj, Home[o] = p, NEW q \in DOMAIN cpl[o] PROVE Known1(o, q)'
  <2>1. q \in Proc /\ q # p /\ gid[o] # NoGid /\ cpl[o] # NoCouplings
    BY <1>1, <1>11, CplDomain
  <2>2. o \in Common(p, q, cpl) /\ q \in DOMAIN std[p]
    BY <1>4, <1>11, <2>1 DEF Common, Coupled, Neighbours
  <2> DEFINE list == SharedList(p, q)
             other == SharedList(q, p)
             i == Position(list, o)
             s == chan[q][p]
  <2>3. i \in DOMAIN list /\ list[i] = o /\ o \in ToSet(list)
    <3>1. DOMAIN list = 1 .. Cardinality(Common(p, q, cpl)) /\ \E k \in 1 .. Cardinality(Common(p, q, cpl)) : list[k] = o
      BY <1>4, <2>2 DEF SortedList
    <3> HIDE DEF list
    <3> QED  BY <3>1 DEF Position, ToSet
  <2>4. std[p][q] = list
    BY <1>4, <2>2
  <2>5. s \in Seq(S) /\ Len(s) >= 1 /\ Len(s) \in Nat
    BY <1>6, <1>8, <2>1, <2>2
  <2>6. /\ s[1] \in [DOMAIN other -> Prio]
        /\ 1 = Len(s) /\ env[q] # "prioCmds" => \A k \in DOMAIN other : s[1][k] = prio[other[k]]
    BY <1>1, <2>1, <2>5 DEF ChanInv, ChanAt
  <2>7. i \in DOMAIN other /\ gid[other[i]] = gid[o]
    BY <1>8, <2>2, <2>3
  <2>8. cpl'[o][q] = s[1][i]
    <3>1. cpl'[o] = [x \in DOMAIN cpl[o] |-> IF x \in DOMAIN std[p] /\ o \in ToSet(std[p][x])
                                             THEN Zeros(Head(chan[x][p]), Position(std[p][x], o)) ELSE cpl[o][x]]
      BY <1>2, <1>11 DEF ScatterPrio
    <3>2. cpl'[o][q] = Zeros(Head(s), Position(std[p][q], o))
      BY <2>2, <2>3, <2>4, <3>1
    <3>3. Head(s) = s[1] /\ i \in DOMAIN s[1]
      BY <2>5, <2>6, <2>7
    <3> QED  BY <2>4, <3>2, <3>3 DEF Zeros
  <2>9. cpl'[o][q] \in Prio
    BY <2>6, <2>7, <2>8
  <2>10. other[i] \in Obj /\ Home[other[i]] = q
    <3>1. SortedList(Common(q, p, cpl), other)
      BY <1>1, CommonSortable, IFSortedIs DEF Common, SharedList
    <3>2. other[i] \in Common(q, p, cpl)
      BY <2>7, <3>1 DEF SortedList
    <3> QED  BY <3>2 DEF Common, Coupled
  <2>11. ASSUME NEW x \in Copy(q, gid[o]), Fresh(q, p)' PROVE cpl'[o][q] = prio[x]
    <3>1. Tail(s) = <<>> /\ env[q] # "prioCmds"
      BY <1>3, <1>6, <2>1, <2>2, <2>11 DEF Fresh
    <3>2. Len(s) = 1
      <4>1. Len(Tail(s)) = Len(s) - 1
        BY <1>9, <2>2, <2>5
      <4>2. Len(Tail(s)) = 0
        <5>1. Len(<< >>) = 0
          OBVIOUS
        <5> QED  BY <3>1, <5>1
      <4> HIDE DEF s
      <4> QED  BY <2>5, <4>1, <4>2
    <3>3. x = other[i]
      BY <1>1, <2>7, <2>10 DEF Copy, Copies, OneCopy
    <3> QED  BY <2>6, <2>7, <2>8, <3>1, <3>2, <3>3
  <2> QED  BY <1>2, <1>7, <1>11, <2>9, <2>11 DEF Known1
<1>12. ASSUME NEW o \in Obj, Home[o] # p, NEW q \in DOMAIN cpl[o] PROVE Known1(o, q)'
  <2>1. q \in Proc /\ Home[o] \in Proc
    BY <1>1, CplDomain
  <2>2. cpl'[o] = cpl[o]
    BY <1>2, <1>12 DEF ScatterPrio
  <2>3. Fresh(q, Home[o])' => Fresh(q, Home[o])
    BY <1>3, <1>6, <1>12, <2>1 DEF Fresh
  <2>4. Going(o, q) => Going(o, q)'
    BY <1>10, <1>12, <2>1
  <2> QED  BY <1>1, <1>2, <1>7, <2>2, <2>3, <2>4 DEF KnownPrios, Known1
<1>13. KnownPrios'
  <2>1. \A o \in Obj : DOMAIN cpl'[o] = DOMAIN cpl[o]
    BY <1>2 DEF ScatterPrio
  <2> QED  BY <1>1, <1>2, <1>11, <1>12, <2>1 DEF KnownPrios
<1>14. ChanInv'
  <2>1. \A a, q : SharedList(a, q)' = SharedList(a, q)
    <3>1. \A o \in Obj : /\ DOMAIN cpl'[o] = DOMAIN cpl[o]
                         /\ cpl'[o] = [x \in DOMAIN cpl'[o] |-> cpl'[o][x]]
                         /\ cpl[o] = [x \in DOMAIN cpl[o] |-> cpl[o][x]]
      BY <1>1, <1>2 DEF ScatterPrio, CplFunctions
    <3>2. \A o \in Obj : cpl'[o] = NoCouplings <=> cpl[o] = NoCouplings
      <4>1. \A o \in Obj : cpl[o] = NoCouplings <=> DOMAIN cpl[o] = {}
        BY <1>1, CoupledIff
      <4>2. ASSUME NEW o \in Obj PROVE cpl'[o] = NoCouplings <=> DOMAIN cpl'[o] = {}
        <5>1. DOMAIN cpl'[o] = {} => cpl'[o] = [x \in {} |-> cpl'[o][x]]
          BY <3>1
        <5>2. [x \in {} |-> cpl'[o][x]] = << >> /\ DOMAIN << >> = {}
          OBVIOUS
        <5> QED  BY <5>1, <5>2 DEF NoCouplings
      <4> QED  BY <3>1, <4>1, <4>2
    <3> QED  BY <1>2, <3>1, <3>2, KeptShared
  <2>2. ASSUME NEW a \in Proc, NEW q \in Proc, a # q PROVE ChanAt(a, q)'
    <3>1. ChanAt(a, q)
      BY <1>1, <2>2 DEF ChanInv
    <3>2. env'[a] # "prioCmds" => env[a] # "prioCmds"
      BY <1>3
    <3>3. CASE ~(q = p /\ a \in DOMAIN std[p])
      BY <1>2, <1>6, <2>1, <3>1, <3>2, <3>3 DEF ChanAt
    <3>4. CASE q = p /\ a \in DOMAIN std[p]
      <4> DEFINE s == chan[a][p]
      <4>1. s \in Seq(S) /\ Len(s) >= 1 /\ Len(s) \in Nat /\ chan'[a][p] = Tail(s)
        BY <1>6, <1>8, <3>4
      <4>2. Len(chan'[a][p]) = Len(s) - 1 /\ \A n \in 1 .. Len(s) - 1 : chan'[a][p][n] = s[n + 1]
        BY <4>1
      <4>3. \A n \in 1 .. Len(s) - 1 : n + 1 \in 1 .. Len(s) /\ (n = Len(s) - 1 => n + 1 = Len(s))
        BY <4>1
      <4> HIDE DEF s
      <4>4. \A n \in 1 .. Len(s) :
              /\ s[n] \in [DOMAIN SharedList(a, p) -> Prio]
              /\ n = Len(s) /\ env[a] # "prioCmds" =>
                   \A i \in DOMAIN SharedList(a, p) : s[n][i] = prio[SharedList(a, p)[i]]
        BY <3>1, <3>4 DEF ChanAt, s
      <4>5. \A n \in 1 .. Len(chan'[a][p]) :
              /\ chan'[a][p][n] \in [DOMAIN SharedList(a, p) -> Prio]
              /\ n = Len(chan'[a][p]) /\ env'[a] # "prioCmds" =>
                   \A i \in DOMAIN SharedList(a, p) : chan'[a][p][n][i] = prio[SharedList(a, p)[i]]
        BY <3>2, <4>2, <4>3, <4>4
      <4> QED  BY <1>2, <2>1, <3>4, <4>5 DEF ChanAt
    <3> QED  BY <3>3, <3>4
  <2> QED  BY <2>2 DEF ChanInv
<1>15. ItemInv'
  <2>1. ASSUME NEW m \in net, NEW i \in m.items PROVE ItemRight(m, i)'
    <3>1. m.to \in Proc /\ (m.phase = "phase3" => i.proc \in Proc /\ m.to # p)
      BY <1>1, <1>3, ItemProcs DEF NetInv, Net3
    <3>2. m.phase = "phase3" => (Fresh(i.proc, m.to)' => Fresh(i.proc, m.to))
      BY <1>3, <1>6, <3>1 DEF Fresh
    <3>3. ItemRight(m, i)
      BY <1>1 DEF ItemInv
    <3> QED  BY <1>2, <1>7, <3>2, <3>3 DEF ItemRight
  <2>2. ASSUME NEW a \in Proc PROVE TaskRight(a)'
    <3>1. env'[a] = "phase2" => env[a] = "phase2"
      BY <1>3
    <3> QED  BY <1>1, <1>2, <1>7, <3>1 DEF ItemInv, TaskRight
  <2> QED  BY <1>2, <2>1, <2>2 DEF ItemInv
<1> QED  BY <1>13, <1>14, <1>15

-------------------------------------------------------------------------------
(* The invariant holds.                                                      *)

(* In the beginning, and from step to step. *)
LEMMA InitPrios ==
  ASSUME Init
  PROVE  PrioInv
<1>1. /\ gid = FirstGids /\ prio \in FirstPrios
      /\ env = [p \in Proc |-> "idle"] /\ round = [p \in Proc |-> 0]
      /\ chan = [p \in Proc |-> [q \in Proc |-> <<>>]]
      /\ joins = [p \in Proc |-> {}] /\ addCpl3 = [p \in Proc |-> {}] /\ net = {}
      /\ std = [p \in Proc |-> IFCollectStdCouplings(p, cpl)]
      /\ heads = [p \in Proc |-> IFHeads(p, cpl)]
  BY DEF Init, IFInit
<1>2. ProtocolInv /\ DataInv /\ OneCopy
  BY InitProtocol DEF ProtocolInv
<1>3. prio \in [Obj -> Prio]
  BY <1>1, JoinAssumption
<1>4. OriginInv
  BY <1>1 DEF OriginInv
<1>5. ListsInv
  <2>1. \A p \in Proc : StdWithin(p)
    BY <1>2, CollectedWithin
  <2> QED  BY <1>1, <2>1 DEF ListsInv, ListsAt, StdWithin
<1>6. KnownPrios
  <2> SUFFICES ASSUME NEW o \in Obj, NEW q \in DOMAIN cpl[o] PROVE Known1(o, q)
    BY <1>3 DEF KnownPrios
  <2> DEFINE x == CHOOSE x \in Copy(q, gid[o]) : TRUE
  <2>1. DOMAIN cpl[o] = {Home[y] : y \in {z \in Obj \ {o} : gid[z] = gid[o]}} /\ cpl[o][q] = prio[x]
    BY DEF Init
  <2>2. PICK y \in Obj : Home[y] = q /\ gid[y] = gid[o]
    BY <2>1
  <2>3. y \in Copy(q, gid[o])
    BY <1>1, <2>2, JoinAssumption DEF Copy, Copies, NoGid
  <2>4. x \in Copy(q, gid[o])
    BY <2>3
  <2> HIDE DEF x
  <2>5. \A z \in Copy(q, gid[o]) : z = x
    BY <1>2, <2>4 DEF Copy, Copies, OneCopy
  <2>6. x \in Obj
    BY <2>4 DEF Copy, Copies
  <2> QED  BY <1>3, <2>1, <2>5, <2>6 DEF Known1
<1>7. ChanInv
  BY <1>1 DEF ChanInv, ChanAt
<1>8. ItemInv
  BY <1>1 DEF ItemInv, TaskRight
<1> QED  BY <1>4, <1>5, <1>6, <1>7, <1>8 DEF PrioInv

LEMMA NextPrios ==
  ASSUME ~Shared, ProtocolInv, ExchangeInv, PrioInv, [Next]_vars
  PROVE  PrioInv'
<1>1. ProtocolInv' /\ StdInv /\ OriginInv /\ ListsInv
  BY NextProtocol DEF ExchangeInv, PrioInv
<1>2. OriginInv' /\ ListsInv'
  BY <1>1, NextOrigin, NextLists
<1>3. ASSUME NEW p \in Proc, Advance(p) PROVE KnownPrios' /\ ChanInv' /\ ItemInv'
  <2>1. CASE JoinBegin(p)
    <3>1. Begin(p, "join", "joinCmds") /\ UNCHANGED <<gid, prio, cpl, chan, net, addCpl3, deleted>>
      BY <2>1 DEF JoinBegin, joinVars
    <3> QED  BY <3>1, BeginPrios
  <2>2. CASE JoinEnd(p)
    BY <1>1, <2>2, JoinEndPrios
  <2>3. CASE UnpackPhase1(p)
    BY <2>3, UnpackPhase1Prios
  <2>4. CASE UnpackPhase2(p)
    BY <2>4, UnpackPhase2Prios
  <2>5. CASE JoinEndReturns(p)
    BY <2>5, JoinEndReturnsPrios
  <2>6. CASE XferEndReturns(p)
    BY <1>1, <2>6, XferEndReturnsPrios
  <2>7. CASE PrioBegin(p) /\ UNCHANGED joinVars
    <3>1. Begin(p, "prio", "prioCmds") /\ UNCHANGED <<gid, prio, cpl, chan, net, addCpl3, deleted>>
      BY <2>7 DEF PrioBegin, joinVars
    <3> QED  BY <3>1, BeginPrios
  <2>8. CASE PrioEnd(p) /\ UNCHANGED joinVars
    BY <2>8, PrioEndPrios
  <2>9. CASE PrioEndReturns(p) /\ UNCHANGED joinVars
    BY <2>9, PrioEndReturnsPrios
  <2> QED  BY <1>3, <2>1, <2>2, <2>3, <2>4, <2>5, <2>6, <2>7, <2>8, <2>9 DEF Advance
<1>4. ASSUME NEW p \in Proc, NEW gids, XferEnd(p, gids) PROVE KnownPrios' /\ ChanInv' /\ ItemInv'
  <2>1. Begin(p, "xfer", "xfer") /\ UNCHANGED <<gid, prio, cpl, chan, net, addCpl3>>
        /\ deleted' = [deleted EXCEPT ![p] = @ \cup ({round'[p]} \X gids)]
    BY <1>4 DEF XferEnd
  <2>2. \A a \in Proc : a # p => deleted'[a] = deleted[a]
    <3>1. deleted \in [Proc -> SUBSET (Nat \X Nat)]
      BY DEF ProtocolInv, DataInv
    <3> QED  BY <2>1, <3>1
  <2> QED  BY <2>1, <2>2, BeginPrios
<1>5. ASSUME NEW o \in Changing, NEW r \in Prio, PrioChange(o, r), UNCHANGED joinVars
      PROVE  KnownPrios' /\ ChanInv' /\ ItemInv'
  BY <1>5, PrioChangePrios
<1>6. ASSUME \/ \E p \in Proc, o \in Joining, d \in Proc : Home[o] = p /\ \E g \in Targets[o] : JoinObj(p, o, d, g)
             \/ \E o \in Moving : Move(o) /\ UNCHANGED joinVars
             \/ \E p \in Proc : UseInterfaces(p) /\ UNCHANGED joinVars
             \/ UNCHANGED vars
      PROVE  KnownPrios' /\ ChanInv' /\ ItemInv'
  <2>1. UNCHANGED <<gid, prio, cpl, chan, net, addCpl3, env, round, deleted>>
    <3>1. CASE \E p \in Proc, o \in Joining, d \in Proc : Home[o] = p /\ \E g \in Targets[o] : JoinObj(p, o, d, g)
      BY <3>1 DEF JoinObj, envVars
    <3>2. CASE \E o \in Moving : Move(o) /\ UNCHANGED joinVars
      BY <3>2 DEF Move, HdrConstructorMove, envVars, joinVars
    <3>3. CASE \E p \in Proc : UseInterfaces(p) /\ UNCHANGED joinVars
      BY <3>3 DEF UseInterfaces, IFRefreshAll, IFExecLocal, envVars, joinVars
    <3>4. CASE UNCHANGED vars
      BY <3>4 DEF vars, envVars, joinVars
    <3> QED  BY <1>6, <3>1, <3>2, <3>3, <3>4
  <2> QED  BY <2>1, StayPrios
<1>7. KnownPrios' /\ ChanInv' /\ ItemInv'
  BY <1>3, <1>4, <1>5, <1>6 DEF Next
<1> QED  BY <1>2, <1>7 DEF PrioInv

LEMMA PriosHold ==
  ASSUME ~Shared
  PROVE  Spec => [](ProtocolInv /\ ExchangeInv /\ PrioInv)
<1>1. Init => ProtocolInv /\ ExchangeInv /\ PrioInv
  BY InitProtocol, InitExchange, InitPrios
<1>2. ProtocolInv /\ ExchangeInv /\ PrioInv /\ [Next]_vars => (ProtocolInv /\ ExchangeInv /\ PrioInv)'
  BY NextProtocol, NextExchange, NextPrios
<1> QED  BY <1>1, <1>2, PTL DEF Spec

-------------------------------------------------------------------------------
(* What follows.                                                             *)

(* The invariant gives the types. *)
LEMMA PrioTypes ==
  ASSUME ProtocolInv, PrioInv
  PROVE  TypeOK
<1>1. StageInv /\ DataInv /\ KnownInv /\ JoinTypeInv /\ ListsInv /\ KnownPrios /\ ItemInv
  BY DEF ProtocolInv, PrioInv
<1>2. \A o \in Obj : DOMAIN cpl[o] \subseteq Proc \ {Home[o]} /\ \A q \in DOMAIN cpl[o] : cpl[o][q] \in Prio
  BY <1>1, CplDomain DEF KnownPrios, Known1
<1>3. gid \in [Obj -> Nat] /\ prio \in [Obj -> Prio]
  BY <1>1 DEF DataInv, KnownPrios
<1>4. env \in [Proc -> {"idle", "joinCmds", "phase1", "phase2", "phase3", "prioCmds", "prioExchange", "xfer"}]
  BY <1>1 DEF StageInv, Envs, JoinEnvs, Joins3, PrioEnvs
<1>5. ASSUME NEW p \in Proc
      PROVE  /\ addCpl3[p] \subseteq Items
             /\ round[p] \in 0 .. Len(program)
             /\ p \notin Explicit => \A q \in DOMAIN std[p] : ToSet(std[p][q]) \subseteq Coupled(p, cpl)
             /\ joins[p] \subseteq [obj : Joining, dest : Proc, gid : Nat]
  BY <1>1 DEF ItemInv, TaskRight, StageInv, ListsInv, ListsAt, JoinTypeInv
<1> QED  BY <1>2, <1>3, <1>4, <1>5 DEF TypeOK

(* Between the same environments: who has a coupling, and with which priority. *)
LEMMA DonePrios ==
  ASSUME ProtocolInv, ExchangeInv, PrioInv, AllDone
  PROVE  /\ PrioritiesKnown
         /\ \A o \in Obj : \A q \in DOMAIN cpl[o] : \E x \in Obj :
              /\ Home[x] = q /\ gid[x] = gid[o] /\ gid[x] # NoGid /\ Home[o] \in DOMAIN cpl[x]
              /\ cpl[o][q] = prio[x] /\ cpl[x][Home[o]] = prio[o]
<1>1. StageInv /\ DataInv /\ OneCopy /\ KnownInv /\ KnownPrios /\ OwnersKnown
  BY ProtocolCouplings DEF ProtocolInv, PrioInv
<1>2. \A p, q \in Proc : env[p] = "idle" /\ round[p] = round[q] /\ round[p] \in Nat
  BY <1>1 DEF AllDone, StageInv
<1>3. \A p, q \in Proc : p # q => Fresh(q, p)
  <2> SUFFICES ASSUME NEW p \in Proc, NEW q \in Proc, p # q PROVE Fresh(q, p)
    OBVIOUS
  <2>1. Taken(p) = round[p] /\ Sent(q) = round[p] /\ round[p] \in Nat
    BY <1>2 DEF Taken, Sent, PrioEnvs
  <2>2. Taken(p) >= Sent(q)
    BY <2>1
  <2>3. chan[q][p] = <<>>
    BY <1>1, <2>2, QuietChan
  <2> QED  BY <1>2, <2>3 DEF Fresh
<1>4. ASSUME NEW o \in Obj, NEW x \in Others(o), gid[o] # NoGid
      PROVE  Home[x] \in DOMAIN cpl[o] /\ cpl[o][Home[x]] = prio[x]
  <2>1. x \in Obj /\ x # o /\ gid[x] = gid[o] /\ Home[x] \in Proc /\ Home[o] \in Proc
    BY InterfacesAssumption DEF Others
  <2>2. Home[x] \in DOMAIN cpl[o]
    BY <1>1, <1>4 DEF OwnersKnown
  <2>3. Home[x] # Home[o]
    BY <1>1, <1>4, <2>1 DEF OneCopy
  <2>4. x \in Copy(Home[x], gid[o])
    BY <1>4, <2>1 DEF Copy, Copies
  <2>5. ~Going(o, Home[x])
    BY <1>2, <2>1 DEF Going
  <2> QED  BY <1>1, <1>3, <2>1, <2>2, <2>3, <2>4, <2>5 DEF KnownPrios, Known1
<1>5. ASSUME NEW o \in Obj, NEW q \in DOMAIN cpl[o]
      PROVE  \E x \in Obj :
              /\ Home[x] = q /\ gid[x] = gid[o] /\ gid[x] # NoGid /\ Home[o] \in DOMAIN cpl[x]
              /\ cpl[o][q] = prio[x] /\ cpl[x][Home[o]] = prio[o]
  <2>1. gid[o] # NoGid
    BY <1>1, <1>5, CplDomain
  <2>2. PICK x \in Others(o) : Home[x] = q
    BY <1>1, <2>1, AllDone DEF OwnersKnown
  <2>3. x \in Obj /\ gid[x] = gid[o] /\ o \in Others(x)
    BY DEF Others
  <2> QED  BY <1>4, <2>1, <2>2, <2>3
<1> QED  BY <1>4, <1>5 DEF PrioritiesKnown

LEMMA DoneAlike ==
  ASSUME ProtocolInv, ExchangeInv, PrioInv, AllDone, NEW p, NEW q
  PROVE  /\ Alike(Common(p, q, cpl), Common(q, p, cpl))
         /\ \A o \in Common(p, q, cpl), x \in Common(q, p, cpl) : gid[x] = gid[o] =>
              cpl[o][q] = prio[x] /\ cpl[x][p] = prio[o]
<1>1. DataInv /\ OneCopy /\ OriginInv
  BY DEF ProtocolInv, PrioInv
<1>2. \A a, b : \A o \in Common(a, b, cpl) :
        /\ o \in Obj /\ Home[o] = a /\ b \in DOMAIN cpl[o]
        /\ \E x \in Common(b, a, cpl) : gid[x] = gid[o] /\ gid[x] # NoGid /\ cpl[o][b] = prio[x] /\ cpl[x][a] = prio[o]
  <2> SUFFICES ASSUME NEW a, NEW b, NEW o \in Common(a, b, cpl)
               PROVE  /\ o \in Obj /\ Home[o] = a /\ b \in DOMAIN cpl[o]
                      /\ \E x \in Common(b, a, cpl) : gid[x] = gid[o] /\ gid[x] # NoGid
                                                      /\ cpl[o][b] = prio[x] /\ cpl[x][a] = prio[o]
    OBVIOUS
  <2>1. o \in Obj /\ Home[o] = a /\ b \in DOMAIN cpl[o]
    BY DEF Common, Coupled
  <2>2. PICK x \in Obj : /\ Home[x] = b /\ gid[x] = gid[o] /\ gid[x] # NoGid /\ Home[o] \in DOMAIN cpl[x]
                         /\ cpl[o][b] = prio[x] /\ cpl[x][Home[o]] = prio[o]
    BY <2>1, DonePrios
  <2>3. cpl[x] # NoCouplings
    BY <2>2 DEF NoCouplings
  <2> QED  BY <2>1, <2>2, <2>3 DEF Common, Coupled
<1>3. \A o \in Common(p, q, cpl), x, y \in Common(q, p, cpl) : gid[x] = gid[o] /\ gid[y] = gid[o] => x = y
  <2>1. \A x, y \in Common(q, p, cpl) : gid[x] = gid[y] => x = y
    BY <1>1, CommonSortable DEF Common, Sortable
  <2> QED  BY <2>1
<1>4. \A o \in Common(p, q, cpl), x \in Common(q, p, cpl) : gid[x] = gid[o] => Attr[o] = Attr[x]
  BY <1>1, <1>2, SameAttr
<1> QED  BY <1>2, <1>3, <1>4 DEF Alike

(* The members of the interface at both sides of a boundary, and those of a  *)
(* direction and of the opposite one.                                        *)
Heading(p, q, d) == {o \in Members(p, q, cpl) : Dir(o, q, cpl) = d}
LEMMA DoneMembers ==
  ASSUME ProtocolInv, ExchangeInv, PrioInv, AllDone, NEW p, NEW q
  PROVE  /\ Alike(Members(p, q, cpl), Members(q, p, cpl))
         /\ \A d \in Directions : Alike(Heading(p, q, d), Heading(q, p, Opposite(d)))
<1>1. \A a, b : Members(a, b, cpl) = {o \in Common(a, b, cpl) : Dir(o, b, cpl) # {}}
  BY DEF Members, Common
<1>2. Alike(Common(p, q, cpl), Common(q, p, cpl))
  BY DoneAlike
<1>3. \A o \in Common(p, q, cpl), x \in Common(q, p, cpl) : gid[x] = gid[o] =>
        /\ "AB" \in Dir(o, q, cpl) <=> "BA" \in Dir(x, p, cpl)
        /\ "BA" \in Dir(o, q, cpl) <=> "AB" \in Dir(x, p, cpl)
  BY DoneAlike DEF Dir
<1>4. \A o, a : Dir(o, a, cpl) \subseteq {"AB", "BA"}
  BY DEF Dir
<1>5. Alike(Members(p, q, cpl), Members(q, p, cpl))
  <2>1. \A o \in Common(p, q, cpl), x \in Common(q, p, cpl) : gid[x] = gid[o] =>
          (Dir(o, q, cpl) # {} <=> Dir(x, p, cpl) # {})
    <3> SUFFICES ASSUME NEW o \in Common(p, q, cpl), NEW x \in Common(q, p, cpl), gid[x] = gid[o]
                 PROVE  Dir(o, q, cpl) # {} <=> Dir(x, p, cpl) # {}
      OBVIOUS
    <3> QED  BY <1>3, <1>4
  <2> QED  BY <1>1, <1>2, <2>1 DEF Alike
<1>6. ASSUME NEW d \in Directions PROVE Alike(Heading(p, q, d), Heading(q, p, Opposite(d)))
  <2> DEFINE e == Opposite(d)
  <2>1. (d = {"AB"} /\ e = {"BA"}) \/ (d = {"BA"} /\ e = {"AB"}) \/ (d = {"AB", "BA"} /\ e = {"AB", "BA"})
    BY DEF Directions, Opposite
  <2> HIDE DEF e
  <2>2. \A o \in Common(p, q, cpl), x \in Common(q, p, cpl) : gid[x] = gid[o] =>
          (Dir(o, q, cpl) = d <=> Dir(x, p, cpl) = e)
    <3> SUFFICES ASSUME NEW o \in Common(p, q, cpl), NEW x \in Common(q, p, cpl), gid[x] = gid[o]
                 PROVE  Dir(o, q, cpl) = d <=> Dir(x, p, cpl) = e
      OBVIOUS
    <3>1. \A D, E : D \subseteq {"AB", "BA"} /\ E \subseteq {"AB", "BA"}
                    /\ ("AB" \in D <=> "BA" \in E) /\ ("BA" \in D <=> "AB" \in E) => (D = d <=> E = e)
      BY <2>1
    <3> QED  BY <1>3, <1>4, <3>1
  <2>3. /\ Heading(p, q, d) = {o \in Common(p, q, cpl) : Dir(o, q, cpl) = d}
        /\ Heading(q, p, e) = {x \in Common(q, p, cpl) : Dir(x, p, cpl) = e}
    BY <1>1, <2>1 DEF Heading
  <2> QED  BY <1>2, <2>2, <2>3 DEF Alike, e
<1> QED  BY <1>5, <1>6

(* Both sides of a boundary whose lists have been made after that. *)
LEMMA DoneSides ==
  ASSUME ProtocolInv, ExchangeInv, PrioInv, AllDone, NEW p \in Proc, NEW q \in Proc,
         \A a \in {p, q} : std[a] = IFCollectStdCouplings(a, cpl) /\ heads[a] = IFHeads(a, cpl)
  PROVE  SidesMatch(p, q)
<1>1. DataInv /\ OneCopy
  BY DEF ProtocolInv
<1>2. \A a, b : b \in Neighbours(a, cpl) <=> Common(a, b, cpl) # {}
  BY DEF Neighbours, Common
<1>3. \A a, b : Members(a, b, cpl) \subseteq Common(a, b, cpl)
  BY DEF Members, Common
<1>4. GidsOf(StdOf(p, q)) = GidsOf(StdOf(q, p))
  <2>1. Alike(Common(p, q, cpl), Common(q, p, cpl))
    BY DoneAlike
  <2>2. CASE Common(p, q, cpl) = {}
    <3>1. q \notin DOMAIN std[p] /\ p \notin DOMAIN std[q]
      BY <1>2, <2>1, <2>2 DEF IFCollectStdCouplings, Alike
    <3> QED  BY <3>1 DEF StdOf
  <2>3. CASE Common(p, q, cpl) # {}
    <3>1. StdOf(p, q) = IFSorted(Common(p, q, cpl)) /\ StdOf(q, p) = IFSorted(Common(q, p, cpl))
      BY <1>2, <2>1, <2>3 DEF IFCollectStdCouplings, Alike, StdOf, Common
    <3>2. Sortable(Common(p, q, cpl)) /\ Sortable(Common(q, p, cpl))
      BY <1>1, CommonSortable DEF Common
    <3> QED  BY <2>1, <3>1, <3>2, ListsMatch
  <2> QED  BY <2>2, <2>3
<1>5. ASSUME NEW d \in Directions PROVE GidsOf(HeadOf(p, q, d)) = GidsOf(HeadOf(q, p, Opposite(d)))
  <2>1. Opposite(d) \in Directions
    BY DEF Directions, Opposite
  <2>2. Members(p, q, cpl) = {} <=> Members(q, p, cpl) = {}
    BY DoneMembers DEF Alike
  <2>3. CASE Members(p, q, cpl) = {}
    <3>1. q \notin DOMAIN heads[p] /\ p \notin DOMAIN heads[q]
      BY <2>2, <2>3 DEF IFHeads
    <3> QED  BY <3>1 DEF HeadOf
  <2>4. CASE Members(p, q, cpl) # {}
    <3>1. q \in Neighbours(p, cpl) /\ p \in Neighbours(q, cpl)
      BY <1>2, <1>3, <2>2, <2>4
    <3>2. HeadOf(p, q, d) = IFSorted(Heading(p, q, d)) /\ HeadOf(q, p, Opposite(d)) = IFSorted(Heading(q, p, Opposite(d)))
      BY <2>1, <2>2, <2>4, <3>1 DEF HeadOf, IFHeads, Heading
    <3>3. Sortable(Heading(p, q, d)) /\ Sortable(Heading(q, p, Opposite(d)))
      BY <1>1, CommonSortable DEF Heading, Members
    <3>4. Alike(Heading(p, q, d), Heading(q, p, Opposite(d)))
      BY DoneMembers
    <3> QED  BY <3>2, <3>3, <3>4, ListsMatch
  <2> QED  BY <2>3, <2>4
<1> QED  BY <1>4, <1>5 DEF SidesMatch

(* Between the same environments every copy knows the priorities of all      *)
(* others, however the changes of priorities, the joins and the deletions    *)
(* went before, and the lists of both sides of every boundary agree position *)
(* by position (sort_IFCouplings, IFCreateFromScratch): the data sent over   *)
(* an interface reach the objects they belong to.                            *)
THEOREM InterfacesHold ==
  ASSUME ~Shared
  PROVE  Spec => []InterfacesMatch
<1>1. ProtocolInv /\ ExchangeInv /\ PrioInv => InterfacesMatch
  <2>1. ASSUME PrioInv, AllDone, NEW a \in Proc, a \notin Explicit
        PROVE  std[a] = IFCollectStdCouplings(a, cpl) /\ heads[a] = IFHeads(a, cpl)
    BY <2>1 DEF PrioInv, ListsInv, ListsAt, StdValid, AllDone
  <2> QED  BY <2>1, PrioTypes, DonePrios, DoneSides DEF InterfacesMatch
<1> QED  BY <1>1, PriosHold, PTL

(* A message that p waits for, and both lists. *)
LEMMA ExchangeLists ==
  ASSUME ProtocolInv, ExchangeInv, PrioInv, NEW p \in Proc, NEW q \in Proc,
         env[p] = "prioExchange", q \in DOMAIN std[p], chan[q][p] # <<>>
  PROVE  /\ Len(Head(chan[q][p])) = Len(std[p][q])
         /\ round[q] = round[p] => GidsOf(StdOf(q, p)) = GidsOf(std[p][q])
<1>1. StageInv /\ DataInv /\ OneCopy /\ ListsInv /\ ChanInv /\ OriginInv
  BY DEF ProtocolInv, PrioInv
<1>2. env[p] \in PrioEnvs
  BY DEF PrioEnvs
<1>3. /\ q # p /\ std[p][q] = SharedList(p, q) /\ q \in Neighbours(p, cpl)
      /\ SortedList(Common(p, q, cpl), SharedList(p, q))
  BY <1>1, <1>2, ExchangeStd
<1>4. /\ Len(chan[q][p]) >= 1 /\ Len(chan[q][p]) \in Nat
      /\ DOMAIN SharedList(p, q) = DOMAIN SharedList(q, p)
      /\ GidsOf(SharedList(p, q)) = GidsOf(SharedList(q, p))
      /\ round[q] >= round[p]
  BY <1>2, <1>3, MessageMatches
<1>5. Len(Head(chan[q][p])) = Len(std[p][q])
  <2> DEFINE n == Cardinality(Common(p, q, cpl))
             s == chan[q][p]
  <2>1. PICK S : chan \in [Proc -> [Proc -> Seq(S)]]
    BY DEF ExchangeInv, SeqInv
  <2>2. s \in Seq(S)
    BY <2>1
  <2>3. Head(s) = s[1]
    BY <1>4, <2>2
  <2>4. s[1] \in [DOMAIN SharedList(q, p) -> Prio]
    BY <1>1, <1>3, <1>4 DEF ChanInv, ChanAt
  <2>5. n \in Nat /\ s[1] \in [1 .. n -> Prio] /\ std[p][q] \in [1 .. n -> Common(p, q, cpl)]
    BY <1>3, <1>4, <2>4 DEF SortedList
  <2>6. \A m \in Nat : \A X : \A f \in [1 .. m -> X] : Len(f) = m
    OBVIOUS
  <2> HIDE DEF n, s
  <2> QED  BY <2>3, <2>5, <2>6 DEF s
<1>6. ASSUME round[q] = round[p] PROVE GidsOf(StdOf(q, p)) = GidsOf(std[p][q])
  <2>1. StdValid(q)
    <3>1. round[p] > 0 /\ program[round[p]] = "prio" /\ env[q] \in Envs
      BY <1>1, <1>2 DEF StageInv, PrioEnvs
    <3>2. env[q] \in PrioEnvs \cup {"idle"}
      BY <1>1, <1>6, <3>1 DEF StageInv, Envs
    <3> QED  BY <1>6, <3>1, <3>2 DEF StdValid, PrioEnvs
  <2>2. Common(q, p, cpl) # {}
    <3>1. Common(p, q, cpl) # {}
      BY <1>3 DEF Neighbours, Common
    <3> QED  BY <1>1, <1>2, <1>3, <1>4, <3>1, SharedAlike DEF Alike
  <2>3. p \in Neighbours(q, cpl)
    BY <2>2 DEF Neighbours, Common
  <2>4. StdOf(q, p) = SharedList(q, p)
    BY <1>1, <2>1, <2>3 DEF ListsInv, ListsAt, StdOf, IFCollectStdCouplings, SharedList, Common
  <2> QED  BY <1>3, <1>4, <2>4
<1> QED  BY <1>5, <1>6

(* The message DDD_PrioEnd waits for next has one priority for each object   *)
(* of the list it is unpacked along (ddd_StdIFExchangeX), although neighbours *)
(* may be an environment ahead: no zero gets into a coupling, and no         *)
(* priority goes to the wrong one.                                           *)
THEOREM ExchangeHolds ==
  ASSUME ~Shared
  PROVE  Spec => []ExchangeMatches
<1>1. ProtocolInv /\ ExchangeInv /\ PrioInv => ExchangeMatches
  <2> SUFFICES ASSUME ProtocolInv, ExchangeInv, PrioInv, NEW p \in Proc, NEW q \in Proc,
                      env[p] = "prioExchange", q \in DOMAIN std[p], chan[q][p] # <<>>
               PROVE  /\ Len(Head(chan[q][p])) = Len(std[p][q])
                      /\ round[q] = round[p] => GidsOf(StdOf(q, p)) = GidsOf(std[p][q])
    BY DEF ExchangeMatches
  <2> QED  BY ExchangeLists
<1> QED  BY <1>1, PriosHold, PTL

-------------------------------------------------------------------------------
(* The consistency check.                                                    *)

(* The sum over all processors of what is zero for each. *)
IsSum(f, m) == f = [s \in SUBSET Proc |->
    IF s = {} THEN 0 ELSE ErrorsOf(CHOOSE x \in s : TRUE, m) + f[s \ {CHOOSE x \in s : TRUE}]]
LEMMA UnfoldConsCheck ==
  ASSUME NEW m
  PROVE  DDD_ConsCheck(m) = (CHOOSE f : IsSum(f, m))[Proc]
  BY DEF DDD_ConsCheck, MapThenSumSet, MapThenFoldSet, IsSum

LEMMA SumOfZeros ==
  ASSUME NEW m, \A p \in Proc : ErrorsOf(p, m) = 0
  PROVE  DDD_ConsCheck(m) = 0
<1> DEFINE f == CHOOSE h : IsSum(h, m)
           Bad == {Cardinality(s) : s \in {t \in SUBSET Proc : f[t] # 0}}
<1>1. \A s \in SUBSET Proc : IsFiniteSet(s) /\ Cardinality(s) \in Nat
  BY InterfacesAssumption, FS_Subset, FS_CardinalityType
<1>2. \A s \in SUBSET Proc : s # {} => (CHOOSE x \in s : TRUE) \in s
  OBVIOUS
<1>3. IsSum(f, m)
  <2> DEFINE z == [s \in SUBSET Proc |-> 0]
  <2>1. z = [s \in SUBSET Proc |->
               IF s = {} THEN 0 ELSE ErrorsOf(CHOOSE x \in s : TRUE, m) + z[s \ {CHOOSE x \in s : TRUE}]]
    <3>1. \A s \in SUBSET Proc : s # {} =>
            ErrorsOf(CHOOSE x \in s : TRUE, m) + z[s \ {CHOOSE x \in s : TRUE}] = 0
      <4> SUFFICES ASSUME NEW s \in SUBSET Proc, s # {}
                   PROVE  ErrorsOf(CHOOSE x \in s : TRUE, m) + z[s \ {CHOOSE x \in s : TRUE}] = 0
        OBVIOUS
      <4>1. ErrorsOf(CHOOSE x \in s : TRUE, m) = 0
        BY <1>2
      <4>2. z[s \ {CHOOSE x \in s : TRUE}] = 0
        OBVIOUS
      <4> HIDE DEF z
      <4> QED  BY <4>1, <4>2
    <3> QED  BY <3>1
  <2> HIDE DEF z
  <2>2. IsSum(z, m)
    BY <2>1 DEF IsSum
  <2> QED  BY <2>2
<1> HIDE DEF f
<1>4. \A s \in SUBSET Proc :
        f[s] = IF s = {} THEN 0 ELSE ErrorsOf(CHOOSE x \in s : TRUE, m) + f[s \ {CHOOSE x \in s : TRUE}]
  BY <1>3 DEF IsSum
<1>5. Bad = {}
  <2> SUFFICES ASSUME Bad # {} PROVE FALSE
    OBVIOUS
  <2>1. Bad \in SUBSET Nat
    BY <1>1
  <2>2. PICK n \in Bad : \A k \in Bad : n <= k
    BY <2>1, Smallest
  <2>3. PICK s \in SUBSET Proc : n = Cardinality(s) /\ f[s] # 0
    BY <2>2
  <2>4. s # {}
    BY <1>4, <2>3
  <2> DEFINE x == CHOOSE y \in s : TRUE
             t == s \ {x}
  <2>5. x \in s /\ x \in Proc /\ t \in SUBSET Proc
    BY <1>2, <2>4
  <2>6. f[s] = ErrorsOf(x, m) + f[t]
    BY <1>4, <2>4
  <2>7. Cardinality(t) = Cardinality(s) - 1 /\ Cardinality(t) \in Nat /\ Cardinality(s) \in Nat
    BY <1>1, <2>5, FS_RemoveElement
  <2>8. Cardinality(t) \notin Bad
    <3>1. ~(n <= Cardinality(t))
      BY <2>3, <2>7
    <3> HIDE DEF Bad, t
    <3> QED  BY <2>2, <3>1
  <2>9. f[t] = 0
    BY <2>5, <2>8
  <2> HIDE DEF t, x
  <2> QED  BY <2>3, <2>5, <2>6, <2>9
<1>6. f[Proc] = 0
  BY <1>5
<1> QED  BY <1>6, UnfoldConsCheck DEF f

(* The checks, one by one. *)
LEMMA NoDoubles ==
  ASSUME DataInv, OneCopy, NEW p \in Proc
  PROVE  ConsCheckDoubleObj(p) = 0
<1> DEFINE S == Coupled(p, cpl)
           T == {gid[o] : o \in S}
           h == [o \in S |-> gid[o]]
<1>1. Sortable(S)
  BY CommonSortable
<1>2. IsFiniteSet(S) /\ Cardinality(S) \in Nat
  BY <1>1, RankGrows
<1>3. h \in [S -> T] /\ (\A x, y \in S : h[x] = h[y] => x = y) /\ \A g \in T : \E x \in S : h[x] = g
  BY <1>1 DEF Sortable
<1> HIDE DEF h, T, S
<1>4. h \in Bijection(S, T)
  BY <1>3 DEF Bijection, Injection, Surjection, IsInjective
<1>5. Cardinality(T) = Cardinality(S)
  BY <1>2, <1>4, FS_Bijection DEF ExistsBijection
<1> QED  BY <1>2, <1>5 DEF ConsCheckDoubleObj, S, T

LEMMA NoneMissing ==
  ASSUME ProtocolInv, ExchangeInv, PrioInv, AllDone, NEW p \in Proc
  PROVE  ConsCheckGlobalCpl(p) = 0
<1>1. ASSUME NEW o \in Obj, p \in DOMAIN cpl[o]
      PROVE  \E x \in Coupled(p, cpl) : gid[x] = gid[o] /\ prio[x] = cpl[o][p]
  <2>1. PICK x \in Obj : Home[x] = p /\ gid[x] = gid[o] /\ Home[o] \in DOMAIN cpl[x] /\ cpl[o][p] = prio[x]
    BY <1>1, DonePrios
  <2>2. cpl[x] # NoCouplings
    BY <2>1 DEF NoCouplings
  <2> QED  BY <2>1, <2>2 DEF Coupled
<1>2. {o \in Obj : p \in DOMAIN cpl[o] /\ ~\E x \in Coupled(p, cpl) : gid[x] = gid[o] /\ prio[x] = cpl[o][p]} = {}
  BY <1>1
<1> QED  BY <1>2, FS_EmptySet DEF ConsCheckGlobalCpl

LEMMA NoneUnknown ==
  ASSUME ProtocolInv, ExchangeInv, PrioInv, AllDone, NEW p \in Proc, NEW m
  PROVE  Cons2CheckGlobalCpl(p, m) = 0
<1>1. DataInv /\ OneCopy /\ KnownInv /\ OwnersKnown
  BY ProtocolCouplings DEF ProtocolInv
<1>2. ASSUME NEW c \in Lists(p)
      PROVE  /\ DOMAIN cpl[c[1]] \ Known(c[2]) = {}
             /\ prio[c[1]] = cpl[c[2]][p]
  <2> DEFINE o == c[1]
             x == c[2]
  <2>1. o \in Obj /\ Home[o] = p /\ cpl[o] # NoCouplings /\ x \in Obj /\ gid[o] = gid[x] /\ p \in DOMAIN cpl[x]
    BY DEF Lists, Coupled
  <2> HIDE DEF o, x
  <2>2. gid[x] # NoGid
    BY <1>1, <2>1, CplDomain
  <2>3. \A q \in DOMAIN cpl[o] : q \in Known(x)
    <3>1. \A q \in DOMAIN cpl[o] : \E y \in Others(o) : Home[y] = q
      BY <1>1, <2>1, <2>2, AllDone DEF OwnersKnown
    <3>2. \A y \in Others(o) : y = x \/ y \in Others(x)
      BY <2>1 DEF Others
    <3>3. \A y \in Others(x) : Home[y] \in DOMAIN cpl[x]
      BY <1>1, <2>1, <2>2, AllDone DEF OwnersKnown
    <3> QED  BY <3>1, <3>2, <3>3 DEF Known
  <2>4. PICK y \in Obj : Home[y] = p /\ gid[y] = gid[x] /\ gid[y] # NoGid /\ cpl[x][p] = prio[y]
    BY <2>1, DonePrios
  <2>5. y = o
    BY <1>1, <2>1, <2>4 DEF OneCopy
  <2> QED  BY <2>3, <2>4, <2>5 DEF o, x
<1>3. UNION {{<<c, q>> : q \in DOMAIN cpl[c[1]] \ Known(c[2])} : c \in Lists(p)} = {}
  BY <1>2
<1>4. {c \in Lists(p) \cap m : prio[c[1]] # cpl[c[2]][p]} = {}
  BY <1>2
<1>5. Cardinality({}) = 0
  BY FS_EmptySet
<1> QED  BY <1>3, <1>4, <1>5 DEF Cons2CheckGlobalCpl

LEMMA LengthsAgree ==
  ASSUME NEW p \in Proc, NEW items, DOMAIN items[p] \subseteq Proc,
         \A q \in Proc : p \in DOMAIN items[q] <=> q \in DOMAIN items[p],
         \A q \in DOMAIN items[p] : items[p][q] = items[q][p]
  PROVE  CheckInterface(p, items) = 0
<1>1. {q \in Proc : p \in DOMAIN items[q]} = DOMAIN items[p]
  OBVIOUS
<1>2. {q \in DOMAIN items[p] : p \in DOMAIN items[q] /\ items[p][q] # items[q][p]} = {}
  OBVIOUS
<1>3. Cardinality({}) = 0
  BY FS_EmptySet
<1>4. CheckInterface(p, items)
        = (IF Cardinality({q \in Proc : p \in DOMAIN items[q]}) # Cardinality(DOMAIN items[p]) THEN 1 ELSE 0)
          + Cardinality({q \in DOMAIN items[p] : p \in DOMAIN items[q] /\ items[p][q] # items[q][p]})
  BY DEF CheckInterface
<1>5. CheckInterface(p, items) = 0 + 0
  BY <1>1, <1>2, <1>3, <1>4
<1> QED  BY <1>5

LEMMA InterfacesAgree ==
  ASSUME ProtocolInv, ExchangeInv, PrioInv, AllDone, Refreshed, NEW p \in Proc
  PROVE  CheckInterfaces(p) = 0
<1> DEFINE lens == [q \in Proc |-> [r \in DOMAIN std[q] |-> Len(std[q][r])]]
           size(q, r) == Cardinality(UNION {ToSet(heads[q][r][d]) : d \in Directions})
           sizes == [q \in Proc |-> [r \in DOMAIN heads[q] |-> size(q, r)]]
<1>1. DataInv /\ OneCopy /\ KnownInv
  BY DEF ProtocolInv
<1>2. \A q \in Proc : std[q] = IFCollectStdCouplings(q, cpl) /\ heads[q] = IFHeads(q, cpl)
  BY DEF Refreshed
<1>3. \A a, b : b \in Neighbours(a, cpl) <=> Common(a, b, cpl) # {}
  BY DEF Neighbours, Common
<1>4. \A a : Neighbours(a, cpl) \subseteq Proc
  <2>1. \A o \in Obj : DOMAIN cpl[o] \subseteq Proc
    BY <1>1, CplDomain
  <2> QED  BY <2>1 DEF Neighbours, Coupled
<1>5. \A a, b : Alike(Common(a, b, cpl), Common(b, a, cpl)) /\ Alike(Members(a, b, cpl), Members(b, a, cpl))
  BY DoneAlike, DoneMembers
<1>6. \A a, b : Sortable(Common(a, b, cpl)) /\ Sortable(Members(a, b, cpl))
  BY <1>1, CommonSortable DEF Common, Members
<1>7. CheckInterface(p, lens) = 0
  <2>1. \A q \in Proc : DOMAIN lens[q] = Neighbours(q, cpl)
    BY <1>2 DEF IFCollectStdCouplings
  <2>2. \A q \in Proc : p \in DOMAIN lens[q] <=> q \in DOMAIN lens[p]
    BY <1>3, <1>5, <2>1 DEF Alike
  <2>3. \A a \in Proc : \A b \in DOMAIN lens[a] : lens[a][b] = Cardinality(Common(a, b, cpl))
    <3> SUFFICES ASSUME NEW a \in Proc, NEW b \in DOMAIN lens[a]
                 PROVE  lens[a][b] = Cardinality(Common(a, b, cpl))
      OBVIOUS
    <3>1. lens[a][b] = Len(IFSorted(Common(a, b, cpl)))
      BY <1>2, <2>1 DEF IFCollectStdCouplings, Common
    <3>2. SortedList(Common(a, b, cpl), IFSorted(Common(a, b, cpl)))
      BY <1>6, IFSortedIs
    <3>3. \A m \in Nat : \A X : \A f \in [1 .. m -> X] : Len(f) = m
      OBVIOUS
    <3> QED  BY <3>1, <3>2, <3>3 DEF SortedList
  <2>4. \A q \in DOMAIN lens[p] : lens[p][q] = lens[q][p]
    <3>1. \A q \in DOMAIN lens[p] : q \in Proc /\ p \in DOMAIN lens[q]
      BY <1>4, <2>1, <2>2
    <3>2. \A q : Cardinality(Common(p, q, cpl)) = Cardinality(Common(q, p, cpl))
      BY <1>5, <1>6, RanksAlike
    <3> HIDE DEF lens
    <3> QED  BY <2>3, <3>1, <3>2
  <2>5. DOMAIN lens[p] \subseteq Proc
    BY <1>4, <2>1
  <2> HIDE DEF lens
  <2> QED  BY <2>2, <2>4, <2>5, LengthsAgree
<1>8. CheckInterface(p, sizes) = 0
  <2>1. \A q \in Proc : DOMAIN sizes[q] = {r \in Neighbours(q, cpl) : Members(q, r, cpl) # {}}
    BY <1>2 DEF IFHeads
  <2>2. \A a, b : Members(a, b, cpl) # {} => b \in Neighbours(a, cpl)
    BY DEF Members, Neighbours
  <2>3. \A q \in Proc : p \in DOMAIN sizes[q] <=> q \in DOMAIN sizes[p]
    BY <1>5, <2>1, <2>2 DEF Alike
  <2>4. \A a \in Proc : \A b \in DOMAIN sizes[a] : sizes[a][b] = Cardinality(Members(a, b, cpl))
    <3> SUFFICES ASSUME NEW a \in Proc, NEW b \in DOMAIN sizes[a]
                 PROVE  sizes[a][b] = Cardinality(Members(a, b, cpl))
      OBVIOUS
    <3>1. \A d \in Directions : heads[a][b][d] = IFSorted(Heading(a, b, d))
      <4>1. b \in {r \in Neighbours(a, cpl) : Members(a, r, cpl) # {}} /\ heads[a] = IFHeads(a, cpl)
        BY <1>2, <2>1
      <4> HIDE DEF sizes
      <4>2. heads[a][b] = [d \in Directions |-> IFSorted({o \in Members(a, b, cpl) : Dir(o, b, cpl) = d})]
        BY <4>1 DEF IFHeads
      <4> QED  BY <4>2 DEF Heading
    <3>2. ASSUME NEW d \in Directions PROVE ToSet(IFSorted(Heading(a, b, d))) = Heading(a, b, d)
      <4>1. Sortable(Heading(a, b, d))
        BY <1>1, CommonSortable DEF Heading, Members
      <4>2. SortedList(Heading(a, b, d), IFSorted(Heading(a, b, d)))
        BY <4>1, IFSortedIs
      <4> QED  BY <4>2 DEF SortedList, ToSet
    <3>3. UNION {ToSet(heads[a][b][d]) : d \in Directions} = UNION {Heading(a, b, d) : d \in Directions}
      BY <3>1, <3>2
    <3>4. \A o \in Members(a, b, cpl) : Dir(o, b, cpl) \in Directions
      <4>1. \A D \in SUBSET {"AB", "BA"} : D # {} => D \in Directions
        BY DEF Directions
      <4>2. \A o \in Members(a, b, cpl) : Dir(o, b, cpl) \in SUBSET {"AB", "BA"} /\ Dir(o, b, cpl) # {}
        BY DEF Members, Dir
      <4> QED  BY <4>1, <4>2
    <3>5. UNION {Heading(a, b, d) : d \in Directions} = Members(a, b, cpl)
      BY <3>4 DEF Heading
    <3> QED  BY <3>3, <3>5
  <2>5. \A q \in DOMAIN sizes[p] : sizes[p][q] = sizes[q][p]
    <3>1. \A q \in DOMAIN sizes[p] : q \in Proc /\ p \in DOMAIN sizes[q]
      BY <1>4, <2>1, <2>3
    <3>2. \A q : Cardinality(Members(p, q, cpl)) = Cardinality(Members(q, p, cpl))
      BY <1>5, <1>6, RanksAlike
    <3> HIDE DEF sizes
    <3> QED  BY <2>4, <3>1, <3>2
  <2>6. DOMAIN sizes[p] \subseteq Proc
    BY <1>4, <2>1
  <2> HIDE DEF sizes
  <2> QED  BY <2>3, <2>5, <2>6, LengthsAgree
<1> QED  BY <1>7, <1>8 DEF CheckInterfaces

(* Between the same environments the consistency check finds no errors, in   *)
(* couplings and in interfaces that are up to date, in whatever order it     *)
(* goes through its items (DDD_ConsCheck).                                   *)
THEOREM NoAlarms ==
  ASSUME ~Shared
  PROVE  Spec => []NoFalseAlarm
<1>1. ProtocolInv /\ ExchangeInv /\ PrioInv => NoFalseAlarm
  <2> SUFFICES ASSUME ProtocolInv, ExchangeInv, PrioInv, AllDone, Refreshed
               PROVE  /\ DDD_ConsCheck({}) = 0 /\ DDD_ConsCheck(Obj \X Obj) = 0
                      /\ \A p \in Proc : ConsCheckGlobalCpl(p) = 0
    BY DEF NoFalseAlarm
  <2>1. DataInv /\ OneCopy
    BY DEF ProtocolInv
  <2>2. ASSUME NEW m, NEW p \in Proc PROVE ErrorsOf(p, m) = 0
    <3>1. ConsCheckDoubleObj(p) = 0 /\ Cons2CheckGlobalCpl(p, m) = 0 /\ CheckInterfaces(p) = 0
      BY <2>1, NoDoubles, NoneUnknown, InterfacesAgree
    <3> QED  BY <3>1 DEF ErrorsOf
  <2>3. \A m : DDD_ConsCheck(m) = 0
    BY <2>2, SumOfZeros
  <2> QED  BY <2>3, NoneMissing
<1> QED  BY <1>1, PriosHold, PTL
===============================================================================
