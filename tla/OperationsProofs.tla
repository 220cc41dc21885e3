-------------------------- MODULE OperationsProofs --------------------------
(***************************************************************************)
(* What operators' sessions leave behind, however many there are, on       *)
(* whatever networks, with whatever scripts and tasks but one, and however *)
(* they interleave, overlap, fail and die.  Every argument has two halves. *)
(* The programs are looked at once, each on its own; then a step of a      *)
(* session keeps what the rest of its program, its copies of the files and *)
(* the chain have to do with one another.                                  *)
(*                                                                         *)
(* Lists (ListInv).  A program records a thing only after the transaction  *)
(* that made it, or a view that has found it, and stores a file only after *)
(* it has read it (Careful).  What is on chain stays there, so a copy that *)
(* named only what existed when it was read still does when it is stored.  *)
(*                                                                         *)
(* Book and lists when nothing runs, and sends (BookInv).  A program that  *)
(* makes a fact records it in its copy and stores the copy before it ends  *)
(* (Tidy).  A fact is excused, or in its file, or some session still owes  *)
(* it.                                                                     *)
(*                                                                         *)
(* The ring of flight delay (BackInv, RingInv).  The script is followed    *)
(* step by step: the pointers set so far lead to current deployments.      *)
(*                                                                         *)
(* Types (GenInv).  A program deploys nothing twice (Once): the number of  *)
(* a deployment, with the sessions that may yet deploy it, is within the   *)
(* launches.                                                               *)
(*                                                                         *)
(* Task "NaughtyPool" of clearRecord is left out, as the run leaves it     *)
(* out: it stores the farming list as the list of pools.                   *)
(***************************************************************************)
EXTENDS Operations, FiniteSetTheorems, TLAPS

(***************************************************************************)
(* Careful programs                                                        *)
(***************************************************************************)
IsProgram(p) == \E S : p \in Seq(S)

\* The step succeeds only if there is, afterwards, such a thing on chain.
Finds(st, kind, key) ==
    st.op \in {"create", "alter", "check"} /\ st.kind = kind /\ st.key = key

\* The session has a copy of the file, or gets one before step i.
HasCopy(p, i, file, copies) ==
    \/ file \in copies
    \/ \E j \in 1 .. i - 1 : p[j].op = "read" /\ p[j].file = file

RecordJustified(p, i, there) ==
    p[i].op = "record" =>
        /\ p[i].kind \in Kinds
        /\ p[i].file = ListOf[p[i].kind]
        /\ \/ p[i].key \in there[p[i].kind]
           \/ \E j \in 1 .. i - 1 : Finds(p[j], p[i].kind, p[i].key)

ReadJustified(p, i) == p[i].op = "read" => p[i].file \in Files

StoreJustified(p, i, copies) ==
    p[i].op = "store" =>
        /\ p[i].file \in Files
        /\ HasCopy(p, i, p[i].file, copies)
        /\ \A j \in 1 .. i - 1 : p[j].op = "clear" => p[j].as = p[i].file

ClearJustified(p, i, copies) ==
    p[i].op = "clear" =>
        /\ p[i].as = p[i].file
        /\ p[i].file \in Files
        /\ HasCopy(p, i, p[i].file, copies)
        /\ \A j \in 1 .. i - 1 : p[j].op # "clear"

DeployJustified(p, i) ==
    p[i].op = "deploy" => p[i].into \subseteq {"address", "proxyAdmin"}

ChangeJustified(p, i) == p[i].op \in {"create", "alter"} => p[i].kind \in Kinds

Justified(p, i, there, copies) ==
    /\ RecordJustified(p, i, there)
    /\ ReadJustified(p, i)
    /\ StoreJustified(p, i, copies)
    /\ ClearJustified(p, i, copies)
    /\ DeployJustified(p, i)
    /\ ChangeJustified(p, i)

\* p may be run where the things of there exist, by a session that has copies
\* of the files copies.
Careful(p, there, copies) ==
    /\ IsProgram(p)
    /\ \A i \in 1 .. Len(p) : Justified(p, i, there, copies)

(***************************************************************************)
(* What is left of a careful program after one of its steps is careful, if *)
(* the step's effect is there.                                             *)
(***************************************************************************)
LEMMA TailOf ==
    ASSUME NEW p, IsProgram(p), p # <<>>
    PROVE  /\ IsProgram(Tail(p))
           /\ Len(p) \in Nat /\ Len(p) >= 1
           /\ Len(Tail(p)) = Len(p) - 1
           /\ \A i \in 1 .. Len(Tail(p)) : Tail(p)[i] = p[i + 1]
           /\ Head(p) = p[1]
  <1>1. PICK S : p \in Seq(S)
    BY DEF IsProgram
  <1> QED
    BY <1>1 DEF IsProgram

LEMMA TailIsCareful ==
    ASSUME NEW p, p # <<>>, NEW there, NEW copies, Careful(p, there, copies),
           NEW thereNow, \A k \in Kinds : there[k] \subseteq thereNow[k],
           \A kind \in Kinds : \A key : Finds(p[1], kind, key) => key \in thereNow[kind],
           NEW copiesNow,
           IF p[1].op = "clear" THEN p[1].as \in copiesNow
             ELSE /\ copies \subseteq copiesNow
                  /\ p[1].op = "read" => p[1].file \in copiesNow
    PROVE  Careful(Tail(p), thereNow, copiesNow)
  <1> DEFINE q == Tail(p)
  <1>1. /\ IsProgram(q) /\ Len(p) \in Nat /\ Len(p) >= 1 /\ Len(q) = Len(p) - 1
        /\ \A i \in 1 .. Len(q) : q[i] = p[i + 1]
    BY TailOf DEF Careful
  <1> HIDE DEF q
  <1>2. SUFFICES ASSUME NEW i \in 1 .. Len(q) PROVE Justified(q, i, thereNow, copiesNow)
    BY <1>1 DEF Careful, q
  <1>3. /\ i + 1 \in 1 .. Len(p) /\ 1 \in 1 .. Len(p) /\ q[i] = p[i + 1]
        /\ \A j \in 1 .. i - 1 : q[j] = p[j + 1] /\ j + 1 \in 1 .. i
        /\ \A j \in 1 .. i : j = 1 \/ (j - 1 \in 1 .. i - 1 /\ q[j - 1] = p[j])
        /\ 1 \in 1 .. (i + 1) - 1
    BY <1>1
  <1>a. (i + 1) - 1 = i
    OBVIOUS
  <1>b. ASSUME NEW j \in 1 .. i - 1 PROVE q[j] = p[j + 1] /\ j + 1 \in 1 .. i
    BY <1>3
  <1>4. Justified(p, i + 1, there, copies)
    BY <1>3 DEF Careful
  <1>5. RecordJustified(q, i, thereNow)
    BY <1>3, <1>4, <1>a DEF Justified, RecordJustified
  <1>6. ReadJustified(q, i) /\ DeployJustified(q, i) /\ ChangeJustified(q, i)
    BY <1>3, <1>4 DEF Justified, ReadJustified, DeployJustified, ChangeJustified
  <1>7. ASSUME p[1].op # "clear", NEW f, HasCopy(p, i + 1, f, copies)
        PROVE  HasCopy(q, i, f, copiesNow)
    BY <1>3, <1>7, <1>a DEF HasCopy
  <1>8. StoreJustified(q, i, copiesNow)
    <2>1. SUFFICES ASSUME q[i].op = "store"
                   PROVE  /\ q[i].file \in Files
                          /\ HasCopy(q, i, q[i].file, copiesNow)
                          /\ \A j \in 1 .. i - 1 : q[j].op = "clear" => q[j].as = q[i].file
      BY DEF StoreJustified
    <2>2. /\ q[i].file \in Files
          /\ HasCopy(p, i + 1, q[i].file, copies)
          /\ \A j \in 1 .. i : p[j].op = "clear" => p[j].as = q[i].file
      BY <1>3, <1>4, <1>a, <2>1 DEF Justified, StoreJustified
    <2>3. \A j \in 1 .. i - 1 : q[j].op = "clear" => q[j].as = q[i].file
      BY <1>b, <2>2
    <2>4. HasCopy(q, i, q[i].file, copiesNow)
      <3>1. CASE p[1].op = "clear"
        BY <1>3, <1>a, <2>2, <3>1 DEF HasCopy
      <3>2. CASE p[1].op # "clear"
        BY <1>7, <2>2, <3>2
      <3> QED
        BY <3>1, <3>2
    <2> QED
      BY <2>2, <2>3, <2>4
  <1>9. ClearJustified(q, i, copiesNow)
    <2>1. CASE p[1].op = "clear"
      BY <1>3, <1>4, <2>1 DEF Justified, ClearJustified
    <2>2. CASE p[1].op # "clear"
      <3>1. SUFFICES ASSUME q[i].op = "clear"
                     PROVE  /\ q[i].as = q[i].file
                            /\ q[i].file \in Files
                            /\ HasCopy(q, i, q[i].file, copiesNow)
                            /\ \A j \in 1 .. i - 1 : q[j].op # "clear"
        BY DEF ClearJustified
      <3>2. /\ q[i].as = q[i].file
            /\ q[i].file \in Files
            /\ HasCopy(p, i + 1, q[i].file, copies)
            /\ \A j \in 1 .. i : p[j].op # "clear"
        BY <1>3, <1>4, <1>a, <3>1 DEF Justified, ClearJustified
      <3>3. \A j \in 1 .. i - 1 : q[j].op # "clear"
        BY <1>b, <3>2
      <3> QED
        BY <1>7, <2>2, <3>2, <3>3
    <2> QED
      BY <2>1, <2>2
  <1> QED
    BY <1>5, <1>6, <1>8, <1>9 DEF Justified

LEMMA MoreIsThere ==
    ASSUME NEW p, NEW there, NEW copies, Careful(p, there, copies),
           NEW thereNow, \A k \in Kinds : there[k] \subseteq thereNow[k],
           NEW copiesNow, copies \subseteq copiesNow
    PROVE  Careful(p, thereNow, copiesNow)
  <1>1. SUFFICES ASSUME NEW i \in 1 .. Len(p) PROVE Justified(p, i, thereNow, copiesNow)
    BY DEF Careful
  <1>2. Justified(p, i, there, copies)
    BY DEF Careful
  <1>3. RecordJustified(p, i, thereNow) /\ ReadJustified(p, i)
        /\ DeployJustified(p, i) /\ ChangeJustified(p, i)
    BY <1>2 DEF Justified, RecordJustified
  <1>4. StoreJustified(p, i, copiesNow) /\ ClearJustified(p, i, copiesNow)
    BY <1>2 DEF Justified, StoreJustified, ClearJustified, HasCopy
  <1> QED
    BY <1>3, <1>4 DEF Justified

(***************************************************************************)
(* The programs                                                            *)
(***************************************************************************)
NothingYet == [kind \in Kinds |-> {}]

\* A step that needs nothing before it.
Mild(st) ==
    \/ st.op \in {"need", "save", "call", "attach", "check", "set", "checkRole", "grantRole"}
    \/ st.op = "read" /\ st.file \in Files
    \/ st.op = "deploy" /\ st.into \subseteq {"address", "proxyAdmin"}

MildProgram(p) == IsProgram(p) /\ \A i \in 1 .. Len(p) : Mild(p[i])

\* Careful wherever and whenever it is started.
AlwaysCareful(p) == Careful(p, NothingYet, {})

LEMMA Joined ==
    ASSUME NEW p, NEW q, IsProgram(p), IsProgram(q)
    PROVE  /\ IsProgram(p \o q)
           /\ Len(p) \in Nat /\ Len(q) \in Nat /\ Len(p \o q) = Len(p) + Len(q)
           /\ \A i \in 1 .. Len(p) : (p \o q)[i] = p[i]
           /\ \A i \in 1 .. Len(q) : (p \o q)[Len(p) + i] = q[i]
           /\ \A i \in 1 .. Len(p \o q) :
                 i \in 1 .. Len(p) \/ (i - Len(p) \in 1 .. Len(q)
                                         /\ (p \o q)[i] = q[i - Len(p)])
  <1>1. PICK S : p \in Seq(S)
    BY DEF IsProgram
  <1>2. PICK T : q \in Seq(T)
    BY DEF IsProgram
  <1>3. p \in Seq(S \cup T) /\ q \in Seq(S \cup T)
    BY <1>1, <1>2
  <1>4. p \o q \in Seq(S \cup T)
    BY <1>3
  <1> QED
    BY <1>3, <1>4 DEF IsProgram

LEMMA TupleIsProgram ==
    /\ \A a : IsProgram(<<a>>) /\ Len(<<a>>) = 1 /\ <<a>>[1] = a
    /\ \A a, b : IsProgram(<<a, b>>)
    /\ \A a, b, c : IsProgram(<<a, b, c>>)
    /\ \A a, b, c, d : IsProgram(<<a, b, c, d>>)
    /\ \A a, b, c, d, e : IsProgram(<<a, b, c, d, e>>)
    /\ \A a, b, c, d, e, f : IsProgram(<<a, b, c, d, e, f>>)
  <1>1. ASSUME NEW a PROVE <<a>> \in Seq({a})
    OBVIOUS
  <1>2. ASSUME NEW a, NEW b PROVE <<a, b>> \in Seq({a, b})
    OBVIOUS
  <1>3. ASSUME NEW a, NEW b, NEW c PROVE <<a, b, c>> \in Seq({a, b, c})
    OBVIOUS
  <1>4. ASSUME NEW a, NEW b, NEW c, NEW d PROVE <<a, b, c, d>> \in Seq({a, b, c, d})
    OBVIOUS
  <1>5. ASSUME NEW a, NEW b, NEW c, NEW d, NEW e
        PROVE  <<a, b, c, d, e>> \in Seq({a, b, c, d, e})
    OBVIOUS
  <1>6. ASSUME NEW a, NEW b, NEW c, NEW d, NEW e, NEW f
        PROVE  <<a, b, c, d, e, f>> \in Seq({a, b, c, d, e, f})
    OBVIOUS
  <1> QED
    BY <1>1, <1>2, <1>3, <1>4, <1>5, <1>6 DEF IsProgram

LEMMA MildTuples ==
    /\ MildProgram(<<>>)
    /\ \A a : Mild(a) => MildProgram(<<a>>)
    /\ \A a, b : Mild(a) /\ Mild(b) => MildProgram(<<a, b>>)
    /\ \A a, b, c : Mild(a) /\ Mild(b) /\ Mild(c) => MildProgram(<<a, b, c>>)
  <1>0. MildProgram(<<>>)
    <2>1. <<>> \in Seq({}) /\ Len(<<>>) = 0
      OBVIOUS
    <2> QED
      BY <2>1 DEF MildProgram, IsProgram
  <1>1. ASSUME NEW a, Mild(a) PROVE MildProgram(<<a>>)
    BY <1>1, TupleIsProgram DEF MildProgram
  <1>2. ASSUME NEW a, NEW b, Mild(a), Mild(b) PROVE MildProgram(<<a, b>>)
    BY <1>2, TupleIsProgram DEF MildProgram
  <1>3. ASSUME NEW a, NEW b, NEW c, Mild(a), Mild(b), Mild(c) PROVE MildProgram(<<a, b, c>>)
    BY <1>3, TupleIsProgram DEF MildProgram
  <1> QED
    BY <1>0, <1>1, <1>2, <1>3

LEMMA MildJoined ==
    ASSUME NEW p, NEW q, MildProgram(p), MildProgram(q) PROVE MildProgram(p \o q)
  BY Joined DEF MildProgram

LEMMA MildSteps ==
    /\ \A f \in Files : Mild(Read(f))
    /\ \A x : Mild(Need(x)) /\ Mild(Call(x)) /\ Mild(Attach(x)) /\ Mild(Save(x))
    /\ \A x, y : Mild(Plain(x, y)) /\ Mild(Proxied(x, y))
    /\ \A x, y, z : Mild(Set(x, y, z)) /\ Mild(ProxiedAs(x, y, z))
  BY DEF Mild, Read, Need, Call, Attach, Save, Plain, Proxied, Set, ProxiedAs, DeployTo

LEMMA MildIsCareful ==
    ASSUME NEW p, MildProgram(p) PROVE AlwaysCareful(p)
  <1>1. SUFFICES ASSUME NEW i \in 1 .. Len(p) PROVE Justified(p, i, NothingYet, {})
    BY DEF AlwaysCareful, Careful, MildProgram
  <1>2. Mild(p[i])
    BY DEF MildProgram
  <1> QED
    BY <1>2 DEF Mild, Justified, RecordJustified, ReadJustified, StoreJustified,
                ClearJustified, DeployJustified, ChangeJustified

\* A careful program may go on with steps that need nothing.
LEMMA MildAfter ==
    ASSUME NEW p, AlwaysCareful(p), NEW q, MildProgram(q)
    PROVE  AlwaysCareful(p \o q)
  <1>1. /\ IsProgram(p \o q) /\ Len(p) \in Nat /\ Len(q) \in Nat
        /\ \A i \in 1 .. Len(p) : (p \o q)[i] = p[i]
        /\ \A i \in 1 .. Len(p \o q) :
              i \in 1 .. Len(p) \/ (i - Len(p) \in 1 .. Len(q)
                                      /\ (p \o q)[i] = q[i - Len(p)])
    BY Joined DEF AlwaysCareful, Careful, MildProgram
  <1> DEFINE r == p \o q
  <1>2. SUFFICES ASSUME NEW i \in 1 .. Len(r) PROVE Justified(r, i, NothingYet, {})
    BY <1>1 DEF AlwaysCareful, Careful
  <1> HIDE DEF r
  <1>3. CASE i \in 1 .. Len(p)
    <2>1. Justified(p, i, NothingYet, {})
      BY <1>3 DEF AlwaysCareful, Careful
    <2>2. r[i] = p[i] /\ \A j \in 1 .. i - 1 : r[j] = p[j]
      BY <1>1, <1>3 DEF r
    <2> QED
      BY <2>1, <2>2 DEF Justified, RecordJustified, ReadJustified, StoreJustified,
                        ClearJustified, DeployJustified, ChangeJustified, HasCopy
  <1>4. CASE i - Len(p) \in 1 .. Len(q) /\ r[i] = q[i - Len(p)]
    <2>1. Mild(r[i])
      BY <1>4 DEF MildProgram
    <2> QED
      BY <2>1 DEF Mild, Justified, RecordJustified, ReadJustified, StoreJustified,
                  ClearJustified, DeployJustified, ChangeJustified
  <1> QED
    BY <1>1, <1>2, <1>3, <1>4 DEF r

\* Steps that need nothing, then a store of a file read at the beginning.
LEMMA StoredAtLast ==
    ASSUME NEW f \in Files, NEW p, MildProgram(p), Len(p) >= 1, p[1] = Read(f)
    PROVE  AlwaysCareful(p \o <<Store(f)>>)
  <1> DEFINE q == <<Store(f)>>
             r == p \o q
  <1>0. IsProgram(q) /\ Len(q) = 1 /\ q[1] = Store(f)
    BY TupleIsProgram
  <1> HIDE DEF q
  <1>1. /\ IsProgram(r) /\ Len(p) \in Nat
        /\ \A i \in 1 .. Len(p) : r[i] = p[i]
        /\ \A i \in 1 .. Len(r) : i \in 1 .. Len(p) \/ (i = Len(p) + 1 /\ r[i] = Store(f))
    <2>1. /\ IsProgram(r) /\ Len(p) \in Nat
          /\ \A i \in 1 .. Len(p) : r[i] = p[i]
          /\ \A i \in 1 .. Len(r) : i \in 1 .. Len(p)
                \/ (i - Len(p) \in 1 .. Len(q) /\ r[i] = q[i - Len(p)])
      BY <1>0, Joined DEF MildProgram
    <2> HIDE DEF r
    <2> QED
      BY <1>0, <2>1
  <1> HIDE DEF r
  <1>2. SUFFICES ASSUME NEW i \in 1 .. Len(r) PROVE Justified(r, i, NothingYet, {})
    BY <1>1 DEF AlwaysCareful, Careful, r, q
  <1>3. CASE i \in 1 .. Len(p)
    <2>1. Mild(r[i])
      BY <1>1, <1>3 DEF MildProgram
    <2> QED
      BY <2>1 DEF Mild, Justified, RecordJustified, ReadJustified, StoreJustified,
                  ClearJustified, DeployJustified, ChangeJustified
  <1>4. CASE i = Len(p) + 1 /\ r[i] = Store(f)
    <2>1. 1 \in 1 .. i - 1 /\ r[1] = Read(f)
          /\ \A j \in 1 .. i - 1 : j \in 1 .. Len(p) /\ r[j] = p[j] /\ Mild(r[j])
      BY <1>1, <1>4 DEF MildProgram
    <2>2. HasCopy(r, i, f, {})
      BY <2>1 DEF HasCopy, Read
    <2>3. \A j \in 1 .. i - 1 : r[j].op # "clear"
      BY <2>1 DEF Mild
    <2> QED
      BY <1>4, <2>2, <2>3 DEF Store, Justified, RecordJustified, ReadJustified,
             StoreJustified, ClearJustified, DeployJustified, ChangeJustified
  <1> QED
    BY <1>1, <1>2, <1>3, <1>4

LEMMA ScriptIsCareful ==
    ASSUME NEW names, NEW deploys, MildProgram(deploys)
    PROVE  AlwaysCareful(Script(names, deploys))
  <1> DEFINE first == <<Read("address")>>
             needs == IF names = {} THEN <<>> ELSE <<Need(names)>>
             p == first \o needs \o deploys
  <1>1. "address" \in Files
    BY DEF Files
  <1>2. MildProgram(first) /\ MildProgram(needs)
    BY <1>1, MildTuples, MildSteps
  <1>3. IsProgram(first) /\ Len(first) = 1 /\ first[1] = Read("address")
    BY TupleIsProgram
  <1> HIDE DEF first, needs
  <1>4. MildProgram(first \o needs) /\ MildProgram(p)
    BY <1>2, MildJoined
  <1>5. Len(first \o needs) >= 1 /\ (first \o needs)[1] = Read("address")
    BY <1>2, <1>3, Joined DEF MildProgram
  <1>6. Len(p) >= 1 /\ p[1] = Read("address")
    <2> DEFINE h == first \o needs
    <2>1. IsProgram(h) /\ IsProgram(deploys) /\ Len(h) >= 1 /\ h[1] = Read("address")
      BY <1>4, <1>5 DEF MildProgram
    <2> HIDE DEF h
    <2>2. Len(h \o deploys) >= 1 /\ (h \o deploys)[1] = Read("address")
      BY <2>1, Joined
    <2> QED
      BY <2>2 DEF h
  <1> HIDE DEF p
  <1>7. AlwaysCareful(p \o <<Store("address")>>)
    BY <1>1, <1>4, <1>6, StoredAtLast
  <1> QED
    BY <1>7 DEF Script, p, first, needs

LEMMA ScriptsAreCareful ==
    ASSUME NEW net, NEW x \in ScriptOf(net) PROVE AlwaysCareful(x.steps)
  <1>0. {"address", "proxyAdmin"} \subseteq Files
    BY DEF Files
  <1>1. /\ Mild(Read("address")) /\ Mild(Read("proxyAdmin"))
        /\ \A a, b, c : MildProgram(AddMinterBurner(a, b, c))
    <2>1. Mild(Read("address")) /\ Mild(Read("proxyAdmin"))
      BY <1>0, MildSteps
    <2>2. ASSUME NEW a, NEW b, NEW c PROVE MildProgram(AddMinterBurner(a, b, c))
      <3>1. /\ Mild([op |-> "checkRole", role |-> a, token |-> b, entry |-> c])
            /\ Mild([op |-> "grantRole", role |-> a, token |-> b, entry |-> c])
        BY DEF Mild
      <3> QED
        BY <2>1, <3>1, MildTuples DEF AddMinterBurner
    <2> QED
      BY <2>1, <2>2
  <1>2. /\ MildProgram(SetVRFMock) /\ MildProgram(SetTreasury) /\ MildProgram(SetVRF)
        /\ MildProgram(SetFDPolicyFlow) /\ MildProgram(SetFDPolicyToken)
        /\ MildProgram(SetFDOracle) /\ MildProgram(SetFDInsurancePool)
        /\ MildProgram(SetIncomeMakerInFactory)
    BY <1>1, MildSteps, MildTuples
       DEF SetVRFMock, SetTreasury, SetVRF, SetFDPolicyFlow, SetFDPolicyToken,
           SetFDOracle, SetFDInsurancePool, SetIncomeMakerInFactory
  <1>3. AlwaysCareful(Deploy00ProxyAdmin)
    <2> DEFINE st == DeployTo({"address", "proxyAdmin"}, "ProxyAdmin", "ProxyAdmin", "none", NoArgs)
               p == <<Read("address"), Read("proxyAdmin"), st, Store("address"),
                      Store("proxyAdmin")>>
    <2>1. /\ p[1] = Read("address") /\ p[2] = Read("proxyAdmin") /\ p[3] = st
          /\ p[4] = Store("address") /\ p[5] = Store("proxyAdmin") /\ Len(p) = 5
          /\ IsProgram(p)
      BY TupleIsProgram
    <2>2. /\ p[1].op = "read" /\ p[1].file = "address" /\ p[2].op = "read"
          /\ p[2].file = "proxyAdmin" /\ Mild(p[1]) /\ Mild(p[2])
          /\ p[3].op = "deploy" /\ p[3].into = {"address", "proxyAdmin"}
          /\ p[4].op = "store" /\ p[4].file = "address"
          /\ p[5].op = "store" /\ p[5].file = "proxyAdmin"
      BY <1>1, <2>1 DEF Read, DeployTo, Store
    <2> HIDE DEF p, st
    <2>3. SUFFICES ASSUME NEW i \in 1 .. 5 PROVE Justified(p, i, NothingYet, {})
      BY <2>1 DEF AlwaysCareful, Careful, Deploy00ProxyAdmin, p, st
    <2>4. HasCopy(p, 4, "address", {}) /\ HasCopy(p, 5, "proxyAdmin", {})
      BY <2>2 DEF HasCopy
    <2>5. \A j \in 1 .. 5 : p[j].op # "clear"
      BY <2>2
    <2>6. i \in {1, 2, 3, 4, 5}
      OBVIOUS
    <2> QED
      BY <1>0, <2>2, <2>4, <2>5, <2>6
         DEF Justified, RecordJustified, ReadJustified, StoreJustified, ClearJustified,
             DeployJustified, ChangeJustified
  <1>4. /\ AlwaysCareful(Deploy01Tokens(net)) /\ AlwaysCareful(Deploy02EmergencyPool)
        /\ AlwaysCareful(Deploy03Farming) /\ AlwaysCareful(Deploy06FlightDelay)
    BY MildSteps, MildTuples, ScriptIsCareful
       DEF Deploy01Tokens, Deploy02EmergencyPool, Deploy03Farming, Deploy06FlightDelay
  <1>5. /\ AlwaysCareful(Deploy07PolicyFlow) /\ AlwaysCareful(Deploy09PriceGetter)
        /\ AlwaysCareful(Deploy10NaughtyPrice(net)) /\ AlwaysCareful(Deploy11Staking)
        /\ AlwaysCareful(Deploy12VeDEG) /\ AlwaysCareful(Deploy13IncomeSharingVault)
    <2>1. Mild(DeployTo({"address"}, "PolicyFlow", "PolicyFlow", "execute",
                          [insurancePool |-> Book("InsurancePool"),
                           policyToken |-> Book("FDPolicyToken"),
                           sigManager |-> Book("SigManager"),
                           buyerToken |-> Book("BuyerToken")]))
      BY DEF Mild, DeployTo
    <2> QED
      BY <2>1, MildSteps, MildTuples, ScriptIsCareful
         DEF Deploy07PolicyFlow, Deploy09PriceGetter, Deploy10NaughtyPrice, Deploy11Staking,
             Deploy12VeDEG, Deploy13IncomeSharingVault
  <1>6. /\ AlwaysCareful(Deploy15ILM) /\ AlwaysCareful(Deploy16IDOPriceGetter)
        /\ AlwaysCareful(Deploy17DoubleRewarder) /\ AlwaysCareful(Deploy18MockERC20)
        /\ AlwaysCareful(Deploy19Shield) /\ AlwaysCareful(Deploy20IncomeSharingCompensate)
        /\ AlwaysCareful(Deploy21ArbitraryPriceGetter)
    BY MildSteps, MildTuples, ScriptIsCareful
       DEF Deploy15ILM, Deploy16IDOPriceGetter, Deploy17DoubleRewarder, Deploy18MockERC20,
           Deploy19Shield, Deploy20IncomeSharingCompensate, Deploy21ArbitraryPriceGetter
  <1>7. AlwaysCareful(Deploy04PurchaseIncentive(net))
    BY <1>1, MildSteps, MildTuples, ScriptIsCareful, MildAfter DEF Deploy04PurchaseIncentive
  <1>8. AlwaysCareful(Deploy05LuckyBox(net))
    BY <1>2, MildSteps, MildTuples, ScriptIsCareful, MildAfter DEF Deploy05LuckyBox
  <1>9. AlwaysCareful(Deploy08FDOracle)
    BY <1>2, MildSteps, MildTuples, ScriptIsCareful, MildAfter DEF Deploy08FDOracle
  <1>10. AlwaysCareful(Deploy14IncomeMaker)
    BY <1>2, MildSteps, MildTuples, ScriptIsCareful, MildAfter DEF Deploy14IncomeMaker
  <1> QED
    BY <1>3, <1>4, <1>5, <1>6, <1>7, <1>8, <1>9, <1>10 DEF ScriptOf, Named

LEMMA TasksAreMild ==
    ASSUME NEW net, NEW x \in TaskOf(net) PROVE MildProgram(x.steps)
  <1>1. Mild(Read("address")) /\ MildProgram(<<Read("address")>>)
    <2>1. "address" \in Files
      BY DEF Files
    <2> QED
      BY <2>1, MildSteps, MildTuples
  <1>2. \A target : MildProgram(Send(target))
    BY <1>1, MildSteps, MildTuples DEF Send
  <1>3. \A target, tasks : \A y \in Sends(target, tasks) : MildProgram(y.steps)
    BY <1>2 DEF Sends, Named
  <1>4. \A a, b, c : MildProgram(AddMinterBurner(a, b, c))
    <2> SUFFICES ASSUME NEW a, NEW b, NEW c PROVE MildProgram(AddMinterBurner(a, b, c))
      OBVIOUS
    <2>1. /\ Mild([op |-> "checkRole", role |-> a, token |-> b, entry |-> c])
          /\ Mild([op |-> "grantRole", role |-> a, token |-> b, entry |-> c])
      BY DEF Mild
    <2> QED
      BY <1>1, <2>1, MildTuples DEF AddMinterBurner
  <1>5. /\ MildProgram(SetVRFMock) /\ MildProgram(SetTreasury) /\ MildProgram(SetVRF)
        /\ MildProgram(SetFDPolicyFlow) /\ MildProgram(SetFDPolicyToken)
        /\ MildProgram(SetFDOracle) /\ MildProgram(SetFDInsurancePool)
        /\ MildProgram(SetIncomeMakerInFactory)
    BY <1>1, MildSteps, MildTuples
       DEF SetVRFMock, SetTreasury, SetVRF, SetFDPolicyFlow, SetFDPolicyToken,
           SetFDOracle, SetFDInsurancePool, SetIncomeMakerInFactory
  <1>6. ASSUME x \in NaughtyPriceWiring \cup CoreIncomeWiring \cup AddPriceFeed
                      \cup ArbitraryWiring \cup LotteryWiring \cup SetOperator
                      \cup FlightWiring \cup IncomeWiring
        PROVE  MildProgram(x.steps)
    BY <1>1, <1>2, <1>5, <1>6, MildSteps, MildTuples
       DEF NaughtyPriceWiring, CoreIncomeWiring, AddPriceFeed, ArbitraryWiring,
           LotteryWiring, SetOperator, FlightWiring, IncomeWiring, Named
  <1>7. ASSUME x \in FarmingTasks \cup DoubleRewardTasks \cup TokenRoles \cup MintTasks(net)
                      \cup LotteryRoundTasks \cup RequestRandom \cup LotteryTicketTasks
                      \cup PurchaseIncentiveTasks
        PROVE  MildProgram(x.steps)
    BY <1>1, <1>2, <1>3, <1>4, <1>7, MildSteps, MildTuples
       DEF FarmingTasks, DoubleRewardTasks, TokenRoles, MintTasks, LotteryRoundTasks,
           RequestRandom, LotteryTicketTasks, PurchaseIncentiveTasks, Named
  <1>8. ASSUME x \in IncomePoolTasks \cup UpdateLastRewardBalance \cup ConvertIncome
                      \cup VeDEGTasks \cup VeDEGLockTasks \cup FlightOracleTasks
                      \cup SetFrozenTime \cup SignerTasks \cup PolicyFlowTasks \cup CoreTasks
        PROVE  MildProgram(x.steps)
    BY <1>1, <1>2, <1>3, <1>8, MildSteps, MildTuples
       DEF IncomePoolTasks, UpdateLastRewardBalance, ConvertIncome, VeDEGTasks,
           VeDEGLockTasks, FlightOracleTasks, SetFrozenTime, SignerTasks, PolicyFlowTasks,
           CoreTasks, Named
  <1>9. ASSUME x \in AddStablecoin \cup NPUserAction(net) \cup PriceFeedTasks
                      \cup SetIDOPrice \cup ArbitraryFeedTasks \cup StakingTasks
                      \cup ShieldTasks \cup EmergencyPoolTasks \cup ILMTasks \cup ProxyTasks
        PROVE  MildProgram(x.steps)
    BY <1>1, <1>2, <1>3, <1>9, MildSteps, MildTuples
       DEF AddStablecoin, NPUserAction, PriceFeedTasks, SetIDOPrice, ArbitraryFeedTasks,
           StakingTasks, ShieldTasks, EmergencyPoolTasks, ILMTasks, ProxyTasks, Named
  <1> QED
    BY <1>6, <1>7, <1>8, <1>9 DEF TaskOf

LEMMA ClearsAreCareful ==
    ASSUME NEW x \in ClearRecord, x.name # "NaughtyPool" PROVE AlwaysCareful(x.steps)
  <1>1. PICK f \in Files : x.steps = Clear(f, f)
    BY DEF ClearRecord, Named, Files
  <1> DEFINE p == Clear(f, f)
  <1>2. /\ IsProgram(p) /\ Len(p) = 3
        /\ p[1].op = "read" /\ p[1].file = f
        /\ p[2].op = "clear" /\ p[2].file = f /\ p[2].as = f
        /\ p[3].op = "store" /\ p[3].file = f
    BY TupleIsProgram DEF Clear, Read, Store
  <1> HIDE DEF p
  <1>3. HasCopy(p, 2, f, {}) /\ HasCopy(p, 3, f, {})
    BY <1>2 DEF HasCopy
  <1>4. ASSUME NEW i \in 1 .. 3 PROVE Justified(p, i, NothingYet, {})
    <2>1. i \in {1, 2, 3}
      OBVIOUS
    <2> QED
      BY <1>2, <1>3, <2>1
         DEF Justified, RecordJustified, ReadJustified, StoreJustified, ClearJustified,
             DeployJustified, ChangeJustified
  <1> QED
    BY <1>1, <1>2, <1>4 DEF AlwaysCareful, Careful, p

\* Transactions and views, one of which finds the thing; then its record and
\* the store of the list.
LEMMA RecordedAtLast ==
    ASSUME NEW p, IsProgram(p), NEW n \in Nat, Len(p) = n + 2,
           NEW kind \in Kinds, NEW key, NEW copies,
           \A i \in 1 .. n : \/ Mild(p[i])
                             \/ p[i].op \in {"create", "alter"} /\ p[i].kind \in Kinds,
           \E j \in 1 .. n : Finds(p[j], kind, key),
           p[n + 1].op = "record", p[n + 1].kind = kind,
           p[n + 1].file = ListOf[kind], p[n + 1].key = key,
           p[n + 2].op = "store", p[n + 2].file = ListOf[kind],
           HasCopy(p, n + 2, ListOf[kind], copies)
    PROVE  Careful(p, NothingYet, copies)
  <1>1. SUFFICES ASSUME NEW i \in 1 .. n + 2 PROVE Justified(p, i, NothingYet, copies)
    BY DEF Careful
  <1>2. ListOf[kind] \in Files
    BY DEF Kinds, ListOf, Files
  <1>3. \A j \in 1 .. n : p[j].op # "clear"
    BY DEF Mild
  <1>4. CASE i \in 1 .. n
    <2>1. p[i].op \notin {"record", "store", "clear"}
      BY <1>4 DEF Mild
    <2> QED
      BY <1>4, <2>1 DEF Mild, Justified, RecordJustified, ReadJustified, StoreJustified,
                        ClearJustified, DeployJustified, ChangeJustified
  <1>5. CASE i = n + 1
    <2>1. (n + 1) - 1 = n
      OBVIOUS
    <2> QED
      BY <1>5, <2>1
         DEF Justified, RecordJustified, ReadJustified, StoreJustified,
             ClearJustified, DeployJustified, ChangeJustified
  <1>6. CASE i = n + 2
    <2>1. \A j \in 1 .. i - 1 : p[j].op # "clear"
      BY <1>3, <1>6
    <2> QED
      BY <1>2, <1>6, <2>1
         DEF Justified, RecordJustified, ReadJustified, StoreJustified,
             ClearJustified, DeployJustified, ChangeJustified
  <1> QED
    BY <1>4, <1>5, <1>6

LEMMA ListStepsAre ==
    /\ Mild(Read("address")) /\ Mild(Read("NPToken")) /\ Mild(Read("NPPool"))
    /\ Mild(Read("ILM"))
    /\ \A x : Mild(Attach(x))
    /\ \A x, y : Mild(Check(x, y)) /\ Finds(Check(x, y), x, y)
    /\ \A x, y, z : Create(x, y, z).op = "create" /\ Create(x, y, z).kind = x
    /\ \A x, y, z : Alter(x, y, z).op = "alter" /\ Alter(x, y, z).kind = x
    /\ \A x, y, z : Finds(Create(x, y, z), x, z) /\ Finds(Alter(x, y, z), x, z)
  BY DEF Mild, Read, Attach, Check, Create, Alter, Finds, Files

LEMMA DeployNPTokenIsCareful ==
    ASSUME NEW typed, NEW named PROVE AlwaysCareful(DeployNPToken(typed, named))
  <1> DEFINE p == DeployNPToken(typed, named)
  <1>1. /\ IsProgram(p) /\ Len(p) = 6
        /\ p[1] = Read("address") /\ p[2] = Read("NPToken")
        /\ p[3] = Create("token", "PolicyCoreUpgradeable", named) /\ p[4] = Check("token", typed)
        /\ p[5] = RecordNew("token", "NPToken", typed) /\ p[6] = Store("NPToken")
    BY TupleIsProgram DEF DeployNPToken
  <1> HIDE DEF p
  <1>2. "token" \in Kinds /\ ListOf["token"] = "NPToken"
    BY DEF Kinds, ListOf
  <1>3. /\ p[5].op = "record" /\ p[5].kind = "token" /\ p[5].file = "NPToken"
        /\ p[5].key = typed /\ p[6].op = "store" /\ p[6].file = "NPToken"
        /\ p[2].op = "read" /\ p[2].file = "NPToken"
    BY <1>1 DEF RecordNew, Record, Store, Read
  <1>4. HasCopy(p, 6, "NPToken", {})
    BY <1>3 DEF HasCopy
  <1>5. PICK n \in Nat : n = 4
    OBVIOUS
  <1>6. \A i \in 1 .. n : Mild(p[i]) \/ (p[i].op \in {"create", "alter"} /\ p[i].kind \in Kinds)
    <2> SUFFICES ASSUME NEW i \in 1 .. n
                 PROVE  Mild(p[i]) \/ (p[i].op \in {"create", "alter"} /\ p[i].kind \in Kinds)
      OBVIOUS
    <2>1. i \in {1, 2, 3, 4}
      BY <1>5
    <2> QED
      BY <1>1, <1>2, <2>1, ListStepsAre
  <1>7. \E j \in 1 .. n : Finds(p[j], "token", typed)
    BY <1>1, <1>5, ListStepsAre
  <1>8. Len(p) = n + 2 /\ n + 1 = 5 /\ n + 2 = 6
    BY <1>1, <1>5
  <1>9. Careful(p, NothingYet, {})
    BY <1>1, <1>2, <1>3, <1>4, <1>6, <1>7, <1>8, RecordedAtLast
  <1> QED
    BY <1>9 DEF AlwaysCareful, p

LEMMA DeployNPPoolIsCareful ==
    ASSUME NEW name PROVE AlwaysCareful(DeployNPPool(name))
  <1> DEFINE p == DeployNPPool(name)
  <1>1. /\ IsProgram(p) /\ Len(p) = 6
        /\ p[1] = Read("address")
        /\ p[2] = Read("NPPool")
        /\ p[3] = Create("pool", "PolicyCoreUpgradeable", name)
        /\ p[4] = Attach("NaughtyFactoryUpgradeable")
        /\ p[5] = RecordNew("pool", "NPPool", name)
        /\ p[6] = Store("NPPool")
    BY TupleIsProgram DEF DeployNPPool
  <1> HIDE DEF p
  <1>2. "pool" \in Kinds /\ ListOf["pool"] = "NPPool"
    BY DEF Kinds, ListOf
  <1>3. /\ p[5].op = "record" /\ p[5].kind = "pool" /\ p[5].file = "NPPool"
        /\ p[5].key = name /\ p[6].op = "store" /\ p[6].file = "NPPool"
        /\ p[2].op = "read" /\ p[2].file = "NPPool"
    BY <1>1 DEF RecordNew, Record, Store, Read
  <1>4. HasCopy(p, 6, "NPPool", {})
    BY <1>3 DEF HasCopy
  <1>5. PICK n \in Nat : n = 4
    OBVIOUS
  <1>6. \A i \in 1 .. n : Mild(p[i]) \/ (p[i].op \in {"create", "alter"} /\ p[i].kind \in Kinds)
    <2> SUFFICES ASSUME NEW i \in 1 .. n
                 PROVE  Mild(p[i]) \/ (p[i].op \in {"create", "alter"} /\ p[i].kind \in Kinds)
      OBVIOUS
    <2>1. i \in {1, 2, 3, 4}
      BY <1>5
    <2> QED
      BY <1>1, <1>2, <2>1, ListStepsAre
  <1>7. \E j \in 1 .. n : Finds(p[j], "pool", name)
    BY <1>1, <1>5, ListStepsAre
  <1>8. Len(p) = n + 2 /\ n + 1 = 5 /\ n + 2 = 6
    BY <1>1, <1>5
  <1>9. Careful(p, NothingYet, {})
    BY <1>1, <1>2, <1>3, <1>4, <1>6, <1>7, <1>8, RecordedAtLast
  <1> QED
    BY <1>9 DEF AlwaysCareful, p

LEMMA StartILMIsCareful ==
    ASSUME NEW name PROVE AlwaysCareful(StartILM(name))
  <1> DEFINE p == StartILM(name)
  <1>1. /\ IsProgram(p) /\ Len(p) = 5
        /\ p[1] = Read("address")
        /\ p[2] = Read("ILM")
        /\ p[3] = Create("ilm", "ILM", name)
        /\ p[4] = RecordNew("ilm", "ILM", name)
        /\ p[5] = Store("ILM")
    BY TupleIsProgram DEF StartILM
  <1> HIDE DEF p
  <1>2. "ilm" \in Kinds /\ ListOf["ilm"] = "ILM"
    BY DEF Kinds, ListOf
  <1>3. /\ p[4].op = "record" /\ p[4].kind = "ilm" /\ p[4].file = "ILM"
        /\ p[4].key = name /\ p[5].op = "store" /\ p[5].file = "ILM"
        /\ p[2].op = "read" /\ p[2].file = "ILM"
    BY <1>1 DEF RecordNew, Record, Store, Read
  <1>4. HasCopy(p, 5, "ILM", {})
    BY <1>3 DEF HasCopy
  <1>5. PICK n \in Nat : n = 3
    OBVIOUS
  <1>6. \A i \in 1 .. n : Mild(p[i]) \/ (p[i].op \in {"create", "alter"} /\ p[i].kind \in Kinds)
    <2> SUFFICES ASSUME NEW i \in 1 .. n
                 PROVE  Mild(p[i]) \/ (p[i].op \in {"create", "alter"} /\ p[i].kind \in Kinds)
      OBVIOUS
    <2>1. i \in {1, 2, 3}
      BY <1>5
    <2> QED
      BY <1>1, <1>2, <2>1, ListStepsAre
  <1>7. \E j \in 1 .. n : Finds(p[j], "ilm", name)
    BY <1>1, <1>5, ListStepsAre
  <1>8. Len(p) = n + 2 /\ n + 1 = 4 /\ n + 2 = 5
    BY <1>1, <1>5
  <1>9. Careful(p, NothingYet, {})
    BY <1>1, <1>2, <1>3, <1>4, <1>6, <1>7, <1>8, RecordedAtLast
  <1> QED
    BY <1>9 DEF AlwaysCareful, p

LEMMA StopILMIsCareful ==
    ASSUME NEW name PROVE AlwaysCareful(StopILM(name))
  <1> DEFINE p == StopILM(name)
  <1>1. /\ IsProgram(p) /\ Len(p) = 6
        /\ p[1] = Read("address")
        /\ p[2] = Read("ILM")
        /\ p[3] = Check("token", name)
        /\ p[4] = Alter("ilm", "ILM", name)
        /\ p[5] = RecordChange("ilm", "ILM", name)
        /\ p[6] = Store("ILM")
    BY TupleIsProgram DEF StopILM
  <1> HIDE DEF p
  <1>2. "ilm" \in Kinds /\ ListOf["ilm"] = "ILM"
    BY DEF Kinds, ListOf
  <1>3. /\ p[5].op = "record" /\ p[5].kind = "ilm" /\ p[5].file = "ILM"
        /\ p[5].key = name /\ p[6].op = "store" /\ p[6].file = "ILM"
        /\ p[2].op = "read" /\ p[2].file = "ILM"
    BY <1>1 DEF RecordChange, Record, Store, Read
  <1>4. HasCopy(p, 6, "ILM", {})
    BY <1>3 DEF HasCopy
  <1>5. PICK n \in Nat : n = 4
    OBVIOUS
  <1>6. \A i \in 1 .. n : Mild(p[i]) \/ (p[i].op \in {"create", "alter"} /\ p[i].kind \in Kinds)
    <2> SUFFICES ASSUME NEW i \in 1 .. n
                 PROVE  Mild(p[i]) \/ (p[i].op \in {"create", "alter"} /\ p[i].kind \in Kinds)
      OBVIOUS
    <2>1. i \in {1, 2, 3, 4}
      BY <1>5
    <2> QED
      BY <1>1, <1>2, <2>1, ListStepsAre
  <1>7. \E j \in 1 .. n : Finds(p[j], "ilm", name)
    BY <1>1, <1>5, ListStepsAre
  <1>8. Len(p) = n + 2 /\ n + 1 = 5 /\ n + 2 = 6
    BY <1>1, <1>5
  <1>9. Careful(p, NothingYet, {})
    BY <1>1, <1>2, <1>3, <1>4, <1>6, <1>7, <1>8, RecordedAtLast
  <1> QED
    BY <1>9 DEF AlwaysCareful, p

\* These two were given the farming list when hardhat loaded their file.
LEMMA AddFarmingPoolIsCareful ==
    ASSUME NEW lp PROVE Careful(AddFarmingPool(lp), NothingYet, {"FarmingPool"})
  <1> DEFINE p == AddFarmingPool(lp)
  <1>1. /\ IsProgram(p) /\ Len(p) = 4
        /\ p[1] = Read("address")
        /\ p[2] = Create("farm", "FarmingPoolUpgradeable", lp)
        /\ p[3] = RecordNew("farm", "FarmingPool", lp)
        /\ p[4] = Store("FarmingPool")
    BY TupleIsProgram DEF AddFarmingPool
  <1> HIDE DEF p
  <1>2. "farm" \in Kinds /\ ListOf["farm"] = "FarmingPool"
    BY DEF Kinds, ListOf
  <1>3. /\ p[3].op = "record" /\ p[3].kind = "farm" /\ p[3].file = "FarmingPool"
        /\ p[3].key = lp /\ p[4].op = "store" /\ p[4].file = "FarmingPool"
    BY <1>1 DEF RecordNew, Record, Store
  <1>4. HasCopy(p, 4, "FarmingPool", {"FarmingPool"})
    BY <1>3 DEF HasCopy
  <1>5. PICK n \in Nat : n = 2
    OBVIOUS
  <1>6. \A i \in 1 .. n : Mild(p[i]) \/ (p[i].op \in {"create", "alter"} /\ p[i].kind \in Kinds)
    <2> SUFFICES ASSUME NEW i \in 1 .. n
                 PROVE  Mild(p[i]) \/ (p[i].op \in {"create", "alter"} /\ p[i].kind \in Kinds)
      OBVIOUS
    <2>1. i \in {1, 2}
      BY <1>5
    <2> QED
      BY <1>1, <1>2, <2>1, ListStepsAre
  <1>7. \E j \in 1 .. n : Finds(p[j], "farm", lp)
    BY <1>1, <1>5, ListStepsAre
  <1>8. Len(p) = n + 2 /\ n + 1 = 3 /\ n + 2 = 4
    BY <1>1, <1>5
  <1>9. Careful(p, NothingYet, {"FarmingPool"})
    BY <1>1, <1>2, <1>3, <1>4, <1>6, <1>7, <1>8, RecordedAtLast
  <1> QED
    BY <1>9 DEF p

LEMMA SetFarmingPoolDegisRewardIsCareful ==
    ASSUME NEW lp PROVE Careful(SetFarmingPoolDegisReward(lp), NothingYet, {"FarmingPool"})
  <1> DEFINE p == SetFarmingPoolDegisReward(lp)
  <1>1. /\ IsProgram(p) /\ Len(p) = 4
        /\ p[1] = Read("address")
        /\ p[2] = Alter("farm", "FarmingPoolUpgradeable", lp)
        /\ p[3] = RecordChange("farm", "FarmingPool", lp)
        /\ p[4] = Store("FarmingPool")
    BY TupleIsProgram DEF SetFarmingPoolDegisReward
  <1> HIDE DEF p
  <1>2. "farm" \in Kinds /\ ListOf["farm"] = "FarmingPool"
    BY DEF Kinds, ListOf
  <1>3. /\ p[3].op = "record" /\ p[3].kind = "farm" /\ p[3].file = "FarmingPool"
        /\ p[3].key = lp /\ p[4].op = "store" /\ p[4].file = "FarmingPool"
    BY <1>1 DEF RecordChange, Record, Store
  <1>4. HasCopy(p, 4, "FarmingPool", {"FarmingPool"})
    BY <1>3 DEF HasCopy
  <1>5. PICK n \in Nat : n = 2
    OBVIOUS
  <1>6. \A i \in 1 .. n : Mild(p[i]) \/ (p[i].op \in {"create", "alter"} /\ p[i].kind \in Kinds)
    <2> SUFFICES ASSUME NEW i \in 1 .. n
                 PROVE  Mild(p[i]) \/ (p[i].op \in {"create", "alter"} /\ p[i].kind \in Kinds)
      OBVIOUS
    <2>1. i \in {1, 2}
      BY <1>5
    <2> QED
      BY <1>1, <1>2, <2>1, ListStepsAre
  <1>7. \E j \in 1 .. n : Finds(p[j], "farm", lp)
    BY <1>1, <1>5, ListStepsAre
  <1>8. Len(p) = n + 2 /\ n + 1 = 3 /\ n + 2 = 4
    BY <1>1, <1>5
  <1>9. Careful(p, NothingYet, {"FarmingPool"})
    BY <1>1, <1>2, <1>3, <1>4, <1>6, <1>7, <1>8, RecordedAtLast
  <1> QED
    BY <1>9 DEF p

LEMMA FarmingListIsPreloaded ==
    ASSUME NEW lp, NEW p, p \in {AddFarmingPool(lp), SetFarmingPoolDegisReward(lp)}
    PROVE  "FarmingPool" \in DOMAIN Preloaded(p)
  <1>1. /\ Len(p) = 4 /\ DOMAIN p = 1 .. 4 /\ p[1] = Read("address")
        /\ p[2].op \in {"create", "alter"} /\ p[3].op = "record"
        /\ p[4] = Store("FarmingPool")
    BY DEF AddFarmingPool, SetFarmingPoolDegisReward, Create, Alter, RecordNew, RecordChange,
           Record
  <1>2. "FarmingPool" \in StoredBy(p)
    BY <1>1 DEF StoredBy, ToSet, Store
  <1>3. Read("FarmingPool") \notin ToSet(p)
    <2>1. ASSUME NEW i \in 1 .. 4 PROVE p[i] # Read("FarmingPool")
      <3>1. i \in {1, 2, 3, 4}
        OBVIOUS
      <3> QED
        BY <1>1, <3>1 DEF Read, Store
    <2> QED
      BY <1>1, <2>1 DEF ToSet
  <1> QED
    BY <1>2, <1>3 DEF Preloaded

(***************************************************************************)
(* Whatever an operator starts is careful, with the copies it starts with. *)
(***************************************************************************)
LEMMA JobsAreCareful ==
    ASSUME "NaughtyPool" \notin Tasks, NEW net, NEW j \in Jobs(net)
    PROVE  Careful(j.steps, NothingYet, DOMAIN Preloaded(j.steps))
  <1>1. ASSUME NEW p, AlwaysCareful(p) PROVE Careful(p, NothingYet, DOMAIN Preloaded(p))
    BY <1>1, MoreIsThere DEF AlwaysCareful
  <1>2. ASSUME NEW p \in ListTasks PROVE Careful(p, NothingYet, DOMAIN Preloaded(p))
    <2>1. CASE \E t, u : p \in {DeployNPToken(t, u), DeployNPPool(t), StartILM(t), StopILM(t)}
      BY <1>1, <2>1, DeployNPTokenIsCareful, DeployNPPoolIsCareful, StartILMIsCareful,
         StopILMIsCareful
    <2>2. ASSUME NEW lp, p \in {AddFarmingPool(lp), SetFarmingPoolDegisReward(lp)}
          PROVE  Careful(p, NothingYet, DOMAIN Preloaded(p))
      <3>1. Careful(p, NothingYet, {"FarmingPool"})
        BY <2>2, AddFarmingPoolIsCareful, SetFarmingPoolDegisRewardIsCareful
      <3> QED
        BY <2>2, <3>1, FarmingListIsPreloaded, MoreIsThere
    <2> QED
      BY <2>1, <2>2 DEF ListTasks
  <1>3. ASSUME NEW x \in AllTasks(net), x.name \in Tasks PROVE AlwaysCareful(x.steps)
    BY <1>3, TasksAreMild, MildIsCareful, ClearsAreCareful DEF AllTasks
  <1>4. \/ j.steps \in ListTasks
        \/ \E x \in AllTasks(net) : x.name \in Tasks /\ j.steps = x.steps
        \/ \E x \in ScriptOf(net) : j.steps = x.steps
    BY DEF Jobs
  <1> QED
    BY <1>1, <1>2, <1>3, <1>4, ScriptsAreCareful

(***************************************************************************)
(* The inductive invariant.  A copy is backed if all it names is on chain; *)
(* files are, and so are the copies sessions hold, whenever they were read. *)
(***************************************************************************)
Shaped(m) == m = [n \in Networks |-> [kind \in Kinds |-> m[n][kind]]]

\* What is on chain stays there.
Grown(m, now) ==
    /\ Shaped(now)
    /\ \A n \in Networks, kind \in Kinds : DOMAIN m[n][kind] \subseteq DOMAIN now[n][kind]

Created(m, n) == [kind \in Kinds |-> DOMAIN m[n][kind]]

Backed(copy, m, kind) ==
    DOMAIN copy = Networks /\ \A n \in Networks : DOMAIN copy[n] \subseteq DOMAIN m[n][kind]

CopiesBacked(seen, m) ==
    \A kind \in Kinds : ListOf[kind] \in DOMAIN seen => Backed(seen[ListOf[kind]], m, kind)

Fields == {"net", "job", "todo", "seen", "got", "owes", "alone"}

GoodSession(r, m) ==
    /\ DOMAIN r = Fields
    /\ r.todo # <<>> =>
          /\ r.net \in Networks
          /\ Careful(r.todo, Created(m, r.net), DOMAIN r.seen)
          /\ CopiesBacked(r.seen, m)

ListInv ==
    /\ Shaped(made)
    /\ DOMAIN files = Files
    /\ \A kind \in Kinds : Backed(files[ListOf[kind]], made, kind)
    /\ DOMAIN session = Sessions
    /\ \A s \in Sessions : GoodSession(session[s], made)

LEMMA StaysBacked ==
    ASSUME NEW m, NEW now, Grown(m, now)
    PROVE  /\ \A copy : \A kind \in Kinds : Backed(copy, m, kind) => Backed(copy, now, kind)
           /\ \A seen : CopiesBacked(seen, m) => CopiesBacked(seen, now)
           /\ \A n \in Networks : \A kind \in Kinds :
                 Created(m, n)[kind] \subseteq Created(now, n)[kind]
  <1>1. \A n \in Networks, kind \in Kinds : DOMAIN m[n][kind] \subseteq DOMAIN now[n][kind]
    BY DEF Grown
  <1>2. ASSUME NEW copy, NEW kind \in Kinds, Backed(copy, m, kind)
        PROVE  Backed(copy, now, kind)
    BY <1>1, <1>2 DEF Backed
  <1>3. \A seen : CopiesBacked(seen, m) => CopiesBacked(seen, now)
    BY <1>2 DEF CopiesBacked
  <1>4. \A n \in Networks : \A kind \in Kinds :
           Created(m, n)[kind] \subseteq Created(now, n)[kind]
    BY <1>1 DEF Created
  <1> QED
    BY <1>2, <1>3, <1>4

LEMMA IdleIsGood ==
    ASSUME NEW m PROVE GoodSession(Idle, m)
  BY DEF GoodSession, Idle, Fields

\* A session that does nothing is not harmed by what others create.
LEMMA OthersStayGood ==
    ASSUME NEW r, NEW m, NEW now, Grown(m, now), GoodSession(r, m)
    PROVE  GoodSession(r, now)
  <1>1. SUFFICES ASSUME r.todo # <<>>
                 PROVE  /\ Careful(r.todo, Created(now, r.net), DOMAIN r.seen)
                        /\ CopiesBacked(r.seen, now)
    BY DEF GoodSession
  <1>2. /\ r.net \in Networks
        /\ Careful(r.todo, Created(m, r.net), DOMAIN r.seen)
        /\ CopiesBacked(r.seen, m)
    BY <1>1 DEF GoodSession
  <1>3. \A kind \in Kinds : Created(m, r.net)[kind] \subseteq Created(now, r.net)[kind]
    BY <1>2, StaysBacked
  <1>4. DOMAIN r.seen \subseteq DOMAIN r.seen
    OBVIOUS
  <1>5. Careful(r.todo, Created(now, r.net), DOMAIN r.seen)
    BY <1>2, <1>3, <1>4, MoreIsThere
  <1> QED
    BY <1>2, <1>5, StaysBacked

\* A session stays good over a step of its own, if the step's effect is there
\* and its copies are backed.
LEMMA StepIsGood ==
    ASSUME NEW r, NEW m, NEW now, Grown(m, now), GoodSession(r, m), r.todo # <<>>,
           NEW upd, DOMAIN upd = Fields, upd.net = r.net, upd.todo = r.todo,
           NEW st, st = Head(r.todo),
           \A kind \in Kinds : \A key :
              Finds(st, kind, key) => key \in DOMAIN now[r.net][kind],
           IF st.op = "clear" THEN st.as \in DOMAIN upd.seen
             ELSE /\ DOMAIN r.seen \subseteq DOMAIN upd.seen
                  /\ st.op = "read" => st.file \in DOMAIN upd.seen,
           CopiesBacked(upd.seen, now)
    PROVE  GoodSession(IF Len(upd.todo) = 1 THEN Idle ELSE [upd EXCEPT !.todo = Tail(@)], now)
  <1>1. CASE Len(upd.todo) = 1
    BY <1>1, IdleIsGood
  <1>2. CASE Len(upd.todo) # 1
    <2> DEFINE after == [upd EXCEPT !.todo = Tail(@)]
    <2>1. /\ DOMAIN after = Fields /\ after.net = r.net
          /\ after.todo = Tail(r.todo) /\ after.seen = upd.seen
      BY DEF Fields
    <2> HIDE DEF after
    <2>2. /\ r.net \in Networks
          /\ Careful(r.todo, Created(m, r.net), DOMAIN r.seen)
      BY DEF GoodSession
    <2> DEFINE there == Created(m, r.net)
               thereNow == Created(now, r.net)
    <2>3. \A kind \in Kinds : there[kind] \subseteq thereNow[kind]
      BY <2>2, StaysBacked
    <2>4. \A kind \in Kinds : \A key : Finds(st, kind, key) => key \in thereNow[kind]
      BY DEF Created
    <2>5. Careful(r.todo, there, DOMAIN r.seen)
      BY <2>2
    <2> HIDE DEF there, thereNow
    <2>6. st = r.todo[1]
      BY <2>5, TailOf DEF Careful
    <2>7. Careful(Tail(r.todo), thereNow, DOMAIN upd.seen)
      <3> DEFINE p == r.todo
                 copies == DOMAIN r.seen
                 copiesNow == DOMAIN upd.seen
      <3>1. /\ p # <<>> /\ Careful(p, there, copies)
            /\ \A kind \in Kinds : \A key : Finds(p[1], kind, key) => key \in thereNow[kind]
            /\ IF p[1].op = "clear" THEN p[1].as \in copiesNow
                 ELSE /\ copies \subseteq copiesNow
                      /\ p[1].op = "read" => p[1].file \in copiesNow
        BY <2>4, <2>5, <2>6
      <3> HIDE DEF p, copies, copiesNow
      <3>2. Careful(Tail(p), thereNow, copiesNow)
        BY <2>3, <3>1, TailIsCareful
      <3> QED
        BY <3>2 DEF p, copiesNow
    <2>8. GoodSession(after, now)
      BY <2>1, <2>2, <2>7 DEF GoodSession, thereNow
    <2> QED
      BY <1>2, <2>8 DEF after
  <1> QED
    BY <1>1, <1>2

\* What a session about to take a step may rely on.
LEMMA NextStepIs ==
    ASSUME NEW r, NEW m, GoodSession(r, m), r.todo # <<>>, NEW st, st = Head(r.todo)
    PROVE  /\ r.net \in Networks
           /\ DOMAIN r = Fields
           /\ CopiesBacked(r.seen, m)
           /\ st.op = "record" => /\ st.kind \in Kinds /\ st.file = ListOf[st.kind]
                                  /\ st.key \in DOMAIN m[r.net][st.kind]
           /\ st.op = "read" => st.file \in Files
           /\ st.op = "store" => st.file \in Files /\ st.file \in DOMAIN r.seen
           /\ st.op = "clear" => /\ st.as = st.file /\ st.file \in Files
                                 /\ st.file \in DOMAIN r.seen
           /\ st.op = "deploy" => st.into \subseteq {"address", "proxyAdmin"}
           /\ st.op \in {"create", "alter"} => st.kind \in Kinds
  <1> DEFINE p == r.todo
             there == Created(m, r.net)
             copies == DOMAIN r.seen
  <1>1. r.net \in Networks /\ DOMAIN r = Fields /\ CopiesBacked(r.seen, m)
        /\ Careful(p, there, copies) /\ p # <<>>
    BY DEF GoodSession
  <1>2. \A kind \in Kinds : there[kind] = DOMAIN m[r.net][kind]
    BY DEF Created
  <1> HIDE DEF p, there, copies
  <1>3. IsProgram(p) /\ Len(p) \in Nat /\ Len(p) >= 1 /\ Head(p) = p[1]
    BY <1>1, TailOf DEF Careful
  <1>4. st = p[1] /\ Justified(p, 1, there, copies)
    BY <1>1, <1>3 DEF p, Careful
  <1>5. \A f : HasCopy(p, 1, f, copies) => f \in copies
    BY DEF HasCopy
  <1>6. st.op = "record" => st.kind \in Kinds /\ st.file = ListOf[st.kind]
                              /\ st.key \in there[st.kind]
    BY <1>4 DEF Justified, RecordJustified
  <1>7. /\ st.op = "store" => st.file \in Files /\ st.file \in copies
        /\ st.op = "clear" => /\ st.as = st.file /\ st.file \in Files
                              /\ st.file \in copies
    BY <1>4, <1>5 DEF Justified, StoreJustified, ClearJustified
  <1>8. /\ st.op = "read" => st.file \in Files
        /\ st.op = "deploy" => st.into \subseteq {"address", "proxyAdmin"}
        /\ st.op \in {"create", "alter"} => st.kind \in Kinds
    BY <1>4 DEF Justified, ReadJustified, DeployJustified, ChangeJustified
  <1> QED
    BY <1>1, <1>2, <1>6, <1>7, <1>8 DEF copies

\* The sessions after a step of one of them.
LEMMA SessionsStayGood ==
    ASSUME ListInv, NEW s \in Alive, NEW upd, Advance(s, upd), Grown(made, made'),
           DOMAIN upd = Fields, upd.net = session[s].net, upd.todo = session[s].todo,
           \A kind \in Kinds : \A key :
              Finds(Step(s), kind, key) => key \in DOMAIN made'[session[s].net][kind],
           IF Step(s).op = "clear" THEN Step(s).as \in DOMAIN upd.seen
             ELSE /\ DOMAIN session[s].seen \subseteq DOMAIN upd.seen
                  /\ Step(s).op = "read" => Step(s).file \in DOMAIN upd.seen,
           CopiesBacked(upd.seen, made')
    PROVE  DOMAIN session' = Sessions /\ \A t \in Sessions : GoodSession(session'[t], made')
  <1>1. PICK m : m = made
    OBVIOUS
  <1>2. PICK now : now = made'
    OBVIOUS
  <1>3. PICK r : r = session[s]
    OBVIOUS
  <1>4. PICK st : st = Step(s)
    OBVIOUS
  <1> DEFINE u == upd
             after == IF Len(u.todo) = 1 THEN Idle ELSE [u EXCEPT !.todo = Tail(@)]
  <1>5. /\ Grown(m, now) /\ GoodSession(r, m) /\ r.todo # <<>> /\ st = Head(r.todo)
        /\ s \in Sessions
    BY <1>1, <1>2, <1>3, <1>4 DEF ListInv, Alive, Step
  <1>6. GoodSession(after, now)
    <2>1. /\ DOMAIN u = Fields /\ u.net = r.net /\ u.todo = r.todo
          /\ \A kind \in Kinds : \A key :
                Finds(st, kind, key) => key \in DOMAIN now[r.net][kind]
          /\ IF st.op = "clear" THEN st.as \in DOMAIN u.seen
               ELSE /\ DOMAIN r.seen \subseteq DOMAIN u.seen
                    /\ st.op = "read" => st.file \in DOMAIN u.seen
          /\ CopiesBacked(u.seen, now)
      BY <1>2, <1>3, <1>4
    <2> QED
      BY <1>5, <2>1, StepIsGood
  <1> HIDE DEF after
  <1>7. session' = [session EXCEPT ![s] = after]
    BY DEF Advance, after
  <1>8. DOMAIN session = Sessions
    BY DEF ListInv
  <1>9. ASSUME NEW t \in Sessions PROVE GoodSession(session'[t], now)
    <2>1. CASE t = s
      BY <1>5, <1>6, <1>7, <1>8, <2>1
    <2>2. CASE t # s
      <3>1. PICK q : q = session[t]
        OBVIOUS
      <3>2. session'[t] = q /\ GoodSession(q, m)
        BY <1>1, <1>7, <1>8, <2>2, <3>1 DEF ListInv
      <3>3. GoodSession(q, now)
        BY <1>5, <3>2, OthersStayGood
      <3> QED
        BY <3>2, <3>3
    <2> QED
      BY <2>1, <2>2
  <1> QED
    BY <1>2, <1>7, <1>8, <1>9

(***************************************************************************)
(* The invariant is preserved, action by action.                           *)
(***************************************************************************)
LEMMA NothingCreated ==
    ASSUME ListInv, UNCHANGED made PROVE Grown(made, made')
  BY DEF ListInv, Grown

LEMMA FilesStayBacked ==
    ASSUME ListInv, Grown(made, made'), UNCHANGED files
    PROVE  DOMAIN files' = Files /\ \A kind \in Kinds : Backed(files'[ListOf[kind]], made', kind)
  <1>1. PICK m : m = made
    OBVIOUS
  <1>2. PICK now : now = made'
    OBVIOUS
  <1>3. Grown(m, now)
    BY <1>1, <1>2
  <1>4. ASSUME NEW kind \in Kinds PROVE Backed(files'[ListOf[kind]], now, kind)
    <2>1. PICK copy : copy = files[ListOf[kind]]
      OBVIOUS
    <2>2. Backed(copy, m, kind)
      BY <1>1, <2>1 DEF ListInv
    <2>3. Backed(copy, now, kind)
      BY <1>3, <2>2, StaysBacked
    <2> QED
      BY <2>1, <2>3
  <1> QED
    BY <1>2, <1>4 DEF ListInv

\* What the running session's state gives: NextStepIs, for s.
LEMMA AtWork ==
    ASSUME ListInv, NEW s \in Alive
    PROVE  LET r == session[s]
               st == Step(s)
           IN  /\ s \in Sessions
               /\ r.net \in Networks
               /\ DOMAIN r = Fields
               /\ CopiesBacked(r.seen, made)
               /\ st.op = "record" => /\ st.kind \in Kinds /\ st.file = ListOf[st.kind]
                                      /\ st.key \in DOMAIN made[r.net][st.kind]
               /\ st.op = "read" => st.file \in Files
               /\ st.op = "store" => st.file \in Files /\ st.file \in DOMAIN r.seen
               /\ st.op = "clear" => /\ st.as = st.file /\ st.file \in Files
                                     /\ st.file \in DOMAIN r.seen
               /\ st.op = "deploy" => st.into \subseteq {"address", "proxyAdmin"}
               /\ st.op \in {"create", "alter"} => st.kind \in Kinds
  <1>1. PICK m : m = made
    OBVIOUS
  <1>2. PICK r : r = session[s]
    OBVIOUS
  <1>3. PICK st : st = Step(s)
    OBVIOUS
  <1>4. s \in Sessions /\ GoodSession(r, m) /\ r.todo # <<>> /\ st = Head(r.todo)
    BY <1>1, <1>2, <1>3 DEF ListInv, Alive, Step
  <1>5. /\ r.net \in Networks
        /\ DOMAIN r = Fields
        /\ CopiesBacked(r.seen, m)
        /\ st.op = "record" => /\ st.kind \in Kinds /\ st.file = ListOf[st.kind]
                               /\ st.key \in DOMAIN m[r.net][st.kind]
        /\ st.op = "read" => st.file \in Files
        /\ st.op = "store" => st.file \in Files /\ st.file \in DOMAIN r.seen
        /\ st.op = "clear" => /\ st.as = st.file /\ st.file \in Files
                              /\ st.file \in DOMAIN r.seen
        /\ st.op = "deploy" => st.into \subseteq {"address", "proxyAdmin"}
        /\ st.op \in {"create", "alter"} => st.kind \in Kinds
    BY <1>4, NextStepIs
  <1> QED
    BY <1>1, <1>2, <1>3, <1>4, <1>5

\* A step that leaves the lists, the copies and what is on chain alone.
LEMMA QuietStep ==
    ASSUME ListInv, NEW s \in Alive, NEW upd, Advance(s, upd), UNCHANGED <<files, made>>,
           DOMAIN upd = Fields, upd.net = session[s].net, upd.todo = session[s].todo,
           upd.seen = session[s].seen,
           Step(s).op \in {"need", "set", "call", "attach", "check", "checkRole", "grantRole"},
           Possible(s)
    PROVE  ListInv'
  <1>1. Grown(made, made')
    BY NothingCreated
  <1>2. \A kind \in Kinds : \A key :
           Finds(Step(s), kind, key) => key \in DOMAIN made'[session[s].net][kind]
    BY DEF Finds, Possible, Has
  <1>3. CopiesBacked(upd.seen, made')
    BY AtWork
  <1>4. DOMAIN session' = Sessions /\ \A t \in Sessions : GoodSession(session'[t], made')
    BY <1>1, <1>2, <1>3, SessionsStayGood
  <1> QED
    BY <1>1, <1>4, FilesStayBacked DEF ListInv, Grown

LEMMA NeedStep ==
    ASSUME ListInv, NEW s \in Sessions, NeedDeployments(s) PROVE ListInv'
  <1> DEFINE upd == [session[s] EXCEPT
                       !.got = [x \in Step(s).names |-> saved[session[s].net][x].at]]
  <1>1. s \in Alive /\ Step(s).op = "need" /\ Possible(s)
        /\ Advance(s, upd) /\ UNCHANGED <<files, made>>
    BY DEF NeedDeployments, Doing, onChain
  <1>2. DOMAIN session[s] = Fields
    BY <1>1, AtWork
  <1>3. /\ DOMAIN upd = Fields /\ upd.net = session[s].net /\ upd.todo = session[s].todo
        /\ upd.seen = session[s].seen
    BY <1>2 DEF Fields
  <1> HIDE DEF upd
  <1> QED
    BY <1>1, <1>3, QuietStep

LEMMA QuietSteps ==
    ASSUME ListInv, NEW s \in Sessions,
           SetPointer(s) \/ CallContract(s) \/ GrantRole(s)
    PROVE  ListInv'
  <1>1. s \in Alive /\ Step(s).op \in {"set", "call", "attach", "check", "grantRole"}
        /\ Possible(s) /\ Advance(s, session[s]) /\ UNCHANGED <<files, made>>
    BY DEF SetPointer, CallContract, GrantRole, Doing, onChain
  <1>2. DOMAIN session[s] = Fields
    BY <1>1, AtWork
  <1> QED
    BY <1>1, <1>2, QuietStep

\* A session ends, by an error, by a crash or because nothing is left to do.
LEMMA EndStep ==
    ASSUME ListInv, NEW s \in Sessions, session' = [session EXCEPT ![s] = Idle],
           UNCHANGED <<files, made>>
    PROVE  ListInv'
  <1>1. DOMAIN session' = Sessions /\ \A t \in Sessions : GoodSession(session'[t], made)
    BY IdleIsGood DEF ListInv
  <1> QED
    BY <1>1 DEF ListInv

LEMMA CheckRoleStep ==
    ASSUME ListInv, NEW s \in Sessions, CheckRole(s) PROVE ListInv'
  <1>1. /\ s \in Alive /\ Step(s).op = "checkRole" /\ Possible(s) /\ UNCHANGED <<files, made>>
        /\ session' = [session EXCEPT ![s] = Idle] \/ Advance(s, session[s])
    BY DEF CheckRole, Doing, onChain
  <1>2. DOMAIN session[s] = Fields
    BY <1>1, AtWork
  <1> QED
    BY <1>1, <1>2, QuietStep, EndStep

LEMMA FailStep ==
    ASSUME ListInv, NEW s \in Sessions, Throw(s) \/ Crash(s) PROVE ListInv'
  BY EndStep DEF Throw, Crash, End, onChain

LEMMA EditStep ==
    ASSUME ListInv, NEW c, EditSource(c) PROVE ListInv'
  BY DEF EditSource, ListInv, onChain

LEMMA ListsAreApart ==
    /\ \A kind, other \in Kinds : ListOf[kind] = ListOf[other] => kind = other
    /\ \A kind \in Kinds : ListOf[kind] \in Files /\ ListOf[kind] \notin {"address", "proxyAdmin"}
  BY DEF Kinds, ListOf, Files

LEMMA LaunchStep ==
    ASSUME "NaughtyPool" \notin Tasks, ListInv, NEW s \in Sessions, Launch(s) PROVE ListInv'
  <1>1. PICK n \in Networks : \E j \in Jobs(n) :
           /\ j.steps # <<>>
           /\ session' = [t \in Sessions |->
                 IF t = s
                   THEN [Idle EXCEPT !.net = n, !.job = j.tag, !.todo = j.steps,
                                     !.seen = Preloaded(j.steps), !.alone = (Alive = {})]
                   ELSE [session[t] EXCEPT !.alone = (t \notin Alive)]]
    BY DEF Launch
  <1>2. PICK j \in Jobs(n) :
           /\ j.steps # <<>>
           /\ session' = [t \in Sessions |->
                 IF t = s
                   THEN [Idle EXCEPT !.net = n, !.job = j.tag, !.todo = j.steps,
                                     !.seen = Preloaded(j.steps), !.alone = (Alive = {})]
                   ELSE [session[t] EXCEPT !.alone = (t \notin Alive)]]
    BY <1>1
  <1>3. UNCHANGED <<files, made>>
    BY DEF Launch, onChain
  <1>4. PICK m : m = made
    OBVIOUS
  <1>5. GoodSession(session'[s], m)
    <2> DEFINE r == session'[s]
    <2>1. /\ DOMAIN r = Fields /\ r.net = n /\ r.todo = j.steps
          /\ r.seen = Preloaded(j.steps)
      BY <1>2 DEF Idle, Fields
    <2> HIDE DEF r
    <2>2. Careful(j.steps, NothingYet, DOMAIN Preloaded(j.steps))
      BY JobsAreCareful
    <2>3. \A kind \in Kinds : NothingYet[kind] \subseteq Created(m, n)[kind]
      BY DEF NothingYet
    <2>4. Careful(j.steps, Created(m, n), DOMAIN Preloaded(j.steps))
      BY <2>2, <2>3, MoreIsThere
    <2>5. CopiesBacked(Preloaded(j.steps), m)
      <3>1. SUFFICES ASSUME NEW kind \in Kinds, ListOf[kind] \in DOMAIN Preloaded(j.steps)
                     PROVE  Backed(Preloaded(j.steps)[ListOf[kind]], m, kind)
        BY DEF CopiesBacked
      <3>2. Preloaded(j.steps)[ListOf[kind]] = files[ListOf[kind]]
        BY <3>1 DEF Preloaded, Empty
      <3> QED
        BY <1>4, <3>2 DEF ListInv
    <2>6. GoodSession(r, m)
      BY <2>1, <2>4, <2>5 DEF GoodSession
    <2> QED
      BY <2>6 DEF r
  <1>6. ASSUME NEW t \in Sessions, t # s PROVE GoodSession(session'[t], m)
    <2> DEFINE r == session[t]
               after == session'[t]
    <2>1. GoodSession(r, m)
      BY <1>4 DEF ListInv
    <2>2. /\ DOMAIN after = DOMAIN r /\ after.net = r.net /\ after.todo = r.todo
          /\ after.seen = r.seen
      BY <1>2, <1>6, <2>1 DEF GoodSession, Fields
    <2> HIDE DEF r, after
    <2>3. GoodSession(after, m)
      BY <2>1, <2>2 DEF GoodSession
    <2> QED
      BY <2>3 DEF after
  <1>7. DOMAIN session' = Sessions
    BY <1>2
  <1>8. \A t \in Sessions : GoodSession(session'[t], made')
    BY <1>3, <1>4, <1>5, <1>6
  <1> QED
    BY <1>3, <1>7, <1>8 DEF ListInv

LEMMA ReadStep ==
    ASSUME ListInv, NEW s \in Sessions, ReadFile(s) PROVE ListInv'
  <1> DEFINE file == Step(s).file
             seen == Put(session[s].seen, file, files[file])
             upd == [session[s] EXCEPT !.seen = seen]
  <1>1. s \in Alive /\ Step(s).op = "read" /\ Advance(s, upd) /\ UNCHANGED <<files, made>>
    BY DEF ReadFile, Doing, onChain
  <1>2. DOMAIN session[s] = Fields /\ file \in Files /\ CopiesBacked(session[s].seen, made)
    BY <1>1, AtWork
  <1>3. /\ DOMAIN upd = Fields /\ upd.net = session[s].net /\ upd.todo = session[s].todo
        /\ upd.seen = seen
    BY <1>2 DEF Fields
  <1>4. /\ DOMAIN seen = DOMAIN session[s].seen \cup {file}
        /\ seen[file] = files[file]
        /\ \A x \in DOMAIN session[s].seen : x # file => seen[x] = session[s].seen[x]
    BY DEF Put
  <1> HIDE DEF seen, upd
  <1>5. CopiesBacked(seen, made)
    <2>1. SUFFICES ASSUME NEW kind \in Kinds, ListOf[kind] \in DOMAIN seen
                   PROVE  Backed(seen[ListOf[kind]], made, kind)
      BY DEF CopiesBacked
    <2>2. CASE ListOf[kind] = file
      BY <1>4, <2>2 DEF ListInv
    <2>3. CASE ListOf[kind] # file
      BY <1>2, <1>4, <2>1, <2>3 DEF CopiesBacked
    <2> QED
      BY <2>2, <2>3
  <1>6. Grown(made, made')
    BY <1>1, NothingCreated
  <1>7. CopiesBacked(upd.seen, made')
    BY <1>1, <1>3, <1>5
  <1>8. \A kind \in Kinds : \A key : ~ Finds(Step(s), kind, key)
    BY <1>1 DEF Finds
  <1>9. DOMAIN session[s].seen \subseteq DOMAIN upd.seen /\ file \in DOMAIN upd.seen
    BY <1>3, <1>4
  <1>10. DOMAIN session' = Sessions /\ \A t \in Sessions : GoodSession(session'[t], made')
    BY <1>1, <1>3, <1>6, <1>7, <1>8, <1>9, SessionsStayGood
  <1> QED
    BY <1>1, <1>6, <1>10, FilesStayBacked DEF ListInv, Grown

\* The whole copy is stored, whatever the file holds by now.
LEMMA StoreStep ==
    ASSUME ListInv, NEW s \in Sessions, StoreFile(s) PROVE ListInv'
  <1> DEFINE file == Step(s).file
             paid == {o \in session[s].owes : o[1] = file}
             upd == [session[s] EXCEPT !.owes = @ \ paid]
  <1>1. /\ s \in Alive /\ Step(s).op = "store" /\ Advance(s, upd) /\ UNCHANGED made
        /\ files' = [files EXCEPT ![file] = session[s].seen[file]]
    BY DEF StoreFile, Doing, onChain
  <1>2. /\ DOMAIN session[s] = Fields /\ file \in Files /\ file \in DOMAIN session[s].seen
        /\ CopiesBacked(session[s].seen, made)
    BY <1>1, AtWork
  <1>3. /\ DOMAIN upd = Fields /\ upd.net = session[s].net /\ upd.todo = session[s].todo
        /\ upd.seen = session[s].seen
    BY <1>2 DEF Fields
  <1> HIDE DEF upd, paid
  <1>4. Grown(made, made')
    BY <1>1, NothingCreated
  <1>5. \A kind \in Kinds : \A key : ~ Finds(Step(s), kind, key)
    BY <1>1 DEF Finds
  <1>6. CopiesBacked(upd.seen, made')
    BY <1>1, <1>2, <1>3
  <1>7. DOMAIN session' = Sessions /\ \A t \in Sessions : GoodSession(session'[t], made')
    BY <1>1, <1>3, <1>4, <1>5, <1>6, SessionsStayGood
  <1>8. DOMAIN files' = Files
    BY <1>1 DEF ListInv
  <1>9. ASSUME NEW kind \in Kinds PROVE Backed(files'[ListOf[kind]], made, kind)
    <2>1. ListOf[kind] \in Files
      BY ListsAreApart
    <2>2. CASE ListOf[kind] = file
      <3>1. files'[ListOf[kind]] = session[s].seen[ListOf[kind]]
        BY <1>1, <1>2, <2>2 DEF ListInv
      <3>2. Backed(session[s].seen[ListOf[kind]], made, kind)
        BY <1>2, <2>2 DEF CopiesBacked
      <3> QED
        BY <3>1, <3>2
    <2>3. CASE ListOf[kind] # file
      <3>1. files'[ListOf[kind]] = files[ListOf[kind]]
        BY <1>1, <2>1, <2>3 DEF ListInv
      <3> QED
        BY <3>1 DEF ListInv
    <2> QED
      BY <2>2, <2>3
  <1> QED
    BY <1>1, <1>4, <1>7, <1>8, <1>9 DEF ListInv, Grown

\* Deployments go into the copies of the address book and of the proxy admin.
LEMMA DeployStep ==
    ASSUME ListInv, NEW s \in Sessions, DeployContract(s) PROVE ListInv'
  <1> DEFINE n == session[s].net
             st == Step(s)
             new == IF st.op = "save" THEN ~ Known(s) ELSE IsNew(s)
             at == IF ~ new THEN Deployment(s).at
                   ELSE Address(st.name, IF Known(s) THEN Deployment(s).at.gen + 1 ELSE 1)
             into == IF st.op = "save" THEN {"address"} ELSE st.into
             copies == session[s].seen
             written(f) == [copies[f] EXCEPT ![n] = Put(@, st.entry, at)]
             seen == [f \in DOMAIN copies |-> IF f \in into THEN written(f) ELSE copies[f]]
             owes == session[s].owes \cup {<<f, st.entry>> : f \in into}
             upd == [session[s] EXCEPT !.seen = seen, !.owes = owes]
  <1>1. /\ s \in Alive /\ Step(s).op \in {"deploy", "save"} /\ UNCHANGED <<files, made>>
        /\ Advance(s, upd)
    <2>1. Advance(s, upd)
      BY Zenon DEF DeployContract
    <2>2. s \in Alive /\ Step(s).op \in {"deploy", "save"} /\ UNCHANGED <<files, made>>
      BY Zenon DEF DeployContract, Doing
    <2> QED
      BY <2>1, <2>2
  <1>2. DOMAIN session[s] = Fields /\ into \subseteq {"address", "proxyAdmin"}
        /\ CopiesBacked(session[s].seen, made)
    BY <1>1, AtWork
  <1> HIDE DEF at, into, owes, new
  <1>3. /\ DOMAIN upd = Fields /\ upd.net = session[s].net /\ upd.todo = session[s].todo
        /\ upd.seen = seen
    BY <1>2 DEF Fields
  <1>4. DOMAIN seen = DOMAIN session[s].seen
        /\ \A f \in DOMAIN seen : f \notin {"address", "proxyAdmin"} => seen[f] = session[s].seen[f]
    BY <1>2
  <1> HIDE DEF seen, upd
  <1>5. CopiesBacked(seen, made)
    BY <1>2, <1>4, ListsAreApart DEF CopiesBacked
  <1>6. Grown(made, made')
    BY <1>1, NothingCreated
  <1>7. CopiesBacked(upd.seen, made')
    BY <1>1, <1>3, <1>5
  <1>8. \A kind \in Kinds : \A key : ~ Finds(Step(s), kind, key)
    BY <1>1 DEF Finds
  <1>9. DOMAIN session' = Sessions /\ \A t \in Sessions : GoodSession(session'[t], made')
    BY <1>1, <1>3, <1>4, <1>6, <1>7, <1>8, SessionsStayGood
  <1> QED
    BY <1>1, <1>6, <1>9, FilesStayBacked DEF ListInv, Grown

\* A transaction that creates or changes: afterwards, the thing is there.
LEMMA MakeStep ==
    ASSUME ListInv, NEW s \in Alive, Step(s).op \in {"create", "alter"}, UNCHANGED files,
           NEW owes, Advance(s, [session[s] EXCEPT !.owes = owes]), Grown(made, made'),
           Step(s).key \in DOMAIN made'[session[s].net][Step(s).kind]
    PROVE  ListInv'
  <1> DEFINE upd == [session[s] EXCEPT !.owes = owes]
  <1>1. DOMAIN session[s] = Fields /\ CopiesBacked(session[s].seen, made)
    BY AtWork
  <1>2. /\ DOMAIN upd = Fields /\ upd.net = session[s].net /\ upd.todo = session[s].todo
        /\ upd.seen = session[s].seen /\ Advance(s, upd)
    BY <1>1 DEF Fields
  <1> HIDE DEF upd
  <1>3. PICK m : m = made
    OBVIOUS
  <1>4. PICK now : now = made'
    OBVIOUS
  <1>5. PICK seen : seen = session[s].seen
    OBVIOUS
  <1>6. CopiesBacked(upd.seen, made')
    <2>1. Grown(m, now) /\ CopiesBacked(seen, m)
      BY <1>1, <1>3, <1>4, <1>5
    <2>2. CopiesBacked(seen, now)
      BY <2>1, StaysBacked
    <2> QED
      BY <1>2, <1>4, <1>5, <2>2
  <1>7. \A kind \in Kinds : \A key :
           Finds(Step(s), kind, key) => key \in DOMAIN made'[session[s].net][kind]
    BY DEF Finds
  <1>8. DOMAIN session' = Sessions /\ \A t \in Sessions : GoodSession(session'[t], made')
    BY <1>2, <1>6, <1>7, SessionsStayGood
  <1> QED
    BY <1>8, FilesStayBacked DEF ListInv, Grown

LEMMA CreateStep ==
    ASSUME ListInv, NEW s \in Sessions, CreateThing(s) PROVE ListInv'
  <1> DEFINE n == session[s].net
             st == Step(s)
  <1>1. /\ s \in Alive /\ st.op = "create" /\ UNCHANGED files
        /\ made' = [made EXCEPT ![n][st.kind] = Put(@, st.key, "new")]
        /\ Advance(s, [session[s] EXCEPT !.owes = @ \cup {<<ListOf[st.kind], st.key>>}])
    BY DEF CreateThing, Doing
  <1>2. n \in Networks /\ st.kind \in Kinds
    BY <1>1, AtWork
  <1>3. Shaped(made)
    BY DEF ListInv
  <1>4. Grown(made, made')
    BY <1>1, <1>2, <1>3 DEF Grown, Shaped, Put
  <1>5. st.key \in DOMAIN made'[n][st.kind]
    BY <1>1, <1>2, <1>3 DEF Shaped, Put
  <1> QED
    BY <1>1, <1>4, <1>5, MakeStep

LEMMA AlterStep ==
    ASSUME ListInv, NEW s \in Sessions, AlterThing(s) PROVE ListInv'
  <1> DEFINE n == session[s].net
             st == Step(s)
             altered == [made[n] EXCEPT ![st.kind] = Put(@, st.key, "changed")]
             paired == [altered EXCEPT !["pool"] = Put(@, st.key, "byILM")]
             now == IF st.kind = "ilm" THEN paired ELSE altered
  <1>1. /\ s \in Alive /\ st.op = "alter" /\ UNCHANGED files
        /\ made' = [made EXCEPT ![n] = now]
        /\ Advance(s, [session[s] EXCEPT !.owes = @ \cup {<<ListOf[st.kind], st.key>>}])
    BY DEF AlterThing, Doing
  <1>2. n \in Networks /\ st.kind \in Kinds
    BY <1>1, AtWork
  <1>3. Shaped(made)
    BY DEF ListInv
  <1>4. made[n] = [kind \in Kinds |-> made[n][kind]]
    BY <1>2, <1>3 DEF Shaped
  <1>5. /\ altered = [kind \in Kinds |-> altered[kind]]
        /\ \A kind \in Kinds : DOMAIN made[n][kind] \subseteq DOMAIN altered[kind]
        /\ st.key \in DOMAIN altered[st.kind]
    BY <1>2, <1>4 DEF Put
  <1> HIDE DEF altered
  <1>6. /\ paired = [kind \in Kinds |-> paired[kind]]
        /\ \A kind \in Kinds : DOMAIN altered[kind] \subseteq DOMAIN paired[kind]
    BY <1>5 DEF Put
  <1> HIDE DEF paired
  <1>7. /\ now = [kind \in Kinds |-> now[kind]]
        /\ \A kind \in Kinds : DOMAIN made[n][kind] \subseteq DOMAIN now[kind]
        /\ st.key \in DOMAIN now[st.kind]
    <2>1. CASE st.kind = "ilm"
      BY <1>2, <1>5, <1>6, <2>1
    <2>2. CASE st.kind # "ilm"
      BY <1>2, <1>5, <2>2
    <2> QED
      BY <2>1, <2>2
  <1> HIDE DEF now
  <1>8. Grown(made, made')
    BY <1>1, <1>2, <1>3, <1>7 DEF Grown, Shaped
  <1>9. st.key \in DOMAIN made'[n][st.kind]
    BY <1>1, <1>2, <1>3, <1>7 DEF Shaped
  <1> QED
    BY <1>1, <1>8, <1>9, MakeStep

\* The entry recorded is that of a thing just made, or found.
LEMMA RecordStep ==
    ASSUME ListInv, NEW s \in Sessions, RecordThing(s) PROVE ListInv'
  <1> DEFINE n == session[s].net
             st == Step(s)
             copies == session[s].seen
             changed == [copies EXCEPT ![st.file][n] =
                            Put(@, st.key, made[n][st.kind][st.key])]
             upd == [session[s] EXCEPT !.seen = changed]
  <1>1. /\ s \in Alive /\ st.op = "record" /\ UNCHANGED <<files, made>>
        /\ Advance(s, upd)
    BY DEF RecordThing, Doing, onChain
  <1>2. /\ DOMAIN session[s] = Fields /\ n \in Networks
        /\ st.kind \in Kinds /\ st.file = ListOf[st.kind]
        /\ st.key \in DOMAIN made[n][st.kind]
        /\ CopiesBacked(copies, made)
    BY <1>1, AtWork
  <1>3. /\ DOMAIN upd = Fields /\ upd.net = session[s].net /\ upd.todo = session[s].todo
        /\ upd.seen = changed
    BY <1>2 DEF Fields
  <1>4. CopiesBacked(changed, made)
    <2>1. SUFFICES ASSUME NEW kind \in Kinds, ListOf[kind] \in DOMAIN changed
                   PROVE  Backed(changed[ListOf[kind]], made, kind)
      BY DEF CopiesBacked
    <2>2. ListOf[kind] \in DOMAIN copies
      BY <2>1
    <2>3. Backed(copies[ListOf[kind]], made, kind)
      BY <1>2, <2>2 DEF CopiesBacked
    <2>4. CASE kind = st.kind
      <3> DEFINE copy == copies[ListOf[kind]]
                 entry == Put(copy[n], st.key, made[n][st.kind][st.key])
                 after == [copy EXCEPT ![n] = entry]
      <3>1. changed[ListOf[kind]] = after
        BY <1>2, <2>2, <2>4
      <3>2. Backed(copy, made, kind)
        BY <2>3
      <3>3. DOMAIN entry = DOMAIN copy[n] \cup {st.key}
        BY DEF Put
      <3> HIDE DEF copy, entry
      <3>4. DOMAIN after = Networks
        BY <3>2 DEF Backed
      <3>5. ASSUME NEW x \in Networks PROVE DOMAIN after[x] \subseteq DOMAIN made[x][kind]
        <4>1. CASE x = n
          BY <1>2, <2>4, <3>2, <3>3, <4>1 DEF Backed
        <4>2. CASE x # n
          BY <3>2, <4>2 DEF Backed
        <4> QED
          BY <4>1, <4>2
      <3> HIDE DEF after
      <3>6. Backed(after, made, kind)
        BY <3>4, <3>5 DEF Backed
      <3> QED
        BY <3>1, <3>6
    <2>5. CASE kind # st.kind
      <3>1. ListOf[kind] # st.file
        BY <1>2, <2>5, ListsAreApart
      <3>2. changed[ListOf[kind]] = copies[ListOf[kind]]
        BY <2>2, <3>1
      <3> QED
        BY <2>3, <3>2
    <2> QED
      BY <2>4, <2>5
  <1>5. DOMAIN copies \subseteq DOMAIN changed
    OBVIOUS
  <1> HIDE DEF changed, upd
  <1>6. Grown(made, made')
    BY <1>1, NothingCreated
  <1>7. CopiesBacked(upd.seen, made')
    BY <1>1, <1>3, <1>4
  <1>8. \A kind \in Kinds : \A key : ~ Finds(Step(s), kind, key)
    BY <1>1 DEF Finds
  <1>9. DOMAIN session' = Sessions /\ \A t \in Sessions : GoodSession(session'[t], made')
    BY <1>1, <1>3, <1>5, <1>6, <1>7, <1>8, SessionsStayGood
  <1> QED
    BY <1>1, <1>6, <1>9, FilesStayBacked DEF ListInv, Grown

\* Clearing keeps one copy, with less in it.
LEMMA ClearStep ==
    ASSUME ListInv, NEW s \in Sessions, ClearCopy(s) PROVE ListInv'
  <1> DEFINE n == session[s].net
             st == Step(s)
             copy == session[s].seen[st.file]
             cleared == [copy EXCEPT ![n] = Empty]
             seen == [f \in {st.as} |-> cleared]
             upd == [session[s] EXCEPT !.seen = seen]
  <1>1. /\ s \in Alive /\ st.op = "clear" /\ UNCHANGED <<files, made>>
        /\ Advance(s, upd)
    BY DEF ClearCopy, Doing, onChain
  <1>2. /\ DOMAIN session[s] = Fields /\ n \in Networks /\ st.as = st.file
        /\ st.file \in DOMAIN session[s].seen
        /\ CopiesBacked(session[s].seen, made)
    BY <1>1, AtWork
  <1>3. /\ DOMAIN upd = Fields /\ upd.net = session[s].net /\ upd.todo = session[s].todo
        /\ upd.seen = seen
    BY <1>2 DEF Fields
  <1>4. DOMAIN seen = {st.file} /\ seen[st.file] = cleared
    BY <1>2
  <1>5. CopiesBacked(seen, made)
    <2>1. SUFFICES ASSUME NEW kind \in Kinds, ListOf[kind] \in DOMAIN seen
                   PROVE  Backed(seen[ListOf[kind]], made, kind)
      BY DEF CopiesBacked
    <2>2. ListOf[kind] = st.file
      BY <1>4, <2>1
    <2>3. Backed(copy, made, kind)
      BY <1>2, <2>2 DEF CopiesBacked
    <2>4. DOMAIN Empty = {}
      BY DEF Empty
    <2> HIDE DEF copy
    <2>5. DOMAIN cleared = Networks
      BY <2>3 DEF Backed
    <2>6. ASSUME NEW x \in Networks PROVE DOMAIN cleared[x] \subseteq DOMAIN made[x][kind]
      <3>1. CASE x = n
        BY <2>3, <2>4, <3>1 DEF Backed
      <3>2. CASE x # n
        BY <2>3, <3>2 DEF Backed
      <3> QED
        BY <3>1, <3>2
    <2> HIDE DEF cleared
    <2>7. Backed(cleared, made, kind)
      BY <2>5, <2>6 DEF Backed
    <2> QED
      BY <1>4, <2>2, <2>7
  <1> HIDE DEF seen, upd
  <1>6. Grown(made, made')
    BY <1>1, NothingCreated
  <1>7. CopiesBacked(upd.seen, made')
    BY <1>1, <1>3, <1>5
  <1>8. \A kind \in Kinds : \A key : ~ Finds(Step(s), kind, key)
    BY <1>1 DEF Finds
  <1>9. st.as \in DOMAIN upd.seen
    BY <1>2, <1>3, <1>4
  <1>10. DOMAIN session' = Sessions /\ \A t \in Sessions : GoodSession(session'[t], made')
    BY <1>1, <1>3, <1>6, <1>7, <1>8, <1>9, SessionsStayGood
  <1> QED
    BY <1>1, <1>6, <1>10, FilesStayBacked DEF ListInv, Grown

LEMMA ListInvInit ==
    ASSUME Init PROVE ListInv
  <1>1. Shaped(made)
    BY MadeAssumption DEF Init, Shaped
  <1>2. DOMAIN files = Files
    BY DEF Init
  <1>3. ASSUME NEW kind \in Kinds PROVE Backed(files[ListOf[kind]], made, kind)
    <2> DEFINE f == ListOf[kind]
               k == CHOOSE x \in Kinds : ListOf[x] = f
    <2>1. f \in Files /\ f \notin {"address", "proxyAdmin"}
      BY ListsAreApart
    <2>2. k \in Kinds /\ ListOf[k] = f
      OBVIOUS
    <2>3. k = kind
      BY <2>2, ListsAreApart
    <2>4. files[f] = [n \in Networks |-> InitMade[n][k]]
      BY <2>1 DEF Init
    <2> HIDE DEF k
    <2> QED
      BY <2>3, <2>4 DEF Init, Backed
  <1>4. DOMAIN session = Sessions /\ \A s \in Sessions : session[s] = Idle
    BY DEF Init
  <1>5. PICK m : m = made
    OBVIOUS
  <1>6. \A s \in Sessions : GoodSession(session[s], m)
    BY <1>4, IdleIsGood
  <1> QED
    BY <1>1, <1>2, <1>3, <1>4, <1>5, <1>6 DEF ListInv

LEMMA ListInvNext ==
    ASSUME "NaughtyPool" \notin Tasks, ListInv, [Next]_vars PROVE ListInv'
  <1>1. CASE UNCHANGED vars
    BY <1>1 DEF vars, onChain, ListInv
  <1>2. ASSUME NEW s \in Sessions,
               \/ Launch(s) \/ ReadFile(s) \/ StoreFile(s) \/ NeedDeployments(s)
               \/ DeployContract(s) \/ SetPointer(s) \/ CallContract(s)
               \/ CheckRole(s) \/ GrantRole(s)
        PROVE  ListInv'
    BY <1>2, LaunchStep, ReadStep, StoreStep, NeedStep, DeployStep, QuietSteps, CheckRoleStep
  <1>3. ASSUME NEW s \in Sessions,
               \/ CreateThing(s) \/ AlterThing(s) \/ RecordThing(s) \/ ClearCopy(s)
               \/ Throw(s) \/ Crash(s)
        PROVE  ListInv'
    BY <1>3, CreateStep, AlterStep, RecordStep, ClearStep, FailStep
  <1>4. ASSUME NEW c \in Editable, EditSource(c) PROVE ListInv'
    BY <1>4, EditStep
  <1> QED
    BY <1>1, <1>2, <1>3, <1>4 DEF Next

(***************************************************************************)
(* Whatever scripts and tasks are run (but the one that stores one list as *)
(* another), on however many networks, by however many sessions, wherever  *)
(* they die: a list never names a token, pool, farm or matching that was   *)
(* not created.                                                            *)
(***************************************************************************)
THEOREM ListsNameWhatExists ==
    ASSUME "NaughtyPool" \notin Tasks
    PROVE  Spec => []ListedThingsExist
  <1>1. Init => ListInv
    BY ListInvInit
  <1>2. ListInv /\ [Next]_vars => ListInv'
    BY ListInvNext
  <1>3. ListInv => ListedThingsExist
    BY DEF ListInv, Backed, ListedThingsExist
  <1> QED
    BY <1>1, <1>2, <1>3, PTL DEF Spec

(***************************************************************************)
(* Tidy programs                                                           *)
(*                                                                         *)
(* What makes book and lists agree with the chain is an order within each  *)
(* program: what a step has deployed, created or changed is stored later   *)
(* on, the file is not read again in between, and a thing that was created *)
(* is recorded before the file is stored, or the program stops before.     *)
(***************************************************************************)
StoresAt(p, i, f) == p[i].op = "store" /\ p[i].file = f
ReadsAt(p, i, f)  == p[i].op = "read" /\ p[i].file = f

\* The files in which a step has left something to record.
Owing(st) ==
    CASE st.op = "deploy" -> st.into
      [] st.op = "save" -> {"address"}
      [] st.op \in {"create", "alter"} -> {ListOf[st.kind]}
      [] OTHER -> {}

\* The files of which a step uses the session's copy.
Uses(st) ==
    CASE st.op \in {"store", "record", "clear"} -> {st.file}
      [] st.op = "deploy" -> st.into
      [] st.op \in {"read", "need", "check"} -> {}
      [] OTHER -> {"address"}

\* From step i on, f is stored before it is read, and no copy is emptied.
SettledFrom(p, i, f) ==
    /\ \E l \in i .. Len(p) : StoresAt(p, l, f) /\ \A j \in i .. l : ~ ReadsAt(p, j, f)
    /\ \A j \in i .. Len(p) : p[j].op # "clear"

\* The core knows no token by this name.
Unknown(st) == st.op = "check" /\ st.kind = "token" /\ st.key = "misspelt"

\* From step i on, k is recorded in the copy of f before f is stored, or the
\* program does not get as far.
RecordedFrom(p, i, f, k) ==
    \E l \in i .. Len(p) :
        /\ \/ p[l].op = "record" /\ p[l].file = f /\ p[l].key = k
           \/ f = "NPToken" /\ Unknown(p[l])
        /\ \A j \in i .. l : ~ StoresAt(p, j, f)

\* What is deployed goes into the book under its own entry.
WellNamed(st) ==
    /\ st.op \in {"deploy", "save"} =>
          st.entry = EntryOf(st.name) /\ st.name # "VoteEscrowedDegis"
    /\ st.op = "deploy" =>
          st.into = IF st.name = "ProxyAdmin" THEN {"address", "proxyAdmin"} ELSE {"address"}
    /\ st.op = "save" => st.name # "ProxyAdmin"
    /\ st.op \in {"create", "alter"} =>
          st.kind \in Kinds /\ (st.kind = "token" => st.key # "misspelt")
    /\ st.op = "record" => st.kind \in Kinds /\ st.file = ListOf[st.kind]
    /\ st.op \in {"read", "store"} => st.file \in Files

TidyAt(p, i) ==
    /\ WellNamed(p[i])
    /\ \A f \in Owing(p[i]) : SettledFrom(p, i + 1, f)
    /\ p[i].op \in {"create", "alter"} => RecordedFrom(p, i + 1, ListOf[p[i].kind], p[i].key)
    /\ p[i].op = "checkRole" => \A j \in i .. Len(p) : p[j].op # "store"
    /\ p[i].op = "clear" =>
          p[i].as = p[i].file /\ \A j \in i + 1 .. Len(p) : Uses(p[j]) \subseteq {p[i].as}

Tidy(p) == IsProgram(p) /\ \A i \in 1 .. Len(p) : TidyAt(p, i)

HasCopies(p, copies) ==
    \A i \in 1 .. Len(p) : \A f \in Uses(p[i]) : HasCopy(p, i, f, copies)

LEMMA SettledShift ==
    ASSUME NEW p, p # <<>>, IsProgram(p), NEW i \in 1 .. Len(p), NEW f
    PROVE  SettledFrom(p, i + 1, f) <=> SettledFrom(Tail(p), i, f)
  <1> DEFINE q == Tail(p)
  <1>1. /\ Len(p) \in Nat /\ Len(p) >= 1 /\ Len(q) = Len(p) - 1
        /\ \A j \in 1 .. Len(q) : q[j] = p[j + 1]
    BY TailOf
  <1> HIDE DEF q
  <1>2. ASSUME NEW l \in i .. Len(q)
        PROVE  /\ l + 1 \in i + 1 .. Len(p) /\ q[l] = p[l + 1]
               /\ \A j \in i .. l : j + 1 \in i + 1 .. l + 1 /\ q[j] = p[j + 1]
    BY <1>1
  <1>3. ASSUME NEW l \in i + 1 .. Len(p)
        PROVE  /\ l - 1 \in i .. Len(q) /\ q[l - 1] = p[l]
               /\ \A j \in i .. l - 1 : j + 1 \in i + 1 .. l /\ q[j] = p[j + 1]
               /\ \A j \in i + 1 .. l : j - 1 \in i .. l - 1 /\ q[j - 1] = p[j]
    BY <1>1
  <1>4. ASSUME SettledFrom(p, i + 1, f) PROVE SettledFrom(q, i, f)
    <2>1. PICK l \in i + 1 .. Len(p) :
              StoresAt(p, l, f) /\ \A j \in i + 1 .. l : ~ ReadsAt(p, j, f)
      BY <1>4 DEF SettledFrom
    <2>2. l - 1 \in i .. Len(q) /\ StoresAt(q, l - 1, f)
      BY <1>3, <2>1 DEF StoresAt
    <2>3. ASSUME NEW j \in i .. l - 1 PROVE ~ ReadsAt(q, j, f)
      <3>1. j + 1 \in i + 1 .. l /\ q[j] = p[j + 1]
        BY <1>3
      <3>2. ~ ReadsAt(p, j + 1, f)
        BY <2>1, <3>1
      <3> QED
        BY <3>1, <3>2 DEF ReadsAt
    <2>4. \A j \in i .. Len(q) : q[j].op # "clear"
      BY <1>2, <1>4 DEF SettledFrom
    <2> QED
      BY <2>2, <2>3, <2>4 DEF SettledFrom
  <1>5. ASSUME SettledFrom(q, i, f) PROVE SettledFrom(p, i + 1, f)
    <2>1. PICK l \in i .. Len(q) : StoresAt(q, l, f) /\ \A j \in i .. l : ~ ReadsAt(q, j, f)
      BY <1>5 DEF SettledFrom
    <2>2. l + 1 \in i + 1 .. Len(p) /\ StoresAt(p, l + 1, f)
      BY <1>2, <2>1 DEF StoresAt
    <2>3. ASSUME NEW j \in i + 1 .. l + 1 PROVE ~ ReadsAt(p, j, f)
      <3>1. (l + 1) - 1 = l
        OBVIOUS
      <3>2. j - 1 \in i .. l /\ q[j - 1] = p[j]
        BY <1>3, <2>2, <3>1
      <3>3. ~ ReadsAt(q, j - 1, f)
        BY <2>1, <3>2
      <3> QED
        BY <3>2, <3>3 DEF ReadsAt
    <2>4. \A j \in i + 1 .. Len(p) : p[j].op # "clear"
      BY <1>3, <1>5 DEF SettledFrom
    <2> QED
      BY <2>2, <2>3, <2>4 DEF SettledFrom
  <1> QED
    BY <1>4, <1>5 DEF q

LEMMA RecordedShift ==
    ASSUME NEW p, p # <<>>, IsProgram(p), NEW i \in 1 .. Len(p), NEW f, NEW k
    PROVE  RecordedFrom(p, i + 1, f, k) <=> RecordedFrom(Tail(p), i, f, k)
  <1> DEFINE q == Tail(p)
             Writes(st) == \/ st.op = "record" /\ st.file = f /\ st.key = k
                           \/ f = "NPToken" /\ Unknown(st)
  <1>1. /\ Len(p) \in Nat /\ Len(p) >= 1 /\ Len(q) = Len(p) - 1
        /\ \A j \in 1 .. Len(q) : q[j] = p[j + 1]
    BY TailOf
  <1>0. \A x, m : RecordedFrom(x, m, f, k) <=>
           \E l \in m .. Len(x) : Writes(x[l]) /\ \A j \in m .. l : ~ StoresAt(x, j, f)
    BY DEF RecordedFrom
  <1> HIDE DEF q, Writes
  <1>2. ASSUME NEW l \in i .. Len(q)
        PROVE  l + 1 \in i + 1 .. Len(p) /\ q[l] = p[l + 1]
    BY <1>1
  <1>3. ASSUME NEW l \in i + 1 .. Len(p)
        PROVE  /\ l - 1 \in i .. Len(q) /\ q[l - 1] = p[l]
               /\ \A j \in i .. l - 1 : j + 1 \in i + 1 .. l /\ q[j] = p[j + 1]
               /\ \A j \in i + 1 .. l : j - 1 \in i .. l - 1 /\ q[j - 1] = p[j]
    BY <1>1
  <1>4. ASSUME RecordedFrom(p, i + 1, f, k) PROVE RecordedFrom(q, i, f, k)
    <2>1. PICK l \in i + 1 .. Len(p) :
              Writes(p[l]) /\ \A j \in i + 1 .. l : ~ StoresAt(p, j, f)
      BY <1>0, <1>4
    <2>2. l - 1 \in i .. Len(q) /\ Writes(q[l - 1])
      BY <1>3, <2>1
    <2>3. ASSUME NEW j \in i .. l - 1 PROVE ~ StoresAt(q, j, f)
      <3>1. j + 1 \in i + 1 .. l /\ q[j] = p[j + 1]
        BY <1>3
      <3>2. ~ StoresAt(p, j + 1, f)
        BY <2>1, <3>1
      <3> QED
        BY <3>1, <3>2 DEF StoresAt
    <2> QED
      BY <1>0, <2>2, <2>3
  <1>5. ASSUME RecordedFrom(q, i, f, k) PROVE RecordedFrom(p, i + 1, f, k)
    <2>1. PICK l \in i .. Len(q) : Writes(q[l]) /\ \A j \in i .. l : ~ StoresAt(q, j, f)
      BY <1>0, <1>5
    <2>2. l + 1 \in i + 1 .. Len(p) /\ Writes(p[l + 1])
      BY <1>2, <2>1
    <2>3. ASSUME NEW j \in i + 1 .. l + 1 PROVE ~ StoresAt(p, j, f)
      <3>1. (l + 1) - 1 = l
        OBVIOUS
      <3>2. j - 1 \in i .. l /\ q[j - 1] = p[j]
        BY <1>3, <2>2, <3>1
      <3>3. ~ StoresAt(q, j - 1, f)
        BY <2>1, <3>2
      <3> QED
        BY <3>2, <3>3 DEF StoresAt
    <2> QED
      BY <1>0, <2>2, <2>3
  <1> QED
    BY <1>4, <1>5 DEF q

LEMMA TailIsTidy ==
    ASSUME NEW p, p # <<>>, Tidy(p)
    PROVE  /\ Tidy(Tail(p))
           /\ WellNamed(p[1])
           /\ \A f \in Owing(p[1]) : SettledFrom(Tail(p), 1, f)
           /\ p[1].op \in {"create", "alter"} =>
                 RecordedFrom(Tail(p), 1, ListOf[p[1].kind], p[1].key)
  <1> DEFINE q == Tail(p)
  <1>1. /\ IsProgram(p) /\ IsProgram(q) /\ Len(p) \in Nat /\ Len(p) >= 1 /\ Len(q) = Len(p) - 1
        /\ \A j \in 1 .. Len(q) : q[j] = p[j + 1]
    BY TailOf DEF Tidy
  <1>2. \A f : SettledFrom(p, 1 + 1, f) => SettledFrom(q, 1, f)
    BY <1>1, SettledShift
  <1>3. \A f, k : RecordedFrom(p, 1 + 1, f, k) => RecordedFrom(q, 1, f, k)
    BY <1>1, RecordedShift
  <1>4. TidyAt(p, 1)
    BY <1>1 DEF Tidy
  <1>5. ASSUME NEW i \in 1 .. Len(q) PROVE TidyAt(q, i)
    <2>1. /\ i + 1 \in 1 .. Len(p) /\ i \in 1 .. Len(p) /\ q[i] = p[i + 1]
          /\ \A j \in i .. Len(q) : j + 1 \in i + 1 .. Len(p) /\ q[j] = p[j + 1]
          /\ \A j \in i + 1 .. Len(q) : j + 1 \in (i + 1) + 1 .. Len(p) /\ q[j] = p[j + 1]
      BY <1>1
    <2>2. TidyAt(p, i + 1)
      BY <2>1 DEF Tidy
    <2>3. i + 1 \in 1 .. Len(p) - 1 + 1 /\ (i + 1 \in 1 .. Len(p))
      BY <1>1
    <2>4. \A f \in Owing(q[i]) : SettledFrom(q, i + 1, f)
      <3>1. SUFFICES ASSUME NEW f \in Owing(q[i]) PROVE SettledFrom(q, i + 1, f)
        OBVIOUS
      <3>2. SettledFrom(p, (i + 1) + 1, f)
        BY <2>1, <2>2 DEF TidyAt
      <3> QED
        BY <1>1, <2>1, <3>2, SettledShift
    <2>5. q[i].op \in {"create", "alter"} => RecordedFrom(q, i + 1, ListOf[q[i].kind], q[i].key)
      <3>1. SUFFICES ASSUME q[i].op \in {"create", "alter"}
                     PROVE  RecordedFrom(q, i + 1, ListOf[q[i].kind], q[i].key)
        OBVIOUS
      <3>2. RecordedFrom(p, (i + 1) + 1, ListOf[q[i].kind], q[i].key)
        BY <2>1, <2>2, <3>1 DEF TidyAt
      <3> QED
        BY <1>1, <2>1, <3>2, RecordedShift
    <2>6. WellNamed(q[i])
      BY <2>1, <2>2 DEF TidyAt
    <2>7. q[i].op = "checkRole" => \A j \in i .. Len(q) : q[j].op # "store"
      BY <2>1, <2>2 DEF TidyAt
    <2>8. q[i].op = "clear" =>
             q[i].as = q[i].file /\ \A j \in i + 1 .. Len(q) : Uses(q[j]) \subseteq {q[i].as}
      BY <2>1, <2>2 DEF TidyAt
    <2> QED
      BY <2>4, <2>5, <2>6, <2>7, <2>8 DEF TidyAt
  <1> HIDE DEF q
  <1>6. /\ WellNamed(p[1])
        /\ \A f \in Owing(p[1]) : SettledFrom(q, 1, f)
        /\ p[1].op \in {"create", "alter"} =>
              RecordedFrom(q, 1, ListOf[p[1].kind], p[1].key)
    BY <1>2, <1>3, <1>4 DEF TidyAt
  <1> QED
    BY <1>1, <1>5, <1>6 DEF Tidy, q

\* What the rest of a program uses is among the session's copies, if what the
\* next step uses and reads is.
LEMMA TailHasCopies ==
    ASSUME NEW p, p # <<>>, Tidy(p), NEW copies, HasCopies(p, copies), NEW copiesNow,
           IF p[1].op = "clear" THEN copiesNow = {p[1].as}
             ELSE /\ copies \subseteq copiesNow
                  /\ p[1].op = "read" => p[1].file \in copiesNow
    PROVE  HasCopies(Tail(p), copiesNow) /\ Uses(p[1]) \subseteq copies
  <1> DEFINE q == Tail(p)
  <1>1. /\ IsProgram(p) /\ Len(p) \in Nat /\ Len(p) >= 1 /\ Len(q) = Len(p) - 1
        /\ \A j \in 1 .. Len(q) : q[j] = p[j + 1]
    BY TailOf DEF Tidy
  <1> HIDE DEF q
  <1>2. Uses(p[1]) \subseteq copies
    BY <1>1 DEF HasCopies, HasCopy
  <1>3. ASSUME NEW i \in 1 .. Len(q), NEW f \in Uses(q[i]) PROVE HasCopy(q, i, f, copiesNow)
    <2>1. i + 1 \in 1 .. Len(p) /\ i + 1 \in 1 + 1 .. Len(p) /\ 1 \in 1 .. Len(p)
          /\ q[i] = p[i + 1] /\ (i + 1) - 1 = i
      BY <1>1
    <2>2. \A j \in 1 .. i : j = 1 \/ (j - 1 \in 1 .. i - 1 /\ q[j - 1] = p[j])
      BY <1>1
    <2>3. HasCopy(p, i + 1, f, copies)
      BY <1>3, <2>1 DEF HasCopies
    <2>4. CASE p[1].op = "clear"
      <3>1. TidyAt(p, 1)
        BY <2>1 DEF Tidy
      <3>2. Uses(q[i]) \subseteq {p[1].as}
        BY <2>1, <2>4, <3>1 DEF TidyAt
      <3> QED
        BY <1>3, <2>4, <3>2 DEF HasCopy
    <2>5. CASE p[1].op # "clear"
      BY <2>1, <2>2, <2>3, <2>5 DEF HasCopy
    <2> QED
      BY <2>4, <2>5
  <1> QED
    BY <1>2, <1>3 DEF HasCopies, q

LEMMA MoreCopies ==
    ASSUME NEW p, NEW copies, HasCopies(p, copies), NEW more, copies \subseteq more
    PROVE  HasCopies(p, more)
  BY DEF HasCopies, HasCopy

\* A step that sends, looks up or reads.
Wiring(st) ==
    \/ st.op \in {"need", "call", "attach", "set", "checkRole", "grantRole"}
    \/ st.op = "read" /\ st.file \in Files

\* A step of the part of a script that deploys.
Deploying(st) ==
    \/ st.op = "need"
    \/ /\ st.op = "save" \/ (st.op = "deploy" /\ st.into = {"address"})
       /\ st.entry = EntryOf(st.name) /\ st.name \notin {"VoteEscrowedDegis", "ProxyAdmin"}

WiringProgram(p)    == IsProgram(p) /\ \A i \in 1 .. Len(p) : Wiring(p[i])
DeployingProgram(p) == IsProgram(p) /\ \A i \in 1 .. Len(p) : Deploying(p[i])

LEMMA WiringStepIs ==
    ASSUME NEW st, Wiring(st)
    PROVE  /\ WellNamed(st) /\ Owing(st) = {} /\ Uses(st) \subseteq {"address"}
           /\ st.op \notin {"store", "record", "clear", "create", "alter", "deploy", "save"}
  BY DEF Wiring, WellNamed, Owing, Uses

LEMMA DeployingStepIs ==
    ASSUME NEW st, Deploying(st)
    PROVE  /\ WellNamed(st) /\ Owing(st) \subseteq {"address"} /\ Uses(st) \subseteq {"address"}
           /\ st.op \in {"need", "deploy", "save"}
  BY DEF Deploying, WellNamed, Owing, Uses

LEMMA WiringIsTidy ==
    ASSUME NEW p, WiringProgram(p), Len(p) >= 1, p[1] = Read("address")
    PROVE  Tidy(p) /\ \A copies : HasCopies(p, copies)
  <1>1. ASSUME NEW i \in 1 .. Len(p) PROVE TidyAt(p, i)
    <2>1. \A j \in 1 .. Len(p) : Wiring(p[j])
      BY DEF WiringProgram
    <2>2. /\ WellNamed(p[i]) /\ Owing(p[i]) = {}
          /\ p[i].op \notin {"store", "record", "clear", "create", "alter", "deploy", "save"}
      BY <2>1, WiringStepIs
    <2>3. \A j \in i .. Len(p) : p[j].op # "store"
      BY <2>1, WiringStepIs
    <2> QED
      BY <2>2, <2>3 DEF TidyAt
  <1>2. ASSUME NEW copies, NEW i \in 1 .. Len(p), NEW f \in Uses(p[i])
        PROVE  HasCopy(p, i, f, copies)
    <2>1. f = "address"
      BY <1>2, WiringStepIs DEF WiringProgram
    <2>2. i # 1
      BY <1>2 DEF Uses, Read
    <2>3. 1 \in 1 .. i - 1 /\ p[1].op = "read" /\ p[1].file = "address"
      BY <2>2 DEF Read
    <2> QED
      BY <2>1, <2>3 DEF HasCopy
  <1> QED
    BY <1>1, <1>2 DEF Tidy, HasCopies, WiringProgram

\* A script: it reads the book, deploys, stores the book and then sends.
LEMMA ScriptOrder ==
    ASSUME NEW p, IsProgram(p), NEW m \in Nat, m >= 2, m <= Len(p),
           p[1] = Read("address"), p[m] = Store("address"),
           \A i \in 2 .. m - 1 : Deploying(p[i]),
           \A i \in m + 1 .. Len(p) : Wiring(p[i])
    PROVE  Tidy(p) /\ \A copies : HasCopies(p, copies)
  <1>0. Len(p) \in Nat
    BY DEF IsProgram
  <1>1. "address" \in Files
    BY DEF Files
  <1>2. ASSUME NEW i \in 1 .. Len(p)
        PROVE  i = 1 \/ i \in 2 .. m - 1 \/ i = m \/ i \in m + 1 .. Len(p)
    BY <1>0
  <1>3. \A i \in 1 .. Len(p) : p[i].op \notin {"clear", "record", "create", "alter"}
    BY <1>2, WiringStepIs, DeployingStepIs DEF Read, Store
  <1>4. ASSUME NEW i \in 1 .. Len(p) PROVE TidyAt(p, i)
    <2>1. WellNamed(p[i])
      BY <1>1, <1>2, WiringStepIs, DeployingStepIs DEF Read, Store, WellNamed
    <2>2. \A f \in Owing(p[i]) : SettledFrom(p, i + 1, f)
      <3>1. SUFFICES ASSUME NEW f \in Owing(p[i]) PROVE SettledFrom(p, i + 1, f)
        OBVIOUS
      <3>2. i \in 2 .. m - 1 /\ f = "address"
        BY <1>2, <3>1, WiringStepIs, DeployingStepIs DEF Read, Store, Owing
      <3>3. m \in i + 1 .. Len(p) /\ StoresAt(p, m, f)
        BY <1>0, <3>2 DEF StoresAt, Store
      <3>4. ASSUME NEW j \in i + 1 .. m PROVE ~ ReadsAt(p, j, f)
        <4>1. j \in 2 .. m - 1 \/ j = m
          BY <3>2
        <4> QED
          BY <4>1, DeployingStepIs DEF Store, ReadsAt
      <3>5. \A j \in i + 1 .. Len(p) : p[j].op # "clear"
        BY <1>3
      <3> QED
        BY <3>3, <3>4, <3>5 DEF SettledFrom
    <2>3. p[i].op = "checkRole" => \A j \in i .. Len(p) : p[j].op # "store"
      <3>1. SUFFICES ASSUME p[i].op = "checkRole", NEW j \in i .. Len(p)
                     PROVE  p[j].op # "store"
        OBVIOUS
      <3>2. i \in m + 1 .. Len(p)
        BY <1>2, <3>1, DeployingStepIs DEF Read, Store
      <3>3. j \in m + 1 .. Len(p)
        BY <1>0, <3>2
      <3> QED
        BY <3>3, WiringStepIs
    <2> QED
      BY <1>3, <2>1, <2>2, <2>3 DEF TidyAt
  <1>5. ASSUME NEW copies, NEW i \in 1 .. Len(p), NEW f \in Uses(p[i])
        PROVE  HasCopy(p, i, f, copies)
    <2>1. f = "address" /\ i # 1
      BY <1>2, <1>5, WiringStepIs, DeployingStepIs DEF Uses, Read, Store
    <2>2. 1 \in 1 .. i - 1 /\ p[1].op = "read" /\ p[1].file = "address"
      BY <2>1 DEF Read
    <2> QED
      BY <2>1, <2>2 DEF HasCopy
  <1> QED
    BY <1>4, <1>5 DEF Tidy, HasCopies

LEMMA OrderedTuples ==
    /\ WiringProgram(<<>>)
    /\ \A a : Wiring(a) => WiringProgram(<<a>>)
    /\ \A a, b : Wiring(a) /\ Wiring(b) => WiringProgram(<<a, b>>)
    /\ \A a, b, c : Wiring(a) /\ Wiring(b) /\ Wiring(c) => WiringProgram(<<a, b, c>>)
    /\ DeployingProgram(<<>>)
    /\ \A a : Deploying(a) => DeployingProgram(<<a>>)
    /\ \A a, b : Deploying(a) /\ Deploying(b) => DeployingProgram(<<a, b>>)
    /\ \A a, b, c : Deploying(a) /\ Deploying(b) /\ Deploying(c)
                       => DeployingProgram(<<a, b, c>>)
  <1>0. WiringProgram(<<>>) /\ DeployingProgram(<<>>)
    <2>1. <<>> \in Seq({}) /\ Len(<<>>) = 0
      OBVIOUS
    <2> QED
      BY <2>1 DEF WiringProgram, DeployingProgram, IsProgram
  <1>1. ASSUME NEW a PROVE /\ Wiring(a) => WiringProgram(<<a>>)
                           /\ Deploying(a) => DeployingProgram(<<a>>)
    BY TupleIsProgram DEF WiringProgram, DeployingProgram
  <1>2. ASSUME NEW a, NEW b
        PROVE  /\ Wiring(a) /\ Wiring(b) => WiringProgram(<<a, b>>)
               /\ Deploying(a) /\ Deploying(b) => DeployingProgram(<<a, b>>)
    BY TupleIsProgram DEF WiringProgram, DeployingProgram
  <1>3. ASSUME NEW a, NEW b, NEW c
        PROVE  /\ Wiring(a) /\ Wiring(b) /\ Wiring(c) => WiringProgram(<<a, b, c>>)
               /\ Deploying(a) /\ Deploying(b) /\ Deploying(c) => DeployingProgram(<<a, b, c>>)
    BY TupleIsProgram DEF WiringProgram, DeployingProgram
  <1> QED
    BY <1>0, <1>1, <1>2, <1>3

LEMMA OrderedSteps ==
    /\ \A f \in Files : Wiring(Read(f))
    /\ \A x : Wiring(Call(x)) /\ Wiring(Attach(x)) /\ Deploying(Need(x))
    /\ \A x, y, z : Wiring(Set(x, y, z))
    /\ \A x : x \in {"VeDEG", "VoteEscrowedDegis", "ProxyAdmin"} \/
          (Deploying(Save(x)) /\ \A y : Deploying(Plain(x, y)) /\ Deploying(Proxied(x, y)))
    /\ \A y : Deploying(ProxiedAs("VeDEG", "VoteEscrowedDegis", y))
  BY DEF Wiring, Deploying, Read, Need, Call, Attach, Save, Plain, Proxied, Set, ProxiedAs,
         DeployTo, EntryOf

\* A script, up to the store of its copy of the book, and what follows.
Scripted(p) ==
    /\ IsProgram(p)
    /\ \E m \in Nat :
          /\ m >= 2 /\ m <= Len(p) /\ p[1] = Read("address") /\ p[m] = Store("address")
          /\ \A i \in 2 .. m - 1 : Deploying(p[i])
          /\ \A i \in m + 1 .. Len(p) : Wiring(p[i])

LEMMA ScriptedIsTidy ==
    ASSUME NEW p, Scripted(p) PROVE Tidy(p) /\ \A copies : HasCopies(p, copies)
  <1>1. PICK m \in Nat :
           /\ m >= 2 /\ m <= Len(p) /\ p[1] = Read("address") /\ p[m] = Store("address")
           /\ \A i \in 2 .. m - 1 : Deploying(p[i])
           /\ \A i \in m + 1 .. Len(p) : Wiring(p[i])
    BY DEF Scripted
  <1>2. IsProgram(p)
    BY DEF Scripted
  <1> QED
    BY <1>1, <1>2, ScriptOrder

LEMMA ScriptIsScripted ==
    ASSUME NEW names, NEW deploys, DeployingProgram(deploys)
    PROVE  Scripted(Script(names, deploys))
  <1> DEFINE first == <<Read("address")>>
             needs == IF names = {} THEN <<>> ELSE <<Need(names)>>
             last == <<Store("address")>>
             a == first \o needs
             b == a \o deploys
             p == b \o last
  <1>1. /\ IsProgram(first) /\ Len(first) = 1 /\ first[1] = Read("address")
        /\ IsProgram(last) /\ Len(last) = 1 /\ last[1] = Store("address")
    BY TupleIsProgram
  <1>2. DeployingProgram(needs)
    BY OrderedTuples, OrderedSteps
  <1> HIDE DEF first, needs, last
  <1>3. /\ IsProgram(a) /\ Len(a) \in Nat /\ Len(a) >= 1 /\ a[1] = Read("address")
        /\ \A i \in 2 .. Len(a) : Deploying(a[i])
    <2>1. /\ IsProgram(a) /\ Len(a) = Len(first) + Len(needs) /\ Len(needs) \in Nat
          /\ \A i \in 1 .. Len(first) : a[i] = first[i]
          /\ \A i \in 1 .. Len(a) :
                i \in 1 .. Len(first) \/ (i - Len(first) \in 1 .. Len(needs)
                                            /\ a[i] = needs[i - Len(first)])
      BY <1>1, <1>2, Joined DEF DeployingProgram
    <2> HIDE DEF a
    <2>2. \A i \in 1 .. Len(needs) : Deploying(needs[i])
      BY <1>2 DEF DeployingProgram
    <2> QED
      BY <1>1, <2>1, <2>2
  <1> HIDE DEF a
  <1>4. /\ IsProgram(b) /\ Len(b) \in Nat /\ Len(b) >= 1 /\ b[1] = Read("address")
        /\ \A i \in 2 .. Len(b) : Deploying(b[i])
    <2>1. /\ IsProgram(b) /\ Len(b) = Len(a) + Len(deploys) /\ Len(deploys) \in Nat
          /\ \A i \in 1 .. Len(a) : b[i] = a[i]
          /\ \A i \in 1 .. Len(b) :
                i \in 1 .. Len(a) \/ (i - Len(a) \in 1 .. Len(deploys)
                                            /\ b[i] = deploys[i - Len(a)])
      BY <1>3, Joined DEF DeployingProgram
    <2> HIDE DEF b
    <2>2. \A i \in 1 .. Len(deploys) : Deploying(deploys[i])
      BY DEF DeployingProgram
    <2> QED
      BY <1>3, <2>1, <2>2
  <1> HIDE DEF b
  <1>5. /\ IsProgram(p) /\ Len(p) = Len(b) + 1
        /\ \A i \in 1 .. Len(b) : p[i] = b[i]
        /\ p[Len(b) + 1] = Store("address")
    BY <1>1, <1>4, Joined
  <1> HIDE DEF p
  <1>6. PICK m \in Nat : m = Len(p)
    BY <1>4, <1>5
  <1>7. /\ m >= 2 /\ m <= Len(p) /\ p[1] = Read("address") /\ p[m] = Store("address")
        /\ \A i \in 2 .. m - 1 : Deploying(p[i])
        /\ \A i \in m + 1 .. Len(p) : Wiring(p[i])
    BY <1>4, <1>5, <1>6
  <1>8. Scripted(p)
    BY <1>5, <1>7 DEF Scripted
  <1> QED
    BY <1>8 DEF Script, p, b, a, first, needs, last

LEMMA ScriptedThenWiring ==
    ASSUME NEW p, Scripted(p), NEW q, WiringProgram(q)
    PROVE  Scripted(p \o q)
  <1>1. PICK m \in Nat :
           /\ m >= 2 /\ m <= Len(p) /\ p[1] = Read("address") /\ p[m] = Store("address")
           /\ \A i \in 2 .. m - 1 : Deploying(p[i])
           /\ \A i \in m + 1 .. Len(p) : Wiring(p[i])
    BY DEF Scripted
  <1> DEFINE r == p \o q
  <1>2. /\ IsProgram(r) /\ Len(p) \in Nat /\ Len(q) \in Nat /\ Len(r) = Len(p) + Len(q)
        /\ \A i \in 1 .. Len(p) : r[i] = p[i]
        /\ \A i \in 1 .. Len(r) :
              i \in 1 .. Len(p) \/ (i - Len(p) \in 1 .. Len(q) /\ r[i] = q[i - Len(p)])
    BY Joined DEF Scripted, WiringProgram
  <1> HIDE DEF r
  <1>3. \A i \in 1 .. Len(q) : Wiring(q[i])
    BY DEF WiringProgram
  <1>4. m <= Len(r) /\ r[1] = Read("address") /\ r[m] = Store("address")
    BY <1>1, <1>2
  <1>5. ASSUME NEW i \in 2 .. m - 1 PROVE Deploying(r[i])
    BY <1>1, <1>2
  <1>6. ASSUME NEW i \in m + 1 .. Len(r) PROVE Wiring(r[i])
    <2>1. i \in 1 .. Len(r)
      OBVIOUS
    <2>2. CASE i \in 1 .. Len(p)
      BY <1>1, <1>2, <2>2
    <2>3. CASE i - Len(p) \in 1 .. Len(q) /\ r[i] = q[i - Len(p)]
      BY <1>3, <2>3
    <2> QED
      BY <1>2, <2>1, <2>2, <2>3
  <1> QED
    BY <1>1, <1>2, <1>4, <1>5, <1>6 DEF Scripted, r

\* Tidy wherever and whenever it is started.
AlwaysTidy(p) == Tidy(p) /\ \A copies : HasCopies(p, copies)

LEMMA RolesAreWiring ==
    \A a, b, c : /\ Wiring([op |-> "checkRole", role |-> a, token |-> b, entry |-> c])
                 /\ Wiring([op |-> "grantRole", role |-> a, token |-> b, entry |-> c])
  BY DEF Wiring

LEMMA ScriptsAreTidy ==
    ASSUME NEW net, NEW x \in ScriptOf(net) PROVE AlwaysTidy(x.steps)
  <1>1. "address" \in Files /\ Wiring(Read("address"))
    BY OrderedSteps DEF Files
  <1>2. /\ \A a, b, c : WiringProgram(AddMinterBurner(a, b, c))
        /\ WiringProgram(SetVRFMock) /\ WiringProgram(SetTreasury) /\ WiringProgram(SetVRF)
        /\ WiringProgram(SetFDPolicyFlow) /\ WiringProgram(SetFDPolicyToken)
        /\ WiringProgram(SetFDOracle) /\ WiringProgram(SetFDInsurancePool)
        /\ WiringProgram(SetIncomeMakerInFactory)
    BY <1>1, OrderedSteps, OrderedTuples, RolesAreWiring
       DEF AddMinterBurner, SetVRFMock, SetTreasury, SetVRF, SetFDPolicyFlow, SetFDPolicyToken,
           SetFDOracle, SetFDInsurancePool, SetIncomeMakerInFactory
  <1>3. AlwaysTidy(Deploy00ProxyAdmin)
    <2> DEFINE st == DeployTo({"address", "proxyAdmin"}, "ProxyAdmin", "ProxyAdmin", "none", NoArgs)
               p == <<Read("address"), Read("proxyAdmin"), st, Store("address"),
                      Store("proxyAdmin")>>
    <2>1. /\ p[1] = Read("address") /\ p[2] = Read("proxyAdmin") /\ p[3] = st
          /\ p[4] = Store("address") /\ p[5] = Store("proxyAdmin") /\ Len(p) = 5
          /\ IsProgram(p)
      BY TupleIsProgram
    <2>2. /\ p[1].op = "read" /\ p[1].file = "address" /\ p[2].op = "read"
          /\ p[2].file = "proxyAdmin"
          /\ p[3].op = "deploy" /\ p[3].into = {"address", "proxyAdmin"}
          /\ p[3].name = "ProxyAdmin" /\ p[3].entry = "ProxyAdmin"
          /\ p[4].op = "store" /\ p[4].file = "address"
          /\ p[5].op = "store" /\ p[5].file = "proxyAdmin"
      BY <2>1 DEF Read, DeployTo, Store
    <2> HIDE DEF p, st
    <2>3. SettledFrom(p, 4, "address") /\ SettledFrom(p, 4, "proxyAdmin")
      <3>1. 4 \in 4 .. Len(p) /\ 5 \in 4 .. Len(p) /\ \A j \in 4 .. Len(p) : j \in {4, 5}
        BY <2>1
      <3>2. \A j \in 4 .. Len(p) : p[j].op = "store"
        BY <2>2, <3>1
      <3>3. \A j \in 4 .. 4 : j \in 4 .. Len(p)
        BY <2>1
      <3>4. \A j \in 4 .. 5 : j \in 4 .. Len(p)
        BY <2>1
      <3>5. StoresAt(p, 4, "address") /\ StoresAt(p, 5, "proxyAdmin")
        BY <2>2 DEF StoresAt
      <3>6. /\ \A j \in 4 .. 4 : ~ ReadsAt(p, j, "address")
            /\ \A j \in 4 .. 5 : ~ ReadsAt(p, j, "proxyAdmin")
        BY <3>2, <3>3, <3>4 DEF ReadsAt
      <3>7. \A j \in 4 .. Len(p) : p[j].op # "clear"
        BY <3>2
      <3> QED
        BY <3>1, <3>5, <3>6, <3>7 DEF SettledFrom
    <2>4. ASSUME NEW i \in 1 .. 5 PROVE TidyAt(p, i)
      <3>1. i \in {1, 2, 3, 4, 5}
        OBVIOUS
      <3>2. WellNamed(p[i]) /\ p[i].op \notin {"create", "alter", "checkRole", "clear"}
        BY <2>2, <3>1 DEF WellNamed, Files, EntryOf
      <3>3. Owing(p[i]) = IF i = 3 THEN {"address", "proxyAdmin"} ELSE {}
        BY <2>2, <3>1 DEF Owing
      <3>4. \A f \in Owing(p[i]) : SettledFrom(p, i + 1, f)
        <4>1. i = 3 => i + 1 = 4
          OBVIOUS
        <4> QED
          BY <2>3, <3>3, <4>1
      <3> QED
        BY <3>2, <3>4 DEF TidyAt
    <2>5. ASSUME NEW copies, NEW i \in 1 .. 5, NEW f \in Uses(p[i]) PROVE HasCopy(p, i, f, copies)
      <3>1. i \in {1, 2, 3, 4, 5}
        OBVIOUS
      <3>2. i \in 3 .. 5 /\ f \in {"address", "proxyAdmin"}
        BY <2>2, <2>5, <3>1 DEF Uses
      <3>3. 1 \in 1 .. i - 1 /\ 2 \in 1 .. i - 1
        BY <3>2
      <3> QED
        BY <2>2, <3>2, <3>3 DEF HasCopy
    <2>6. AlwaysTidy(p)
      BY <2>1, <2>4, <2>5 DEF AlwaysTidy, Tidy, HasCopies, p
    <2> QED
      BY <2>6 DEF Deploy00ProxyAdmin, p, st
  <1>4. \A names, deploys : DeployingProgram(deploys) => Scripted(Script(names, deploys))
    BY ScriptIsScripted
  <1>5. /\ Scripted(Deploy01Tokens(net)) /\ Scripted(Deploy02EmergencyPool)
        /\ Scripted(Deploy03Farming) /\ Scripted(Deploy06FlightDelay)
    BY <1>4, OrderedSteps, OrderedTuples
       DEF Deploy01Tokens, Deploy02EmergencyPool, Deploy03Farming, Deploy06FlightDelay
  <1>6. /\ Scripted(Deploy07PolicyFlow) /\ Scripted(Deploy09PriceGetter)
        /\ Scripted(Deploy10NaughtyPrice(net)) /\ Scripted(Deploy11Staking)
        /\ Scripted(Deploy12VeDEG) /\ Scripted(Deploy13IncomeSharingVault)
    <2>1. Deploying(DeployTo({"address"}, "PolicyFlow", "PolicyFlow", "execute",
                          [insurancePool |-> Book("InsurancePool"),
                           policyToken |-> Book("FDPolicyToken"),
                           sigManager |-> Book("SigManager"),
                           buyerToken |-> Book("BuyerToken")]))
      BY DEF Deploying, DeployTo, EntryOf
    <2> QED
      BY <1>4, <2>1, OrderedSteps, OrderedTuples
         DEF Deploy07PolicyFlow, Deploy09PriceGetter, Deploy10NaughtyPrice, Deploy11Staking,
             Deploy12VeDEG, Deploy13IncomeSharingVault
  <1>7. /\ Scripted(Deploy15ILM) /\ Scripted(Deploy16IDOPriceGetter)
        /\ Scripted(Deploy17DoubleRewarder) /\ Scripted(Deploy18MockERC20)
        /\ Scripted(Deploy19Shield) /\ Scripted(Deploy20IncomeSharingCompensate)
        /\ Scripted(Deploy21ArbitraryPriceGetter)
    BY <1>4, OrderedSteps, OrderedTuples
       DEF Deploy15ILM, Deploy16IDOPriceGetter, Deploy17DoubleRewarder, Deploy18MockERC20,
           Deploy19Shield, Deploy20IncomeSharingCompensate, Deploy21ArbitraryPriceGetter
  <1>8. Scripted(Deploy04PurchaseIncentive(net))
    BY <1>2, <1>4, OrderedSteps, OrderedTuples, ScriptedThenWiring DEF Deploy04PurchaseIncentive
  <1>9. Scripted(Deploy05LuckyBox(net))
    BY <1>2, <1>4, OrderedSteps, OrderedTuples, ScriptedThenWiring DEF Deploy05LuckyBox
  <1>10. Scripted(Deploy08FDOracle)
    BY <1>2, <1>4, OrderedSteps, OrderedTuples, ScriptedThenWiring DEF Deploy08FDOracle
  <1>11. Scripted(Deploy14IncomeMaker)
    BY <1>2, <1>4, OrderedSteps, OrderedTuples, ScriptedThenWiring DEF Deploy14IncomeMaker
  <1>12. \A p : Scripted(p) => AlwaysTidy(p)
    BY ScriptedIsTidy DEF AlwaysTidy
  <1> QED
    BY <1>3, <1>5, <1>6, <1>7, <1>8, <1>9, <1>10, <1>11, <1>12 DEF ScriptOf, Named

\* Every task of TaskOf reads the book and sends.
LEMMA SendingIsTidy ==
    /\ AlwaysTidy(<<Read("address")>>)
    /\ \A a : Wiring(a) => AlwaysTidy(<<Read("address"), a>>)
    /\ \A a, b : Wiring(a) /\ Wiring(b) => AlwaysTidy(<<Read("address"), a, b>>)
  <1>1. Wiring(Read("address"))
    BY OrderedSteps DEF Files
  <1>2. AlwaysTidy(<<Read("address")>>)
    BY <1>1, TupleIsProgram, OrderedTuples, WiringIsTidy DEF AlwaysTidy
  <1>3. ASSUME NEW a, Wiring(a) PROVE AlwaysTidy(<<Read("address"), a>>)
    BY <1>1, <1>3, OrderedTuples, WiringIsTidy DEF AlwaysTidy
  <1>4. ASSUME NEW a, NEW b, Wiring(a), Wiring(b) PROVE AlwaysTidy(<<Read("address"), a, b>>)
    BY <1>1, <1>4, OrderedTuples, WiringIsTidy DEF AlwaysTidy
  <1> QED
    BY <1>2, <1>3, <1>4

ReadsBook(st) == st = Read("address")

LEMMA SendsAreTidy ==
    /\ ReadsBook(Read("address"))
    /\ \A x : Wiring(Call(x)) /\ Wiring(Attach(x))
    /\ \A x, y, z : Wiring(Set(x, y, z))
    /\ \A a : ReadsBook(a) => AlwaysTidy(<<a>>)
    /\ \A a, b : ReadsBook(a) /\ Wiring(b) => AlwaysTidy(<<a, b>>)
    /\ \A a, b, c : ReadsBook(a) /\ Wiring(b) /\ Wiring(c) => AlwaysTidy(<<a, b, c>>)
  BY SendingIsTidy, OrderedSteps DEF ReadsBook

LEMMA TasksAreTidy ==
    ASSUME NEW net, NEW x \in TaskOf(net) PROVE AlwaysTidy(x.steps)
  <1>1. \A target : AlwaysTidy(Send(target))
    BY SendsAreTidy DEF Send
  <1>2. \A target, tasks : \A y \in Sends(target, tasks) : AlwaysTidy(y.steps)
    BY <1>1 DEF Sends, Named
  <1>3. \A a, b, c : AlwaysTidy(AddMinterBurner(a, b, c))
    BY RolesAreWiring, SendingIsTidy DEF AddMinterBurner
  <1>4. /\ AlwaysTidy(SetVRFMock) /\ AlwaysTidy(SetTreasury) /\ AlwaysTidy(SetVRF)
        /\ AlwaysTidy(SetFDPolicyFlow) /\ AlwaysTidy(SetFDPolicyToken)
        /\ AlwaysTidy(SetFDOracle) /\ AlwaysTidy(SetFDInsurancePool)
        /\ AlwaysTidy(SetIncomeMakerInFactory)
    BY SendsAreTidy
       DEF SetVRFMock, SetTreasury, SetVRF, SetFDPolicyFlow, SetFDPolicyToken,
           SetFDOracle, SetFDInsurancePool, SetIncomeMakerInFactory
  <1>5. ASSUME x \in NaughtyPriceWiring \cup CoreIncomeWiring \cup AddPriceFeed
                      \cup ArbitraryWiring \cup LotteryWiring \cup SetOperator
                      \cup FlightWiring \cup IncomeWiring
        PROVE  AlwaysTidy(x.steps)
    BY <1>1, <1>4, <1>5, SendsAreTidy
       DEF NaughtyPriceWiring, CoreIncomeWiring, AddPriceFeed, ArbitraryWiring,
           LotteryWiring, SetOperator, FlightWiring, IncomeWiring, Named
  <1>6. ASSUME x \in FarmingTasks \cup DoubleRewardTasks \cup TokenRoles \cup MintTasks(net)
                      \cup LotteryRoundTasks \cup RequestRandom \cup LotteryTicketTasks
                      \cup PurchaseIncentiveTasks
        PROVE  AlwaysTidy(x.steps)
    BY <1>1, <1>2, <1>3, <1>6, SendsAreTidy
       DEF FarmingTasks, DoubleRewardTasks, TokenRoles, MintTasks, LotteryRoundTasks,
           RequestRandom, LotteryTicketTasks, PurchaseIncentiveTasks, Named
  <1>7. ASSUME x \in IncomePoolTasks \cup UpdateLastRewardBalance \cup ConvertIncome
                      \cup VeDEGTasks \cup VeDEGLockTasks \cup FlightOracleTasks
                      \cup SetFrozenTime \cup SignerTasks \cup PolicyFlowTasks \cup CoreTasks
        PROVE  AlwaysTidy(x.steps)
    BY <1>1, <1>2, <1>7, SendsAreTidy
       DEF IncomePoolTasks, UpdateLastRewardBalance, ConvertIncome, VeDEGTasks,
           VeDEGLockTasks, FlightOracleTasks, SetFrozenTime, SignerTasks, PolicyFlowTasks,
           CoreTasks, Named
  <1>8. ASSUME x \in AddStablecoin \cup NPUserAction(net) \cup PriceFeedTasks
                      \cup SetIDOPrice \cup ArbitraryFeedTasks \cup StakingTasks
                      \cup ShieldTasks \cup EmergencyPoolTasks \cup ILMTasks \cup ProxyTasks
        PROVE  AlwaysTidy(x.steps)
    BY <1>1, <1>2, <1>8, SendsAreTidy
       DEF AddStablecoin, NPUserAction, PriceFeedTasks, SetIDOPrice, ArbitraryFeedTasks,
           StakingTasks, ShieldTasks, EmergencyPoolTasks, ILMTasks, ProxyTasks, Named
  <1> QED
    BY <1>5, <1>6, <1>7, <1>8 DEF TaskOf

LEMMA ClearsAreTidy ==
    ASSUME NEW x \in ClearRecord, x.name # "NaughtyPool" PROVE AlwaysTidy(x.steps)
  <1>1. PICK f \in Files : x.steps = Clear(f, f)
    BY DEF ClearRecord, Named, Files
  <1> DEFINE p == Clear(f, f)
  <1>2. /\ IsProgram(p) /\ Len(p) = 3
        /\ p[1].op = "read" /\ p[1].file = f
        /\ p[2].op = "clear" /\ p[2].file = f /\ p[2].as = f
        /\ p[3].op = "store" /\ p[3].file = f
    BY TupleIsProgram DEF Clear, Read, Store
  <1> HIDE DEF p
  <1>3. ASSUME NEW i \in 1 .. 3 PROVE TidyAt(p, i)
    <2>1. i \in {1, 2, 3}
      OBVIOUS
    <2>2. /\ WellNamed(p[i]) /\ Owing(p[i]) = {}
          /\ p[i].op \notin {"create", "alter", "checkRole"}
      BY <1>2, <2>1 DEF WellNamed, Owing
    <2>3. \A j \in 2 + 1 .. Len(p) : j = 3
      BY <1>2
    <2>4. p[i].op = "clear" =>
             p[i].as = p[i].file /\ \A j \in i + 1 .. Len(p) : Uses(p[j]) \subseteq {p[i].as}
      BY <1>2, <2>1, <2>3 DEF Uses
    <2> QED
      BY <2>2, <2>4 DEF TidyAt
  <1>4. ASSUME NEW copies, NEW i \in 1 .. 3, NEW g \in Uses(p[i]) PROVE HasCopy(p, i, g, copies)
    <2>1. i \in {1, 2, 3}
      OBVIOUS
    <2>2. i \in 2 .. 3 /\ g = f
      BY <1>2, <1>4, <2>1 DEF Uses
    <2>3. 1 \in 1 .. i - 1
      BY <2>2
    <2> QED
      BY <1>2, <2>2, <2>3 DEF HasCopy
  <1> QED
    BY <1>1, <1>2, <1>3, <1>4 DEF AlwaysTidy, Tidy, HasCopies, p

\* A list task: it reads, has one thing created or changed, looks, records what
\* it asked for and stores the list.
LEMMA ListTaskIsTidy ==
    ASSUME NEW p, IsProgram(p), NEW n \in Nat, Len(p) = n + 2, NEW c \in 2 .. n,
           NEW kind \in Kinds, NEW copies,
           p[1] = Read("address"),
           \A i \in 1 .. c - 1 : (p[i].op = "read" /\ p[i].file \in Files) \/ p[i].op = "check",
           p[c].op \in {"create", "alter"}, p[c].kind = kind,
           kind = "token" => p[c].key # "misspelt",
           \A i \in c + 1 .. n : p[i].op \in {"attach", "check"},
           p[n + 1].op = "record", p[n + 1].kind = kind, p[n + 1].file = ListOf[kind],
           p[n + 2].op = "store", p[n + 2].file = ListOf[kind],
           \/ p[n + 1].key = p[c].key
           \/ kind = "token" /\ \E l \in c + 1 .. n : Unknown(p[l]),
           HasCopy(p, c, ListOf[kind], copies)
    PROVE  Tidy(p) /\ HasCopies(p, copies)
  <1> DEFINE f == ListOf[kind]
  <1>1. f \in Files /\ "address" \in Files
    BY DEF Kinds, ListOf, Files
  <1>2. ASSUME NEW i \in 1 .. Len(p)
        PROVE  i \in 1 .. c - 1 \/ i = c \/ i \in c + 1 .. n \/ i = n + 1 \/ i = n + 2
    OBVIOUS
  <1>3. ASSUME NEW i \in c + 1 .. n + 2 PROVE i \in c + 1 .. n \/ i = n + 1 \/ i = n + 2
    OBVIOUS
  <1>4. kind = "token" => f = "NPToken"
    BY DEF ListOf
  <1> HIDE DEF f
  <1>5. SettledFrom(p, c + 1, f)
    <2>1. n + 2 \in c + 1 .. Len(p) /\ StoresAt(p, n + 2, f)
      BY DEF StoresAt, f
    <2>2. \A j \in c + 1 .. n + 2 : p[j].op \notin {"read", "clear"}
      BY <1>3
    <2>3. \A j \in c + 1 .. n + 2 : ~ ReadsAt(p, j, f)
      BY <2>2 DEF ReadsAt
    <2> QED
      BY <2>1, <2>2, <2>3 DEF SettledFrom
  <1>6. RecordedFrom(p, c + 1, f, p[c].key)
    <2>1. CASE p[n + 1].key = p[c].key
      <3>1. n + 1 \in c + 1 .. Len(p)
        OBVIOUS
      <3>2. \A j \in c + 1 .. n + 1 : p[j].op # "store"
        <4>1. \A j \in c + 1 .. n + 1 : j \in c + 1 .. n \/ j = n + 1
          OBVIOUS
        <4> QED
          BY <4>1
      <3>3. \A j \in c + 1 .. n + 1 : ~ StoresAt(p, j, f)
        BY <3>2 DEF StoresAt
      <3>4. p[n + 1].op = "record" /\ p[n + 1].file = f /\ p[n + 1].key = p[c].key
        BY <2>1 DEF f
      <3> QED
        BY <3>1, <3>3, <3>4 DEF RecordedFrom
    <2>2. ASSUME kind = "token", NEW l \in c + 1 .. n, Unknown(p[l])
          PROVE  RecordedFrom(p, c + 1, f, p[c].key)
      <3>1. l \in c + 1 .. Len(p) /\ \A j \in c + 1 .. l : j \in c + 1 .. n
        OBVIOUS
      <3>2. \A j \in c + 1 .. l : ~ StoresAt(p, j, f)
        BY <3>1 DEF StoresAt
      <3> QED
        BY <1>4, <2>2, <3>1, <3>2 DEF RecordedFrom
    <2> QED
      BY <2>1, <2>2
  <1>7. ASSUME NEW i \in 1 .. Len(p) PROVE TidyAt(p, i)
    <2>1. WellNamed(p[i]) /\ p[i].op \notin {"checkRole", "clear"}
      BY <1>1, <1>2 DEF WellNamed, f
    <2>2. CASE i = c
      <3>1. Owing(p[i]) = {f}
        BY <2>2 DEF Owing, f
      <3> QED
        BY <1>5, <1>6, <2>1, <2>2, <3>1 DEF TidyAt, f
    <2>3. CASE i # c
      <3>1. p[i].op \in {"read", "check", "attach", "record", "store"}
        BY <1>2, <2>3
      <3>2. Owing(p[i]) = {}
        BY <3>1 DEF Owing
      <3> QED
        BY <2>1, <3>1, <3>2 DEF TidyAt
    <2> QED
      BY <2>2, <2>3
  <1>8. ASSUME NEW i \in 1 .. Len(p), NEW g \in Uses(p[i]) PROVE HasCopy(p, i, g, copies)
    <2>1. CASE i \in 1 .. c - 1
      BY <1>8, <2>1 DEF Uses
    <2>2. CASE i \in c .. n
      <3>1. g = "address"
        <4>1. p[i].op \in {"create", "alter", "attach", "check"}
          <5>1. i = c \/ i \in c + 1 .. n
            BY <2>2
          <5> QED
            BY <5>1
        <4> QED
          BY <1>8, <4>1 DEF Uses
      <3>2. 1 \in 1 .. i - 1 /\ p[1].op = "read" /\ p[1].file = "address"
        BY <2>2 DEF Read
      <3> QED
        BY <3>1, <3>2 DEF HasCopy
    <2>3. CASE i \in {n + 1, n + 2}
      <3>1. g = f
        BY <1>8, <2>3 DEF Uses, f
      <3>2. \A j \in 1 .. c - 1 : j \in 1 .. i - 1
        BY <2>3
      <3> QED
        BY <3>1, <3>2 DEF HasCopy, f
    <2> QED
      BY <1>2, <2>1, <2>2, <2>3
  <1> QED
    BY <1>7, <1>8 DEF Tidy, HasCopies

LEMMA ListTasksAreTidy ==
    ASSUME NEW name, name # "misspelt"
    PROVE  /\ Tidy(DeployNPToken(name, name)) /\ HasCopies(DeployNPToken(name, name), {})
           /\ Tidy(DeployNPToken("misspelt", name))
           /\ HasCopies(DeployNPToken("misspelt", name), {})
           /\ Tidy(DeployNPPool(name)) /\ HasCopies(DeployNPPool(name), {})
           /\ Tidy(StartILM(name)) /\ HasCopies(StartILM(name), {})
           /\ Tidy(StopILM(name)) /\ HasCopies(StopILM(name), {})
  <1>0. /\ "token" \in Kinds /\ ListOf["token"] = "NPToken" /\ "pool" \in Kinds
        /\ ListOf["pool"] = "NPPool" /\ "ilm" \in Kinds /\ ListOf["ilm"] = "ILM"
        /\ {"address", "NPToken", "NPPool", "ILM"} \subseteq Files
    BY DEF Kinds, ListOf, Files
  <1>1. ASSUME NEW typed \in {name, "misspelt"}
        PROVE  Tidy(DeployNPToken(typed, name)) /\ HasCopies(DeployNPToken(typed, name), {})
    <2> DEFINE p == DeployNPToken(typed, name)
    <2>1. /\ IsProgram(p) /\ Len(p) = 6 /\ p[1] = Read("address")
          /\ p[1].op = "read" /\ p[1].file = "address"
          /\ p[2].op = "read" /\ p[2].file = "NPToken"
          /\ p[3].op = "create" /\ p[3].kind = "token" /\ p[3].key = name
          /\ p[4].op = "check" /\ p[4].kind = "token" /\ p[4].key = typed
          /\ p[5].op = "record" /\ p[5].kind = "token" /\ p[5].file = "NPToken"
          /\ p[5].key = typed /\ p[6].op = "store" /\ p[6].file = "NPToken"
      BY TupleIsProgram DEF DeployNPToken, Read, Create, Check, RecordNew, Record, Store
    <2> HIDE DEF p
    <2>2. PICK n \in Nat : n = 4
      OBVIOUS
    <2>3. PICK c \in 2 .. n : c = 3
      BY <2>2
    <2>4. /\ n + 1 = 5 /\ n + 2 = 6 /\ \A i \in 1 .. c - 1 : i \in {1, 2}
          /\ \A i \in c + 1 .. n : i = 4
          /\ 4 \in c + 1 .. n /\ 2 \in 1 .. c - 1
      BY <2>2, <2>3
    <2>5. HasCopy(p, c, "NPToken", {})
      BY <2>1, <2>4 DEF HasCopy
    <2>6. p[5].key = p[3].key \/ \E l \in c + 1 .. n : Unknown(p[l])
      BY <2>1, <2>4 DEF Unknown
    <2>7. \A i \in 1 .. c - 1 : (p[i].op = "read" /\ p[i].file \in Files) \/ p[i].op = "check"
      BY <1>0, <2>1, <2>4
    <2>8. \A i \in c + 1 .. n : p[i].op \in {"attach", "check"}
      BY <2>1, <2>4
    <2>9. /\ Len(p) = n + 2 /\ p[c].op \in {"create", "alter"} /\ p[c].kind = "token"
          /\ p[c].key = name /\ p[n + 1].op = "record" /\ p[n + 1].kind = "token"
          /\ p[n + 1].file = ListOf["token"] /\ p[n + 2].op = "store"
          /\ p[n + 2].file = ListOf["token"] /\ HasCopy(p, c, ListOf["token"], {})
          /\ (p[n + 1].key = p[c].key \/ \E l \in c + 1 .. n : Unknown(p[l]))
      BY <1>0, <2>1, <2>3, <2>4, <2>5, <2>6
    <2>10. Tidy(p) /\ HasCopies(p, {})
      BY <1>0, <2>1, <2>7, <2>8, <2>9, ListTaskIsTidy
    <2> QED
      BY <2>10 DEF p
  <1>2. Tidy(DeployNPPool(name)) /\ HasCopies(DeployNPPool(name), {})
    <2> DEFINE p == DeployNPPool(name)
    <2>1. /\ IsProgram(p) /\ Len(p) = 6 /\ p[1] = Read("address")
          /\ p[1].op = "read" /\ p[1].file = "address"
          /\ p[2].op = "read" /\ p[2].file = "NPPool"
          /\ p[3].op = "create" /\ p[3].kind = "pool" /\ p[3].key = name
          /\ p[4].op = "attach"
          /\ p[5].op = "record" /\ p[5].kind = "pool" /\ p[5].file = "NPPool"
          /\ p[5].key = name /\ p[6].op = "store" /\ p[6].file = "NPPool"
      BY TupleIsProgram DEF DeployNPPool, Read, Create, Attach, RecordNew, Record, Store
    <2> HIDE DEF p
    <2>2. PICK n \in Nat : n = 4
      OBVIOUS
    <2>3. PICK c \in 2 .. n : c = 3
      BY <2>2
    <2>4. /\ n + 1 = 5 /\ n + 2 = 6 /\ \A i \in 1 .. c - 1 : i \in {1, 2}
          /\ \A i \in c + 1 .. n : i = 4
          /\ 2 \in 1 .. c - 1
      BY <2>2, <2>3
    <2>5. HasCopy(p, c, "NPPool", {})
      BY <2>1, <2>4 DEF HasCopy
    <2>7. \A i \in 1 .. c - 1 : (p[i].op = "read" /\ p[i].file \in Files) \/ p[i].op = "check"
      BY <1>0, <2>1, <2>4
    <2>8. \A i \in c + 1 .. n : p[i].op \in {"attach", "check"}
      BY <2>1, <2>4
    <2>9. /\ Len(p) = n + 2 /\ p[c].op \in {"create", "alter"} /\ p[c].kind = "pool"
          /\ p[c].key = name /\ p[n + 1].op = "record" /\ p[n + 1].kind = "pool"
          /\ p[n + 1].file = ListOf["pool"] /\ p[n + 2].op = "store"
          /\ p[n + 2].file = ListOf["pool"] /\ HasCopy(p, c, ListOf["pool"], {})
          /\ p[n + 1].key = p[c].key
      BY <1>0, <2>1, <2>3, <2>4, <2>5
    <2>10. Tidy(p) /\ HasCopies(p, {})
      BY <1>0, <2>1, <2>7, <2>8, <2>9, ListTaskIsTidy
    <2> QED
      BY <2>10 DEF p
  <1>3. Tidy(StartILM(name)) /\ HasCopies(StartILM(name), {})
    <2> DEFINE p == StartILM(name)
    <2>1. /\ IsProgram(p) /\ Len(p) = 5 /\ p[1] = Read("address")
          /\ p[1].op = "read" /\ p[1].file = "address"
          /\ p[2].op = "read" /\ p[2].file = "ILM"
          /\ p[3].op = "create" /\ p[3].kind = "ilm" /\ p[3].key = name
          /\ p[4].op = "record" /\ p[4].kind = "ilm" /\ p[4].file = "ILM"
          /\ p[4].key = name /\ p[5].op = "store" /\ p[5].file = "ILM"
      BY TupleIsProgram DEF StartILM, Read, Create, RecordNew, Record, Store
    <2> HIDE DEF p
    <2>2. PICK n \in Nat : n = 3
      OBVIOUS
    <2>3. PICK c \in 2 .. n : c = 3
      BY <2>2
    <2>4. /\ n + 1 = 4 /\ n + 2 = 5 /\ \A i \in 1 .. c - 1 : i \in {1, 2}
          /\ c + 1 .. n = {} /\ 2 \in 1 .. c - 1
      BY <2>2, <2>3
    <2>5. HasCopy(p, c, "ILM", {})
      BY <2>1, <2>4 DEF HasCopy
    <2>7. \A i \in 1 .. c - 1 : (p[i].op = "read" /\ p[i].file \in Files) \/ p[i].op = "check"
      BY <1>0, <2>1, <2>4
    <2>8. \A i \in c + 1 .. n : p[i].op \in {"attach", "check"}
      BY <2>4
    <2>9. /\ Len(p) = n + 2 /\ p[c].op \in {"create", "alter"} /\ p[c].kind = "ilm"
          /\ p[c].key = name /\ p[n + 1].op = "record" /\ p[n + 1].kind = "ilm"
          /\ p[n + 1].file = ListOf["ilm"] /\ p[n + 2].op = "store"
          /\ p[n + 2].file = ListOf["ilm"] /\ HasCopy(p, c, ListOf["ilm"], {})
          /\ p[n + 1].key = p[c].key
      BY <1>0, <2>1, <2>3, <2>4, <2>5
    <2>10. Tidy(p) /\ HasCopies(p, {})
      BY <1>0, <2>1, <2>7, <2>8, <2>9, ListTaskIsTidy
    <2> QED
      BY <2>10 DEF p
  <1>4. Tidy(StopILM(name)) /\ HasCopies(StopILM(name), {})
    <2> DEFINE p == StopILM(name)
    <2>1. /\ IsProgram(p) /\ Len(p) = 6 /\ p[1] = Read("address")
          /\ p[1].op = "read" /\ p[1].file = "address"
          /\ p[2].op = "read" /\ p[2].file = "ILM"
          /\ p[3].op = "check"
          /\ p[4].op = "alter" /\ p[4].kind = "ilm" /\ p[4].key = name
          /\ p[5].op = "record" /\ p[5].kind = "ilm" /\ p[5].file = "ILM"
          /\ p[5].key = name /\ p[6].op = "store" /\ p[6].file = "ILM"
      BY TupleIsProgram DEF StopILM, Read, Check, Alter, RecordChange, Record, Store
    <2> HIDE DEF p
    <2>2. PICK n \in Nat : n = 4
      OBVIOUS
    <2>3. PICK c \in 2 .. n : c = 4
      BY <2>2
    <2>4. /\ n + 1 = 5 /\ n + 2 = 6 /\ \A i \in 1 .. c - 1 : i \in {1, 2, 3}
          /\ c + 1 .. n = {} /\ 2 \in 1 .. c - 1
      BY <2>2, <2>3
    <2>5. HasCopy(p, c, "ILM", {})
      BY <2>1, <2>4 DEF HasCopy
    <2>7. \A i \in 1 .. c - 1 : (p[i].op = "read" /\ p[i].file \in Files) \/ p[i].op = "check"
      BY <1>0, <2>1, <2>4
    <2>8. \A i \in c + 1 .. n : p[i].op \in {"attach", "check"}
      BY <2>4
    <2>9. /\ Len(p) = n + 2 /\ p[c].op \in {"create", "alter"} /\ p[c].kind = "ilm"
          /\ p[c].key = name /\ p[n + 1].op = "record" /\ p[n + 1].kind = "ilm"
          /\ p[n + 1].file = ListOf["ilm"] /\ p[n + 2].op = "store"
          /\ p[n + 2].file = ListOf["ilm"] /\ HasCopy(p, c, ListOf["ilm"], {})
          /\ p[n + 1].key = p[c].key
      BY <1>0, <2>1, <2>3, <2>4, <2>5
    <2>10. Tidy(p) /\ HasCopies(p, {})
      BY <1>0, <2>1, <2>7, <2>8, <2>9, ListTaskIsTidy
    <2> QED
      BY <2>10 DEF p
  <1> QED
    BY <1>1, <1>2, <1>3, <1>4

LEMMA FarmTasksAreTidy ==
    ASSUME NEW lp, NEW p, p \in {AddFarmingPool(lp), SetFarmingPoolDegisReward(lp)}
    PROVE  Tidy(p) /\ HasCopies(p, {"FarmingPool"})
  <1>0. "farm" \in Kinds /\ ListOf["farm"] = "FarmingPool" /\ "address" \in Files
    BY DEF Kinds, ListOf, Files
  <1>1. /\ IsProgram(p) /\ Len(p) = 4 /\ p[1] = Read("address")
        /\ p[1].op = "read" /\ p[1].file = "address"
        /\ p[2].op \in {"create", "alter"} /\ p[2].kind = "farm" /\ p[2].key = lp
        /\ p[3].op = "record" /\ p[3].kind = "farm" /\ p[3].file = "FarmingPool"
        /\ p[3].key = lp /\ p[4].op = "store" /\ p[4].file = "FarmingPool"
    BY TupleIsProgram
       DEF AddFarmingPool, SetFarmingPoolDegisReward, Read, Create, Alter, RecordNew,
           RecordChange, Record, Store
  <1>2. PICK n \in Nat : n = 2
    OBVIOUS
  <1>3. PICK c \in 2 .. n : c = 2
    BY <1>2
  <1>4. /\ n + 1 = 3 /\ n + 2 = 4 /\ \A i \in 1 .. c - 1 : i = 1
        /\ c + 1 .. n = {}
    BY <1>2, <1>3
  <1>5. HasCopy(p, c, "FarmingPool", {"FarmingPool"})
    BY DEF HasCopy
  <1> QED
    BY <1>0, <1>1, <1>3, <1>4, <1>5, ListTaskIsTidy

(***************************************************************************)
(* Whatever an operator starts is tidy, with the copies it starts with.    *)
(***************************************************************************)
LEMMA JobsAreTidy ==
    ASSUME "NaughtyPool" \notin Tasks, NEW net, NEW j \in Jobs(net)
    PROVE  Tidy(j.steps) /\ HasCopies(j.steps, DOMAIN Preloaded(j.steps))
  <1>1. ASSUME NEW p \in ListTasks PROVE Tidy(p) /\ HasCopies(p, DOMAIN Preloaded(p))
    <2>1. ASSUME NEW t \in Tokens, p \in {DeployNPToken(t, t), DeployNPToken("misspelt", t),
                                          DeployNPPool(t), StartILM(t), StopILM(t)}
          PROVE  Tidy(p) /\ HasCopies(p, {})
      <3>1. t # "misspelt"
        BY NamesAssumption
      <3> QED
        BY <2>1, <3>1, ListTasksAreTidy
    <2>2. ASSUME NEW lp, p \in {AddFarmingPool(lp), SetFarmingPoolDegisReward(lp)}
          PROVE  /\ Tidy(p) /\ HasCopies(p, {"FarmingPool"})
                 /\ "FarmingPool" \in DOMAIN Preloaded(p)
      BY <2>2, FarmTasksAreTidy, FarmingListIsPreloaded
    <2>3. \A copies, more : copies \subseteq more /\ HasCopies(p, copies) => HasCopies(p, more)
      BY MoreCopies
    <2> QED
      BY <2>1, <2>2, <2>3 DEF ListTasks
  <1>2. ASSUME NEW x \in AllTasks(net), x.name \in Tasks PROVE AlwaysTidy(x.steps)
    BY <1>2, TasksAreTidy, ClearsAreTidy DEF AllTasks
  <1>3. \/ j.steps \in ListTasks
        \/ \E x \in AllTasks(net) : x.name \in Tasks /\ j.steps = x.steps
        \/ \E x \in ScriptOf(net) : j.steps = x.steps
    BY DEF Jobs
  <1> QED
    BY <1>1, <1>2, <1>3, ScriptsAreTidy DEF AlwaysTidy

(***************************************************************************)
(* Facts                                                                   *)
(*                                                                         *)
(* What book and lists are to say: for each saved deployment its address,  *)
(* for each created thing what it was last changed to.  A fact is told if  *)
(* history excuses its absence, held by a list that records it, owed by a  *)
(* session that still has to store it.                                     *)
(***************************************************************************)
Fact(n, f, k, v) == [net |-> n, file |-> f, key |-> k, value |-> v]

BookFacts(sv, n)  == {Fact(n, "address", EntryOf(x), sv[n][x].at) : x \in DOMAIN sv[n]}
AdminFacts(sv, n) ==
    {Fact(n, "proxyAdmin", x, sv[n][x].at) : x \in {"ProxyAdmin"} \cap DOMAIN sv[n]}
ListFacts(md, n, kind) ==
    {Fact(n, ListOf[kind], k, md[n][kind][k]) :
        k \in {x \in DOMAIN md[n][kind] : md[n][kind][x] # "byILM"}}

Facts(sv, md) ==
    UNION {BookFacts(sv, n) \cup AdminFacts(sv, n)
              \cup UNION {ListFacts(md, n, kind) : kind \in Kinds} : n \in Networks}

Told(ex, w)   == <<w.net, w.file, w.key>> \in ex
Held(copy, w) == Records(copy[w.net], w.key, w.value)
Owed(r, w)    == r.net = w.net /\ <<w.file, w.key>> \in r.owes

\* A copy that may still be stored, or read by a session that runs alone.
InUse(r, f) == f \in DOMAIN r.seen /\ (f \in StoredBy(r.todo) \/ r.alone)

Current(r, W, ex) ==
    \A w \in W : InUse(r, w.file) => Told(ex, w) \/ Held(r.seen[w.file], w) \/ Owed(r, w)

\* What a session owes is in its copy, or will be before the copy is stored.
Paying(r, W) ==
    \A w \in W : Owed(r, w) =>
        \/ w.file \in DOMAIN r.seen /\ Held(r.seen[w.file], w)
        \/ RecordedFrom(r.todo, 1, w.file, w.key)

FilesTell(fl, W, ex, ss) ==
    \A w \in W : \/ Told(ex, w)
                 \/ Held(fl[w.file], w)
                 \/ \E s \in Sessions : Owed(ss[s], w)

Apart(ss) ==
    \A s, t \in Sessions : s # t => StoredBy(ss[s].todo) \cap StoredBy(ss[t].todo) = {}

\* While sessions never stored one file at the same time.
Kept(fl, W, ex, ss) ==
    /\ Apart(ss)
    /\ FilesTell(fl, W, ex, ss)
    /\ \A s \in Sessions : Current(ss[s], W, ex) /\ Paying(ss[s], W)

\* A session in good order.
Orderly(r) ==
    /\ r.todo = <<>> => r = Idle
    /\ Tidy(r.todo)
    /\ HasCopies(r.todo, DOMAIN r.seen)
    /\ \A o \in r.owes : \E f, k : o = <<f, k>> /\ SettledFrom(r.todo, 1, f)
    /\ \A f \in DOMAIN r.seen : f \in Files /\ DOMAIN r.seen[f] = Networks

AllOrderly(ss) ==
    /\ DOMAIN ss = Sessions
    /\ \A s \in Sessions : DOMAIN ss[s] = Fields /\ Orderly(ss[s])
    /\ \A s, t \in Sessions : ss[s].alone /\ ss[s].todo # <<>> /\ s # t => ss[t].todo = <<>>

BookInv ==
    /\ DOMAIN saved = Networks
    /\ \A n \in Networks : "VoteEscrowedDegis" \notin DOMAIN saved[n]
    /\ \A n \in Networks : "misspelt" \notin DOMAIN made[n]["token"]
    /\ \A f \in Files : DOMAIN files[f] = Networks
    /\ AllOrderly(session)
    /\ overlap \/ Kept(files, Facts(saved, made), excused, session)

LEMMA FactsAre ==
    ASSUME NEW sv, NEW md, NEW n, NEW f, NEW k, NEW v
    PROVE  Fact(n, f, k, v) \in Facts(sv, md) <=>
              /\ n \in Networks
              /\ \/ f = "address" /\ \E x \in DOMAIN sv[n] : k = EntryOf(x) /\ v = sv[n][x].at
                 \/ /\ f = "proxyAdmin" /\ k = "ProxyAdmin" /\ k \in DOMAIN sv[n]
                    /\ v = sv[n][k].at
                 \/ \E kind \in Kinds :
                       /\ f = ListOf[kind] /\ k \in DOMAIN md[n][kind]
                       /\ v = md[n][kind][k] /\ v # "byILM"
  <1>1. ASSUME NEW a, NEW b, NEW c, NEW d, Fact(n, f, k, v) = Fact(a, b, c, d)
        PROVE  n = a /\ f = b /\ k = c /\ v = d
    BY <1>1 DEF Fact
  <1>2. \A m : Fact(n, f, k, v) \in BookFacts(sv, m) <=>
           n = m /\ f = "address" /\ \E x \in DOMAIN sv[m] : k = EntryOf(x) /\ v = sv[m][x].at
    BY <1>1 DEF BookFacts
  <1>3. \A m : Fact(n, f, k, v) \in AdminFacts(sv, m) <=>
           n = m /\ f = "proxyAdmin" /\ k = "ProxyAdmin" /\ k \in DOMAIN sv[m] /\ v = sv[m][k].at
    BY <1>1 DEF AdminFacts
  <1>4. \A m, kind : Fact(n, f, k, v) \in ListFacts(md, m, kind) <=>
           /\ n = m /\ f = ListOf[kind] /\ k \in DOMAIN md[m][kind]
           /\ v = md[m][kind][k] /\ v # "byILM"
    BY <1>1 DEF ListFacts
  <1> QED
    BY <1>2, <1>3, <1>4 DEF Facts

LEMMA FactsAreFacts ==
    ASSUME NEW sv, NEW md, NEW w \in Facts(sv, md)
    PROVE  w = Fact(w.net, w.file, w.key, w.value) /\ w.file \in Files /\ w.net \in Networks
  <1>1. PICK n \in Networks :
           \/ w \in BookFacts(sv, n) \/ w \in AdminFacts(sv, n)
           \/ \E kind \in Kinds : w \in ListFacts(md, n, kind)
    BY DEF Facts
  <1>2. PICK a, b, c, d : w = Fact(a, b, c, d) /\ b \in Files /\ a = n
    BY <1>1, ListsAreApart DEF BookFacts, AdminFacts, ListFacts, Files
  <1> QED
    BY <1>2 DEF Fact

(***************************************************************************)
(* What a step leaves of a program's promises.                             *)
(***************************************************************************)
LEMMA StoredByIs ==
    ASSUME NEW p, IsProgram(p), NEW f
    PROVE  f \in StoredBy(p) <=> \E i \in 1 .. Len(p) : StoresAt(p, i, f)
  <1>1. DOMAIN p = 1 .. Len(p)
    BY DEF IsProgram
  <1>2. ToSet(p) = {p[i] : i \in 1 .. Len(p)}
    BY <1>1 DEF ToSet
  <1> QED
    BY <1>2 DEF StoredBy, StoresAt

LEMMA NothingLeft ==
    /\ IsProgram(<<>>) /\ Len(<<>>) = 0 /\ StoredBy(<<>>) = {}
    /\ Idle.todo = <<>> /\ Idle.owes = {} /\ DOMAIN Idle.seen = {} /\ DOMAIN Idle = Fields
    /\ Tidy(<<>>) /\ \A copies : HasCopies(<<>>, copies)
  <1>1. IsProgram(<<>>) /\ Len(<<>>) = 0
    <2>1. <<>> \in Seq({}) /\ Len(<<>>) = 0
      OBVIOUS
    <2> QED
      BY <2>1 DEF IsProgram
  <1>2. \A f : f \notin StoredBy(<<>>)
    BY <1>1, StoredByIs
  <1>3. Idle.todo = <<>> /\ Idle.owes = {} /\ DOMAIN Idle.seen = {} /\ DOMAIN Idle = Fields
    BY DEF Idle, Empty, Fields
  <1>4. Tidy(<<>>) /\ \A copies : HasCopies(<<>>, copies)
    BY <1>1 DEF Tidy, HasCopies
  <1> QED
    BY <1>1, <1>2, <1>3, <1>4

LEMMA TailStoresLess ==
    ASSUME NEW p, IsProgram(p), p # <<>>
    PROVE  StoredBy(Tail(p)) \subseteq StoredBy(p)
  <1> DEFINE q == Tail(p)
  <1>1. /\ IsProgram(q) /\ Len(p) \in Nat /\ Len(p) >= 1 /\ Len(q) = Len(p) - 1
        /\ \A i \in 1 .. Len(q) : q[i] = p[i + 1]
    BY TailOf
  <1> HIDE DEF q
  <1>2. SUFFICES ASSUME NEW f \in StoredBy(q) PROVE f \in StoredBy(p)
    BY DEF q
  <1>3. PICK i \in 1 .. Len(q) : StoresAt(q, i, f)
    BY <1>1, StoredByIs
  <1>4. i + 1 \in 1 .. Len(p) /\ StoresAt(p, i + 1, f)
    BY <1>1, <1>3 DEF StoresAt
  <1> QED
    BY <1>4, StoredByIs

\* What is settled by a program is stored by it; the next step does not read
\* it, and if it does not store it, the rest of the program settles it.
LEMMA SettledLater ==
    ASSUME NEW p, IsProgram(p), NEW f, SettledFrom(p, 1, f)
    PROVE  /\ p # <<>> /\ f \in StoredBy(p) /\ ~ ReadsAt(p, 1, f) /\ p[1].op # "clear"
           /\ StoresAt(p, 1, f) \/ (SettledFrom(Tail(p), 1, f) /\ Len(p) # 1)
  <1>1. PICK l \in 1 .. Len(p) : StoresAt(p, l, f) /\ \A j \in 1 .. l : ~ ReadsAt(p, j, f)
    BY DEF SettledFrom
  <1>2. \A j \in 1 .. Len(p) : p[j].op # "clear"
    BY DEF SettledFrom
  <1>3. Len(p) \in Nat /\ 1 \in 1 .. l /\ 1 \in 1 .. Len(p)
    BY <1>1 DEF IsProgram
  <1>4. p # <<>>
    BY <1>3, NothingLeft
  <1>5. f \in StoredBy(p) /\ ~ ReadsAt(p, 1, f) /\ p[1].op # "clear"
    BY <1>1, <1>2, <1>3, StoredByIs
  <1>6. ASSUME ~ StoresAt(p, 1, f) PROVE SettledFrom(Tail(p), 1, f) /\ Len(p) # 1
    <2>1. l # 1
      BY <1>1, <1>6
    <2>2. l \in 1 + 1 .. Len(p) /\ \A j \in 1 + 1 .. l : j \in 1 .. l
      BY <1>3, <2>1
    <2>3. \A j \in 1 + 1 .. Len(p) : j \in 1 .. Len(p)
      BY <1>3
    <2>4. SettledFrom(p, 1 + 1, f)
      BY <1>1, <1>2, <2>2, <2>3 DEF SettledFrom
    <2>5. SettledFrom(Tail(p), 1, f)
      BY <1>3, <1>4, <2>4, SettledShift
    <2>6. Len(p) # 1
      BY <1>2, <2>1
    <2> QED
      BY <2>5, <2>6
  <1> QED
    BY <1>4, <1>5, <1>6

\* The step records k in the copy of f, or finds that the program ends here.
WritesOrStops(st, f, k) ==
    \/ st.op = "record" /\ st.file = f /\ st.key = k
    \/ f = "NPToken" /\ Unknown(st)

LEMMA RecordedLater ==
    ASSUME NEW p, IsProgram(p), NEW f, NEW k, RecordedFrom(p, 1, f, k)
    PROVE  /\ ~ StoresAt(p, 1, f)
           /\ WritesOrStops(p[1], f, k) \/ RecordedFrom(Tail(p), 1, f, k)
  <1>1. PICK l \in 1 .. Len(p) :
           WritesOrStops(p[l], f, k) /\ \A j \in 1 .. l : ~ StoresAt(p, j, f)
    BY DEF RecordedFrom, WritesOrStops
  <1>2. Len(p) \in Nat /\ 1 \in 1 .. l /\ 1 \in 1 .. Len(p)
    BY <1>1 DEF IsProgram
  <1>3. p # <<>>
    BY <1>2, NothingLeft
  <1>4. ASSUME l # 1 PROVE RecordedFrom(Tail(p), 1, f, k)
    <2>1. l \in 1 + 1 .. Len(p) /\ \A j \in 1 + 1 .. l : j \in 1 .. l
      BY <1>2, <1>4
    <2>2. RecordedFrom(p, 1 + 1, f, k)
      BY <1>1, <2>1 DEF RecordedFrom, WritesOrStops
    <2> QED
      BY <1>2, <1>3, <2>2, RecordedShift
  <1> QED
    BY <1>1, <1>2, <1>4

(***************************************************************************)
(* Sessions stay in good order.                                            *)
(***************************************************************************)
\* What Advance makes of a session.
After(u) == IF Len(u.todo) = 1 THEN Idle ELSE [u EXCEPT !.todo = Tail(@)]

LEMMA IdleIsOrderly ==
    Orderly(Idle)
  BY NothingLeft DEF Orderly

LEMMA AfterIs ==
    ASSUME NEW u, DOMAIN u = Fields
    PROVE  /\ DOMAIN After(u) = Fields
           /\ Len(u.todo) = 1 => After(u) = Idle
           /\ Len(u.todo) # 1 => /\ After(u).net = u.net /\ After(u).todo = Tail(u.todo)
                                 /\ After(u).seen = u.seen /\ After(u).owes = u.owes
                                 /\ After(u).alone = u.alone
  BY NothingLeft DEF After, Fields

LEMMA AfterIsOrderly ==
    ASSUME NEW r, Orderly(r), r.todo # <<>>, NEW st, st = Head(r.todo),
           NEW u, DOMAIN u = Fields, u.todo = r.todo,
           IF st.op = "clear" THEN DOMAIN u.seen = {st.as}
             ELSE /\ DOMAIN r.seen \subseteq DOMAIN u.seen
                  /\ st.op = "read" => st.file \in DOMAIN u.seen,
           \A f \in DOMAIN u.seen : f \in Files /\ DOMAIN u.seen[f] = Networks,
           \A o \in u.owes :
              \/ \E f \in Owing(st) : \E k : o = <<f, k>>
              \/ o \in r.owes /\ (st.op = "store" => o[1] # st.file)
    PROVE  Orderly(After(u)) /\ (Len(u.todo) = 1 => u.owes = {})
  <1> DEFINE p == r.todo
             q == Tail(p)
  <1>1. /\ IsProgram(p) /\ IsProgram(q) /\ Len(p) \in Nat /\ Len(p) >= 1
        /\ Len(q) = Len(p) - 1 /\ st = p[1] /\ Tidy(p) /\ HasCopies(p, DOMAIN r.seen)
        /\ p # <<>>
    BY TailOf DEF Orderly, Tidy
  <1> HIDE DEF p, q
  <1>2. Tidy(q) /\ \A f \in Owing(st) : SettledFrom(q, 1, f)
    BY <1>1, TailIsTidy DEF q
  <1>3. HasCopies(q, DOMAIN u.seen)
    <2> DEFINE copies == DOMAIN r.seen
               copiesNow == DOMAIN u.seen
    <2>1. /\ HasCopies(p, copies)
          /\ IF p[1].op = "clear" THEN copiesNow = {p[1].as}
               ELSE copies \subseteq copiesNow /\ (p[1].op = "read" => p[1].file \in copiesNow)
      BY <1>1
    <2> HIDE DEF copies, copiesNow
    <2>2. HasCopies(q, copiesNow)
      BY <1>1, <2>1, TailHasCopies DEF q
    <2> QED
      BY <2>2 DEF copiesNow
  <1>4. ASSUME NEW o \in u.owes
        PROVE  Len(p) # 1 /\ \E f, k : o = <<f, k>> /\ SettledFrom(q, 1, f)
    <2>1. CASE \E f \in Owing(st) : \E k : o = <<f, k>>
      <3>1. PICK f \in Owing(st) : \E k : o = <<f, k>>
        BY <2>1
      <3>2. SettledFrom(q, 1, f)
        BY <1>2
      <3>3. \E l \in 1 .. Len(q) : TRUE
        BY <3>2 DEF SettledFrom
      <3> QED
        BY <1>1, <3>1, <3>2, <3>3
    <2>2. CASE o \in r.owes /\ (st.op = "store" => o[1] # st.file)
      <3>1. PICK f, k : o = <<f, k>> /\ SettledFrom(p, 1, f)
        BY <2>2 DEF Orderly, p
      <3>2. o[1] = f
        BY <3>1
      <3>3. ~ StoresAt(p, 1, f)
        BY <1>1, <2>2, <3>2 DEF StoresAt
      <3> QED
        BY <1>1, <3>1, <3>3, SettledLater DEF q
    <2> QED
      BY <2>1, <2>2
  <1>5. CASE Len(p) = 1
    BY <1>4, <1>5, AfterIs, IdleIsOrderly DEF p
  <1>6. CASE Len(p) # 1
    <2>1. q # <<>>
      BY <1>1, <1>6, NothingLeft
    <2>2. /\ After(u).todo = q /\ After(u).seen = u.seen /\ After(u).owes = u.owes
      BY <1>6, AfterIs DEF p, q
    <2> QED
      BY <1>2, <1>3, <1>4, <1>6, <2>1, <2>2 DEF Orderly, p
  <1> QED
    BY <1>5, <1>6

LEMMA SessionsStayOrderly ==
    ASSUME NEW ss, AllOrderly(ss), NEW s \in Sessions, ss[s].todo # <<>>,
           NEW after, DOMAIN after = Fields, Orderly(after),
           after.todo # <<>> => after.alone = ss[s].alone
    PROVE  AllOrderly([ss EXCEPT ![s] = after])
  BY DEF AllOrderly

\* What a session owes is stored by no other, and no other is alone.
LEMMA OwedIsStored ==
    ASSUME NEW r, Orderly(r), NEW w, Owed(r, w)
    PROVE  r.todo # <<>> /\ w.file \in StoredBy(r.todo)
  <1>1. PICK f, k : <<w.file, w.key>> = <<f, k>> /\ SettledFrom(r.todo, 1, f)
    BY DEF Orderly, Owed
  <1>2. w.file = f
    BY <1>1
  <1> QED
    BY <1>1, <1>2, SettledLater DEF Orderly, Tidy

(***************************************************************************)
(* What the files tell is kept by every step.  Facts W become W2, excuses  *)
(* ex become ex2, session s becomes after.                                 *)
(***************************************************************************)
LEMMA OtherKeeps ==
    ASSUME NEW r, Orderly(r), r.alone => r.todo = <<>>,
           NEW W, NEW ex, Current(r, W, ex), Paying(r, W),
           NEW stored, StoredBy(r.todo) \cap stored = {}, NEW W2, NEW ex2,
           \A w \in W2 : w.file \notin stored => w \in W /\ (Told(ex, w) => Told(ex2, w))
    PROVE  Current(r, W2, ex2) /\ Paying(r, W2)
  <1>1. r.todo = <<>> => DOMAIN r.seen = {} /\ r.owes = {}
    BY NothingLeft DEF Orderly
  <1>2. Current(r, W2, ex2)
    <2>1. SUFFICES ASSUME NEW w \in W2, InUse(r, w.file)
                   PROVE  Told(ex2, w) \/ Held(r.seen[w.file], w) \/ Owed(r, w)
      BY DEF Current
    <2>2. w.file \in StoredBy(r.todo)
      BY <1>1, <2>1 DEF InUse
    <2>3. w \in W /\ (Told(ex, w) => Told(ex2, w))
      BY <2>2
    <2> QED
      BY <2>1, <2>3 DEF Current
  <1>3. Paying(r, W2)
    <2>1. SUFFICES ASSUME NEW w \in W2, Owed(r, w)
                   PROVE  \/ w.file \in DOMAIN r.seen /\ Held(r.seen[w.file], w)
                          \/ RecordedFrom(r.todo, 1, w.file, w.key)
      BY DEF Paying
    <2>2. w.file \in StoredBy(r.todo)
      BY <2>1, OwedIsStored
    <2>3. w \in W
      BY <2>2
    <2> QED
      BY <2>1, <2>3 DEF Paying
  <1> QED
    BY <1>2, <1>3

LEMMA ThisKeeps ==
    ASSUME NEW ss, AllOrderly(ss), Apart(ss), NEW s \in Sessions, ss[s].todo # <<>>,
           NEW t \in Sessions, t # s,
           NEW stored, stored = StoredBy(ss[s].todo),
           NEW W, NEW ex, Current(ss[t], W, ex), Paying(ss[t], W), NEW W2, NEW ex2,
           \A w \in W2 : w.file \notin stored => w \in W /\ (Told(ex, w) => Told(ex2, w))
    PROVE  Current(ss[t], W2, ex2) /\ Paying(ss[t], W2)
  <1> DEFINE r == ss[t]
  <1>1. Orderly(r) /\ Current(r, W, ex) /\ Paying(r, W)
    BY DEF AllOrderly
  <1>2. StoredBy(r.todo) \cap stored = {}
    BY DEF Apart
  <1>3. r.alone => r.todo = <<>>
    BY DEF AllOrderly
  <1> HIDE DEF r
  <1>4. Current(r, W2, ex2) /\ Paying(r, W2)
    BY <1>1, <1>2, <1>3, OtherKeeps
  <1> QED
    BY <1>4 DEF r

LEMMA StayApart ==
    ASSUME NEW ss, DOMAIN ss = Sessions, Apart(ss), NEW s \in Sessions,
           NEW after, StoredBy(after.todo) \subseteq StoredBy(ss[s].todo)
    PROVE  Apart([ss EXCEPT ![s] = after])
  BY DEF Apart

\* A step that stores no file.
LEMMA StepKeeps ==
    ASSUME NEW ss, AllOrderly(ss), NEW W, NEW ex, NEW fl, Kept(fl, W, ex, ss),
           NEW s \in Sessions, NEW r, r = ss[s], r.todo # <<>>,
           NEW u, DOMAIN u = Fields, u.net = r.net, u.todo = r.todo, u.alone = r.alone,
           Orderly(After(u)), Len(u.todo) = 1 => u.owes = {},
           r.owes \subseteq u.owes,
           NEW W2, NEW ex2, ex \subseteq ex2,
           \A w \in W2 : w \in W \/ Owed(u, w),
           \A w \in W2 : InUse(u, w.file) =>
              Told(ex2, w) \/ Held(u.seen[w.file], w) \/ Owed(u, w),
           \A w \in W2 : Owed(u, w) =>
              \/ w.file \in DOMAIN u.seen /\ Held(u.seen[w.file], w)
              \/ RecordedFrom(Tail(u.todo), 1, w.file, w.key)
    PROVE  Kept(fl, W2, ex2, [ss EXCEPT ![s] = After(u)])
  <1> DEFINE after == After(u)
             ss2 == [ss EXCEPT ![s] = after]
  <1>1. DOMAIN ss = Sessions /\ IsProgram(u.todo) /\ u.todo # <<>>
    BY DEF AllOrderly, Orderly, Tidy
  <1>2. \/ Len(u.todo) = 1 /\ after = Idle /\ u.owes = {}
        \/ /\ Len(u.todo) # 1
           /\ after.net = u.net /\ after.todo = Tail(u.todo) /\ after.seen = u.seen
           /\ after.owes = u.owes /\ after.alone = u.alone
    BY AfterIs
  <1>3. Orderly(after)
    OBVIOUS
  <1> HIDE DEF after
  <1>4. StoredBy(Tail(u.todo)) \subseteq StoredBy(u.todo)
    BY <1>1, TailStoresLess
  <1>5. StoredBy(after.todo) \subseteq StoredBy(u.todo)
    BY <1>2, <1>4, NothingLeft
  <1>6. ASSUME NEW w, Owed(u, w) PROVE Owed(after, w) /\ w.file \in StoredBy(u.todo)
    <2>1. Owed(after, w)
      BY <1>2, <1>6 DEF Owed
    <2> QED
      BY <1>3, <1>5, <2>1, OwedIsStored
  <1>7. \A w : Told(ex, w) => Told(ex2, w)
    BY DEF Told
  <1>8. /\ Apart(ss2)
        /\ \A t \in Sessions : t # s =>
              ss2[t] = ss[t] /\ Current(ss2[t], W2, ex2) /\ Paying(ss2[t], W2)
        /\ ss2[s] = after
    <2>1. \A w \in W2 : w.file \notin StoredBy(ss[s].todo) =>
                            w \in W /\ (Told(ex, w) => Told(ex2, w))
      BY <1>6, <1>7
    <2>0. /\ Apart(ss) /\ ss[s].todo # <<>>
          /\ \A t \in Sessions : Current(ss[t], W, ex) /\ Paying(ss[t], W)
      BY DEF Kept
    <2>2. \A t \in Sessions : t # s => Current(ss[t], W2, ex2) /\ Paying(ss[t], W2)
      <3> HIDE DEF ss2
      <3> SUFFICES ASSUME NEW t \in Sessions, t # s
                   PROVE  Current(ss[t], W2, ex2) /\ Paying(ss[t], W2)
        OBVIOUS
      <3>1. PICK stored : stored = StoredBy(ss[s].todo)
        OBVIOUS
      <3>2. \A w \in W2 : w.file \notin stored => w \in W /\ (Told(ex, w) => Told(ex2, w))
        BY <3>1, <2>1
      <3> QED
        BY <2>0, <3>1, <3>2, ThisKeeps
    <2>3. Apart(ss2)
      BY <1>1, <1>5, StayApart DEF Kept
    <2> QED
      BY <1>1, <2>2, <2>3
  <1>9. Current(after, W2, ex2)
    <2>1. SUFFICES ASSUME NEW w \in W2, InUse(after, w.file)
                   PROVE  Told(ex2, w) \/ Held(after.seen[w.file], w) \/ Owed(after, w)
      BY DEF Current
    <2>2. Len(u.todo) # 1
      BY <1>2, <2>1, NothingLeft DEF InUse
    <2>3. InUse(u, w.file)
      BY <1>2, <1>4, <2>1, <2>2 DEF InUse
    <2> QED
      BY <1>2, <1>6, <2>2, <2>3
  <1>10. Paying(after, W2)
    <2>1. SUFFICES ASSUME NEW w \in W2, Owed(after, w)
                   PROVE  \/ w.file \in DOMAIN after.seen /\ Held(after.seen[w.file], w)
                          \/ RecordedFrom(after.todo, 1, w.file, w.key)
      BY DEF Paying
    <2>2. Len(u.todo) # 1
      BY <1>2, <2>1, NothingLeft DEF Owed
    <2>3. Owed(u, w)
      BY <1>2, <2>1, <2>2 DEF Owed
    <2> QED
      BY <1>2, <2>2, <2>3
  <1>11. FilesTell(fl, W2, ex2, ss2)
    <2>1. SUFFICES ASSUME NEW w \in W2
                   PROVE  \/ Told(ex2, w) \/ Held(fl[w.file], w)
                          \/ \E t \in Sessions : Owed(ss2[t], w)
      BY DEF FilesTell
    <2>2. CASE Owed(u, w)
      BY <1>6, <1>8, <2>2
    <2>3. CASE w \in W
      <3>1. \/ Told(ex, w) \/ Held(fl[w.file], w)
            \/ \E t \in Sessions : Owed(ss[t], w)
        BY <2>3 DEF Kept, FilesTell
      <3>2. Owed(r, w) => Owed(u, w)
        BY DEF Owed
      <3>3. ASSUME NEW t \in Sessions, Owed(ss[t], w) PROVE \E x \in Sessions : Owed(ss2[x], w)
        <4>1. CASE t = s
          BY <1>6, <1>8, <3>2, <3>3, <4>1
        <4>2. CASE t # s
          BY <1>8, <3>3, <4>2
        <4> QED
          BY <4>1, <4>2
      <3> QED
        BY <1>7, <3>1, <3>3
    <2> QED
      BY <2>2, <2>3
  <1>12. \A t \in Sessions : Current(ss2[t], W2, ex2) /\ Paying(ss2[t], W2)
    BY <1>8, <1>9, <1>10
  <1> HIDE DEF ss2
  <1>13. Kept(fl, W2, ex2, ss2)
    BY <1>8, <1>11, <1>12 DEF Kept
  <1> QED
    BY <1>13 DEF ss2, after

\* The copy of file f goes into the files, what it owed there is paid.
LEMMA StoringKeeps ==
    ASSUME NEW ss, AllOrderly(ss), NEW W, NEW ex, NEW fl, DOMAIN fl = Files,
           Kept(fl, W, ex, ss), \A w \in W : w.file \in Files,
           NEW s \in Sessions, NEW r, r = ss[s], r.todo # <<>>,
           NEW f \in Files, StoresAt(r.todo, 1, f), f \in DOMAIN r.seen,
           NEW u, DOMAIN u = Fields, u.net = r.net, u.todo = r.todo, u.alone = r.alone,
           u.seen = r.seen, \A o : o \in u.owes <=> o \in r.owes /\ o[1] # f,
           Orderly(After(u)), Len(u.todo) = 1 => u.owes = {},
           NEW ex2,
           \A w : Told(ex, w) => Told(ex2, w) \/ (Owed(r, w) /\ w.file = f)
    PROVE  Kept([fl EXCEPT ![f] = r.seen[f]], W, ex2, [ss EXCEPT ![s] = After(u)])
  <1> DEFINE after == After(u)
             ss2 == [ss EXCEPT ![s] = after]
             fl2 == [fl EXCEPT ![f] = r.seen[f]]
  <1>1. /\ DOMAIN ss = Sessions /\ IsProgram(u.todo) /\ u.todo # <<>>
        /\ Current(r, W, ex) /\ Paying(r, W)
    BY DEF AllOrderly, Orderly, Tidy, Kept
  <1>2. \/ Len(u.todo) = 1 /\ after = Idle /\ u.owes = {}
        \/ /\ Len(u.todo) # 1
           /\ after.net = u.net /\ after.todo = Tail(u.todo) /\ after.seen = u.seen
           /\ after.owes = u.owes /\ after.alone = u.alone
    BY AfterIs
  <1> HIDE DEF after
  <1>3. StoredBy(Tail(u.todo)) \subseteq StoredBy(u.todo)
    BY <1>1, TailStoresLess
  <1>4. StoredBy(after.todo) \subseteq StoredBy(u.todo)
    BY <1>2, <1>3, NothingLeft
  <1>5. f \in StoredBy(u.todo)
    <2>1. 1 \in 1 .. Len(u.todo)
      BY <1>1, TailOf
    <2> QED
      BY <1>1, <2>1, StoredByIs
  <1>6. ASSUME NEW w \in W, Owed(r, w), w.file = f PROVE Held(r.seen[f], w)
    <2>1. \/ Held(r.seen[f], w) \/ RecordedFrom(r.todo, 1, f, w.key)
      BY <1>1, <1>6 DEF Paying
    <2> QED
      BY <1>1, <2>1, RecordedLater
  <1>7. ASSUME NEW w \in W, w.file = f PROVE Told(ex2, w) \/ Held(r.seen[f], w)
    <2>1. InUse(r, f)
      BY <1>5 DEF InUse
    <2>2. Told(ex, w) \/ Held(r.seen[f], w) \/ Owed(r, w)
      BY <1>1, <1>7, <2>1 DEF Current
    <2> QED
      BY <1>6, <1>7, <2>2
  <1>8. ASSUME NEW w \in W, w.file # f, Owed(r, w) PROVE Owed(after, w)
    <2>1. <<w.file, w.key>>[1] = w.file
      OBVIOUS
    <2>2. Owed(u, w)
      BY <1>8, <2>1 DEF Owed
    <2> QED
      BY <1>2, <2>2 DEF Owed
  <1>9. \A w : Owed(after, w) => Owed(r, w) /\ w.file # f
    <2>1. \A w : <<w.file, w.key>>[1] = w.file
      OBVIOUS
    <2> QED
      BY <1>2, <2>1, NothingLeft DEF Owed
  <1>10. /\ Apart(ss2)
         /\ \A t \in Sessions : t # s =>
              ss2[t] = ss[t] /\ Current(ss2[t], W, ex2) /\ Paying(ss2[t], W)
         /\ ss2[s] = after
    <2>1. \A w \in W : w.file \notin StoredBy(ss[s].todo) =>
                            w \in W /\ (Told(ex, w) => Told(ex2, w))
      BY <1>5
    <2>0. /\ Apart(ss) /\ ss[s].todo # <<>>
          /\ \A t \in Sessions : Current(ss[t], W, ex) /\ Paying(ss[t], W)
      BY DEF Kept
    <2>2. \A t \in Sessions : t # s => Current(ss[t], W, ex2) /\ Paying(ss[t], W)
      <3> HIDE DEF ss2
      <3> SUFFICES ASSUME NEW t \in Sessions, t # s
                   PROVE  Current(ss[t], W, ex2) /\ Paying(ss[t], W)
        OBVIOUS
      <3>1. PICK stored : stored = StoredBy(ss[s].todo)
        OBVIOUS
      <3>2. \A w \in W : w.file \notin stored => w \in W /\ (Told(ex, w) => Told(ex2, w))
        BY <3>1, <2>1
      <3> QED
        BY <2>0, <3>1, <3>2, ThisKeeps
    <2>3. Apart(ss2)
      BY <1>1, <1>4, StayApart DEF Kept
    <2> QED
      BY <1>1, <2>2, <2>3
  <1>11. Current(after, W, ex2)
    <2>1. SUFFICES ASSUME NEW w \in W, InUse(after, w.file)
                   PROVE  Told(ex2, w) \/ Held(after.seen[w.file], w) \/ Owed(after, w)
      BY DEF Current
    <2>2. Len(u.todo) # 1
      BY <1>2, <2>1, NothingLeft DEF InUse
    <2>3. InUse(r, w.file)
      BY <1>2, <1>3, <2>1, <2>2 DEF InUse
    <2>4. Told(ex, w) \/ Held(r.seen[w.file], w) \/ Owed(r, w)
      BY <1>1, <2>3 DEF Current
    <2> QED
      BY <1>2, <1>7, <1>8, <2>2, <2>4
  <1>12. Paying(after, W)
    <2>1. SUFFICES ASSUME NEW w \in W, Owed(after, w)
                   PROVE  \/ w.file \in DOMAIN after.seen /\ Held(after.seen[w.file], w)
                          \/ RecordedFrom(after.todo, 1, w.file, w.key)
      BY DEF Paying
    <2>2. Len(u.todo) # 1
      BY <1>2, <2>1, NothingLeft DEF Owed
    <2>3. Owed(r, w) /\ w.file # f
      BY <1>9, <2>1
    <2>4. \/ w.file \in DOMAIN r.seen /\ Held(r.seen[w.file], w)
          \/ RecordedFrom(r.todo, 1, w.file, w.key)
      BY <1>1, <2>3 DEF Paying
    <2>5. ~ WritesOrStops(r.todo[1], w.file, w.key)
      BY DEF StoresAt, WritesOrStops, Unknown
    <2>6. RecordedFrom(r.todo, 1, w.file, w.key) => RecordedFrom(Tail(r.todo), 1, w.file, w.key)
      BY <1>1, <2>5, RecordedLater
    <2> QED
      BY <1>2, <2>2, <2>4, <2>6
  <1>13. FilesTell(fl2, W, ex2, ss2)
    <2>1. SUFFICES ASSUME NEW w \in W
                   PROVE  \/ Told(ex2, w) \/ Held(fl2[w.file], w)
                          \/ \E t \in Sessions : Owed(ss2[t], w)
      BY DEF FilesTell
    <2>2. CASE w.file = f
      <3>1. fl2[f] = r.seen[f]
        OBVIOUS
      <3> QED
        BY <1>7, <2>2, <3>1
    <2>3. CASE w.file # f
      <3>1. fl2[w.file] = fl[w.file]
        BY <2>3
      <3>2. \/ Told(ex, w) \/ Held(fl[w.file], w)
            \/ \E t \in Sessions : Owed(ss[t], w)
        BY DEF Kept, FilesTell
      <3>3. ASSUME NEW t \in Sessions, Owed(ss[t], w) PROVE \E x \in Sessions : Owed(ss2[x], w)
        <4>1. CASE t = s
          BY <1>8, <1>10, <2>3, <3>3, <4>1
        <4>2. CASE t # s
          BY <1>10, <3>3, <4>2
        <4> QED
          BY <4>1, <4>2
      <3> QED
        BY <2>3, <3>1, <3>2, <3>3
    <2> QED
      BY <2>2, <2>3
  <1>14. \A t \in Sessions : Current(ss2[t], W, ex2) /\ Paying(ss2[t], W)
    BY <1>10, <1>11, <1>12
  <1> HIDE DEF ss2, fl2
  <1>15. Kept(fl2, W, ex2, ss2)
    BY <1>10, <1>13, <1>14 DEF Kept
  <1> QED
    BY <1>15 DEF ss2, fl2, after

\* The session ends, and history excuses what it owed.
LEMMA EndingKeeps ==
    ASSUME NEW ss, AllOrderly(ss), NEW W, NEW ex, NEW fl, Kept(fl, W, ex, ss),
           NEW s \in Sessions, ss[s].todo # <<>>,
           NEW ex2, ex \subseteq ex2, \A w \in W : Owed(ss[s], w) => Told(ex2, w)
    PROVE  Kept(fl, W, ex2, [ss EXCEPT ![s] = Idle])
  <1> DEFINE ss2 == [ss EXCEPT ![s] = Idle]
  <1>1. DOMAIN ss = Sessions
    BY DEF AllOrderly
  <1>2. \A w : Told(ex, w) => Told(ex2, w)
    BY DEF Told
  <1>3. /\ Apart(ss2)
        /\ \A t \in Sessions : t # s =>
              ss2[t] = ss[t] /\ Current(ss2[t], W, ex2) /\ Paying(ss2[t], W)
        /\ ss2[s] = Idle
    <2>1. StoredBy(Idle.todo) \subseteq StoredBy(ss[s].todo)
      BY NothingLeft
    <2>4. \A w \in W : w.file \notin StoredBy(ss[s].todo) =>
                            w \in W /\ (Told(ex, w) => Told(ex2, w))
      BY <1>2
    <2>0. Apart(ss) /\ \A t \in Sessions : Current(ss[t], W, ex) /\ Paying(ss[t], W)
      BY DEF Kept
    <2>2. \A t \in Sessions : t # s => Current(ss[t], W, ex2) /\ Paying(ss[t], W)
      <3> HIDE DEF ss2
      <3> SUFFICES ASSUME NEW t \in Sessions, t # s
                   PROVE  Current(ss[t], W, ex2) /\ Paying(ss[t], W)
        OBVIOUS
      <3>1. PICK stored : stored = StoredBy(ss[s].todo)
        OBVIOUS
      <3>2. \A w \in W : w.file \notin stored => w \in W /\ (Told(ex, w) => Told(ex2, w))
        BY <3>1, <2>4
      <3> QED
        BY <2>0, <3>1, <3>2, ThisKeeps
    <2>3. Apart(ss2)
      BY <1>1, <2>1, StayApart DEF Kept
    <2> QED
      BY <1>1, <2>2, <2>3
  <1>4. Current(Idle, W, ex2) /\ Paying(Idle, W)
    BY NothingLeft DEF Current, Paying, InUse, Owed
  <1>5. FilesTell(fl, W, ex2, ss2)
    <2>1. SUFFICES ASSUME NEW w \in W
                   PROVE  \/ Told(ex2, w) \/ Held(fl[w.file], w)
                          \/ \E t \in Sessions : Owed(ss2[t], w)
      BY DEF FilesTell
    <2>2. \/ Told(ex, w) \/ Held(fl[w.file], w)
          \/ \E t \in Sessions : Owed(ss[t], w)
      BY DEF Kept, FilesTell
    <2>3. ASSUME NEW t \in Sessions, Owed(ss[t], w)
          PROVE  Told(ex2, w) \/ \E x \in Sessions : Owed(ss2[x], w)
      <3>1. CASE t = s
        BY <2>3, <3>1
      <3>2. CASE t # s
        BY <1>3, <2>3, <3>2
      <3> QED
        BY <3>1, <3>2
    <2> QED
      BY <1>2, <2>2, <2>3
  <1>6. \A t \in Sessions : Current(ss2[t], W, ex2) /\ Paying(ss2[t], W)
    BY <1>3, <1>4
  <1> HIDE DEF ss2
  <1>7. Kept(fl, W, ex2, ss2)
    BY <1>3, <1>5, <1>6 DEF Kept
  <1> QED
    BY <1>7 DEF ss2

(***************************************************************************)
(* The invariant of book and lists is preserved, action by action.         *)
(***************************************************************************)
\* What the running session may rely on.
LEMMA NextStepIsTidy ==
    ASSUME NEW r, Orderly(r), r.todo # <<>>, NEW st, st = Head(r.todo)
    PROVE  /\ TidyAt(r.todo, 1) /\ WellNamed(st) /\ st = r.todo[1]
           /\ IsProgram(r.todo) /\ Uses(st) \subseteq DOMAIN r.seen
           /\ \A f \in DOMAIN r.seen : f \in Files /\ DOMAIN r.seen[f] = Networks
  <1>1. /\ IsProgram(r.todo) /\ HasCopies(r.todo, DOMAIN r.seen)
        /\ \A i \in 1 .. Len(r.todo) : TidyAt(r.todo, i)
        /\ \A f \in DOMAIN r.seen : f \in Files /\ DOMAIN r.seen[f] = Networks
    BY DEF Orderly, Tidy
  <1>2. 1 \in 1 .. Len(r.todo) /\ Head(r.todo) = r.todo[1]
    BY <1>1, TailOf
  <1>3. \A f \in Uses(st) : HasCopy(r.todo, 1, f, DOMAIN r.seen)
    BY <1>1, <1>2 DEF HasCopies
  <1>4. Uses(st) \subseteq DOMAIN r.seen
    BY <1>3 DEF HasCopy
  <1> QED
    BY <1>1, <1>2, <1>4 DEF TidyAt

\* What the session owes, seen from the step after the next.
LEMMA PayingOn ==
    ASSUME NEW r, IsProgram(r.todo), NEW W, Paying(r, W), NEW w \in W, Owed(r, w),
           NEW st, st = r.todo[1], ~ WritesOrStops(st, w.file, w.key)
    PROVE  \/ w.file \in DOMAIN r.seen /\ Held(r.seen[w.file], w)
           \/ RecordedFrom(Tail(r.todo), 1, w.file, w.key)
  <1>1. \/ w.file \in DOMAIN r.seen /\ Held(r.seen[w.file], w)
        \/ RecordedFrom(r.todo, 1, w.file, w.key)
    BY DEF Paying
  <1> QED
    BY <1>1, RecordedLater

\* No other session owes what this one has in a copy it uses.
LEMMA OwedByMe ==
    ASSUME NEW ss, AllOrderly(ss), Apart(ss), NEW s \in Sessions, ss[s].todo # <<>>,
           NEW t \in Sessions, NEW w, Owed(ss[t], w),
           w.file \in StoredBy(ss[s].todo) \/ ss[s].alone
    PROVE  t = s
  <1>1. SUFFICES ASSUME t # s PROVE FALSE
    OBVIOUS
  <1>2. PICK r : r = ss[t]
    OBVIOUS
  <1>3. Orderly(r) /\ Owed(r, w)
    BY <1>2 DEF AllOrderly
  <1>4. r.todo # <<>> /\ w.file \in StoredBy(r.todo)
    BY <1>3, OwedIsStored
  <1>5. CASE ss[s].alone
    BY <1>1, <1>2, <1>4, <1>5 DEF AllOrderly
  <1>6. CASE w.file \in StoredBy(ss[s].todo)
    BY <1>1, <1>2, <1>4, <1>6 DEF Apart
  <1> QED
    BY <1>5, <1>6

\* What has to be shown of a step that stores no file: where it leaves each
\* fact, in the copies that may be stored and among what the session owes.
Keeps(r, u, W, W2, ex2) ==
    /\ \A w \in W2 : w \in W \/ Owed(u, w)
    /\ \A w \in W2 : InUse(u, w.file) =>
          Told(ex2, w) \/ Held(u.seen[w.file], w) \/ Owed(u, w)
    /\ \A w \in W2 : Owed(u, w) =>
          \/ w.file \in DOMAIN u.seen /\ Held(u.seen[w.file], w)
          \/ RecordedFrom(Tail(r.todo), 1, w.file, w.key)

CopiesFollow(r, u, st) ==
    /\ IF st.op = "clear" THEN DOMAIN u.seen = {st.as}
         ELSE /\ DOMAIN r.seen \subseteq DOMAIN u.seen
              /\ st.op = "read" => st.file \in DOMAIN u.seen
    /\ \A f \in DOMAIN u.seen : f \in Files /\ DOMAIN u.seen[f] = Networks

OwesFollow(r, u, st) ==
    /\ r.owes \subseteq u.owes
    /\ \A o \in u.owes : (\E f \in Owing(st) : \E k : o = <<f, k>>) \/ o \in r.owes

NamesAreRight(sv, md) ==
    /\ DOMAIN sv = Networks
    /\ \A n \in Networks : "VoteEscrowedDegis" \notin DOMAIN sv[n]
    /\ \A n \in Networks : "misspelt" \notin DOMAIN md[n]["token"]

LEMMA BookStep ==
    ASSUME BookInv, NEW s \in Sessions, NEW r, r = session[s], r.todo # <<>>,
           NEW st, st = Head(r.todo), st.op # "store",
           NEW u, session' = [session EXCEPT ![s] = After(u)],
           files' = files, overlap' = overlap,
           DOMAIN u = Fields, u.net = r.net, u.todo = r.todo, u.alone = r.alone,
           CopiesFollow(r, u, st), OwesFollow(r, u, st), NamesAreRight(saved', made'),
           NEW W, W = Facts(saved, made), NEW W2, W2 = Facts(saved', made'),
           NEW ex, ex = excused, NEW ex2, ex2 = excused', ex \subseteq ex2,
           NEW ss, ss = session, NEW fl, fl = files,
           Kept(fl, W, ex, ss) => Keeps(r, u, W, W2, ex2)
    PROVE  BookInv'
  <1>5. PICK after : after = After(u)
    OBVIOUS
  <1>6. AllOrderly(ss) /\ Orderly(r) /\ ss[s] = r
    BY DEF BookInv, AllOrderly
  <1>7. Orderly(after) /\ (Len(u.todo) = 1 => u.owes = {})
    BY <1>5, <1>6, AfterIsOrderly DEF CopiesFollow, OwesFollow
  <1>8. DOMAIN after = Fields /\ (after.todo # <<>> => after.alone = r.alone)
    BY <1>5, AfterIs, NothingLeft
  <1>9. AllOrderly([ss EXCEPT ![s] = after])
    BY <1>6, <1>7, <1>8, SessionsStayOrderly
  <1>10. ASSUME ~ overlap PROVE Kept(fl, W2, ex2, [ss EXCEPT ![s] = after])
    <2>1. Kept(fl, W, ex, ss)
      BY <1>10 DEF BookInv
    <2>3. /\ \A w \in W2 : w \in W \/ Owed(u, w)
          /\ \A w \in W2 : InUse(u, w.file) =>
                Told(ex2, w) \/ Held(u.seen[w.file], w) \/ Owed(u, w)
          /\ \A w \in W2 : Owed(u, w) =>
                \/ w.file \in DOMAIN u.seen /\ Held(u.seen[w.file], w)
                \/ RecordedFrom(Tail(u.todo), 1, w.file, w.key)
      BY <2>1 DEF Keeps
    <2>4. ex \subseteq ex2 /\ r = ss[s] /\ Orderly(After(u)) /\ r.owes \subseteq u.owes
      BY <1>5, <1>6, <1>7 DEF OwesFollow
    <2>5. Kept(fl, W2, ex2, [ss EXCEPT ![s] = After(u)])
      BY <1>6, <1>7, <2>1, <2>3, <2>4, StepKeeps
    <2> QED
      BY <1>5, <2>5
  <1>11. PICK ss2 : ss2 = [ss EXCEPT ![s] = after]
    OBVIOUS
  <1>12. session' = ss2 /\ AllOrderly(ss2) /\ (overlap \/ Kept(fl, W2, ex2, ss2))
    BY <1>5, <1>9, <1>10, <1>11
  <1>13. AllOrderly(session')
    BY <1>12
  <1>14. overlap' \/ Kept(files', Facts(saved', made'), excused', session')
    BY <1>12
  <1> QED
    BY <1>13, <1>14 DEF BookInv, NamesAreRight

LEMMA AtWorkOnBook ==
    ASSUME ListInv, BookInv, NEW s \in Alive
    PROVE  \E r, st :
              /\ s \in Sessions /\ r = session[s] /\ st = Step(s) /\ st = Head(r.todo)
              /\ r.todo # <<>> /\ DOMAIN r = Fields /\ Orderly(r)
              /\ TidyAt(r.todo, 1) /\ WellNamed(st) /\ st = r.todo[1]
              /\ IsProgram(r.todo) /\ Uses(st) \subseteq DOMAIN r.seen
              /\ \A f \in DOMAIN r.seen : f \in Files /\ DOMAIN r.seen[f] = Networks
              /\ AllOrderly(session) /\ r.net \in Networks
  <1>1. PICK r : r = session[s]
    OBVIOUS
  <1>2. PICK st : st = Step(s)
    OBVIOUS
  <1>3. /\ s \in Sessions /\ st = Head(r.todo) /\ r.todo # <<>> /\ DOMAIN r = Fields
        /\ Orderly(r) /\ AllOrderly(session) /\ r.net \in Networks
    BY <1>1, <1>2, AtWork DEF Alive, Step, BookInv, AllOrderly
  <1>4. /\ TidyAt(r.todo, 1) /\ WellNamed(st) /\ st = r.todo[1]
        /\ IsProgram(r.todo) /\ Uses(st) \subseteq DOMAIN r.seen
        /\ \A f \in DOMAIN r.seen : f \in Files /\ DOMAIN r.seen[f] = Networks
    BY <1>3, NextStepIsTidy
  <1> QED
    BY <1>1, <1>2, <1>3, <1>4

\* A step that leaves the copies and what is deployed and created alone.
LEMMA QuietBookStep ==
    ASSUME ListInv, BookInv, NEW s \in Alive, NEW upd, Advance(s, upd),
           UNCHANGED <<files, overlap, saved, made, excused>>,
           DOMAIN upd = Fields, upd.net = session[s].net, upd.todo = session[s].todo,
           upd.seen = session[s].seen, upd.owes = session[s].owes,
           upd.alone = session[s].alone,
           Step(s).op \in {"need", "set", "call", "attach", "check", "checkRole", "grantRole"},
           Possible(s)
    PROVE  BookInv'
  <1>1. PICK r, st :
              /\ s \in Sessions /\ r = session[s] /\ st = Step(s) /\ st = Head(r.todo)
              /\ r.todo # <<>> /\ DOMAIN r = Fields /\ Orderly(r)
              /\ TidyAt(r.todo, 1) /\ WellNamed(st) /\ st = r.todo[1]
              /\ IsProgram(r.todo) /\ Uses(st) \subseteq DOMAIN r.seen
              /\ \A f \in DOMAIN r.seen : f \in Files /\ DOMAIN r.seen[f] = Networks
              /\ AllOrderly(session) /\ r.net \in Networks
    BY AtWorkOnBook
  <1>2. PICK u : u = upd
    OBVIOUS
  <1>3. /\ DOMAIN u = Fields /\ u.net = r.net /\ u.todo = r.todo /\ u.alone = r.alone
        /\ u.seen = r.seen /\ u.owes = r.owes
        /\ session' = [session EXCEPT ![s] = After(u)]
        /\ files' = files /\ overlap' = overlap
    BY <1>1, <1>2 DEF Advance, After
  <1>4. PICK W : W = Facts(saved, made) /\ W = Facts(saved', made')
    OBVIOUS
  <1>5. PICK ex : ex = excused /\ ex = excused'
    OBVIOUS
  <1>6. ~ Unknown(st)
    <2>1. SUFFICES ASSUME Unknown(st) PROVE FALSE
      OBVIOUS
    <2>2. Step(s).op = "check" /\ Step(s).kind = "token" /\ Step(s).key = "misspelt"
      BY <1>1, <2>1 DEF Unknown
    <2>3. Step(s).key \in DOMAIN made[session[s].net][Step(s).kind]
      BY <2>2 DEF Possible, Has
    <2> QED
      BY <1>1, <2>2, <2>3 DEF BookInv
  <1>7. \A f, k : ~ WritesOrStops(st, f, k)
    BY <1>1, <1>6 DEF WritesOrStops
  <1>8. ASSUME NEW fl, NEW ss, ss = session, Kept(fl, W, ex, ss)
        PROVE  Keeps(r, u, W, W, ex)
    <2>1. Current(r, W, ex) /\ Paying(r, W)
      BY <1>1, <1>8 DEF Kept
    <2>2. ASSUME NEW w \in W, InUse(u, w.file)
          PROVE  Told(ex, w) \/ Held(u.seen[w.file], w) \/ Owed(u, w)
      <3>1. InUse(r, w.file)
        BY <1>3, <2>2 DEF InUse
      <3> QED
        BY <1>3, <2>1, <3>1 DEF Current, Owed
    <2>3. ASSUME NEW w \in W, Owed(u, w)
          PROVE  \/ w.file \in DOMAIN u.seen /\ Held(u.seen[w.file], w)
                 \/ RecordedFrom(Tail(r.todo), 1, w.file, w.key)
      <3>1. Owed(r, w)
        BY <1>3, <2>3 DEF Owed
      <3> QED
        BY <1>1, <1>3, <1>7, <2>1, <3>1, PayingOn
    <2> QED
      BY <2>2, <2>3 DEF Keeps
  <1>9. CopiesFollow(r, u, st) /\ OwesFollow(r, u, st) /\ st.op # "store" /\ ex \subseteq ex
    BY <1>1, <1>3 DEF CopiesFollow, OwesFollow
  <1>10. NamesAreRight(saved', made')
    BY DEF BookInv, NamesAreRight
  <1>11. PICK fl : fl = files
    OBVIOUS
  <1>12. PICK ss : ss = session
    OBVIOUS
  <1>13. Kept(fl, W, ex, ss) => Keeps(r, u, W, W, ex)
    BY <1>8, <1>12
  <1> QED
    BY <1>1, <1>3, <1>4, <1>5, <1>9, <1>10, <1>11, <1>12, <1>13, BookStep

LEMMA NeedBookStep ==
    ASSUME ListInv, BookInv, NEW s \in Sessions, NeedDeployments(s) PROVE BookInv'
  <1> DEFINE upd == [session[s] EXCEPT
                       !.got = [x \in Step(s).names |-> saved[session[s].net][x].at]]
  <1>1. s \in Alive /\ Step(s).op = "need" /\ Possible(s)
        /\ Advance(s, upd) /\ UNCHANGED <<files, overlap, saved, made, excused>>
    BY DEF NeedDeployments, Doing, onChain, Bookkeeping
  <1>2. DOMAIN session[s] = Fields
    BY <1>1, AtWork
  <1>3. /\ DOMAIN upd = Fields /\ upd.net = session[s].net /\ upd.todo = session[s].todo
        /\ upd.seen = session[s].seen /\ upd.owes = session[s].owes
        /\ upd.alone = session[s].alone
    BY <1>2 DEF Fields
  <1> HIDE DEF upd
  <1> QED
    BY <1>1, <1>3, QuietBookStep

LEMMA QuietBookSteps ==
    ASSUME ListInv, BookInv, NEW s \in Sessions,
           SetPointer(s) \/ CallContract(s) \/ GrantRole(s)
    PROVE  BookInv'
  <1>1. s \in Alive /\ Step(s).op \in {"set", "call", "attach", "check", "grantRole"}
        /\ Possible(s) /\ Advance(s, session[s])
        /\ UNCHANGED <<files, overlap, saved, made, excused>>
    BY DEF SetPointer, CallContract, GrantRole, Doing, onChain, Bookkeeping
  <1>2. DOMAIN session[s] = Fields
    BY <1>1, AtWork
  <1> QED
    BY <1>1, <1>2, QuietBookStep

\* A session ends, and what it owed is excused.
LEMMA EndBookStep ==
    ASSUME BookInv, NEW s \in Sessions, session[s].todo # <<>>,
           session' = [session EXCEPT ![s] = Idle],
           UNCHANGED <<files, overlap, saved, made>>, NEW ex2, ex2 = excused',
           excused \subseteq ex2, \A w : Owed(session[s], w) => Told(ex2, w)
    PROVE  BookInv'
  <1>1. PICK ss : ss = session
    OBVIOUS
  <1>2. PICK W : W = Facts(saved, made) /\ W = Facts(saved', made')
    OBVIOUS
  <1>3. PICK ex : ex = excused
    OBVIOUS
  <1>4. PICK fl : fl = files
    OBVIOUS
  <1>5. PICK ss2 : ss2 = [ss EXCEPT ![s] = Idle]
    OBVIOUS
  <1>6. AllOrderly(ss) /\ ss[s].todo # <<>>
    BY <1>1 DEF BookInv
  <1>7. DOMAIN Idle = Fields /\ Orderly(Idle) /\ Idle.todo = <<>>
    BY NothingLeft, IdleIsOrderly
  <1>8. AllOrderly(ss2)
    BY <1>5, <1>6, <1>7, SessionsStayOrderly
  <1>9. ASSUME ~ overlap PROVE Kept(fl, W, ex2, ss2)
    <2>1. Kept(fl, W, ex, ss)
      BY <1>1, <1>2, <1>3, <1>4, <1>9 DEF BookInv
    <2>2. ex \subseteq ex2 /\ \A w \in W : Owed(ss[s], w) => Told(ex2, w)
      BY <1>1, <1>3
    <2>3. Kept(fl, W, ex2, [ss EXCEPT ![s] = Idle])
      BY <1>6, <2>1, <2>2, EndingKeeps
    <2> QED
      BY <1>5, <2>3
  <1>10. session' = ss2
    BY <1>1, <1>5
  <1>11. AllOrderly(session')
    BY <1>8, <1>10
  <1>12. overlap' \/ Kept(files', Facts(saved', made'), excused', session')
    BY <1>2, <1>4, <1>9, <1>10
  <1> QED
    BY <1>11, <1>12 DEF BookInv

\* Where nothing is left to do after a check of a role, nothing is owed.
LEMMA CheckRoleBookStep ==
    ASSUME ListInv, BookInv, NEW s \in Sessions, CheckRole(s) PROVE BookInv'
  <1>1. /\ s \in Alive /\ Step(s).op = "checkRole" /\ Possible(s)
        /\ UNCHANGED <<files, overlap, saved, made, excused>>
        /\ session' = [session EXCEPT ![s] = Idle] \/ Advance(s, session[s])
    BY DEF CheckRole, Doing, onChain, Bookkeeping
  <1>2. DOMAIN session[s] = Fields
    BY <1>1, AtWork
  <1>3. CASE Advance(s, session[s])
    BY <1>1, <1>2, <1>3, QuietBookStep
  <1>4. CASE session' = [session EXCEPT ![s] = Idle]
    <2>1. PICK r, st :
              /\ r = session[s] /\ st = Step(s) /\ r.todo # <<>> /\ Orderly(r)
              /\ TidyAt(r.todo, 1) /\ st = r.todo[1] /\ IsProgram(r.todo)
      BY <1>1, AtWorkOnBook
    <2>2. \A j \in 1 .. Len(r.todo) : r.todo[j].op # "store"
      BY <1>1, <2>1 DEF TidyAt
    <2>3. \A f : f \notin StoredBy(r.todo)
      BY <2>1, <2>2, StoredByIs DEF StoresAt
    <2>4. \A w : ~ Owed(r, w)
      BY <2>1, <2>3, OwedIsStored
    <2>5. PICK ex2 : ex2 = excused'
      OBVIOUS
    <2>6. \A w : ~ Owed(session[s], w)
      BY <2>1, <2>4
    <2>7. session[s].todo # <<>> /\ excused \subseteq ex2
      BY <1>1, <2>1, <2>5
    <2> QED
      BY <1>1, <1>4, <2>5, <2>6, <2>7, EndBookStep
  <1> QED
    BY <1>1, <1>3, <1>4

LEMMA Prefixed ==
    ASSUME NEW a, NEW b, NEW c PROVE <<a>> \o <<b, c>> = <<a, b, c>>
  <1> DEFINE p == <<a>>
             q == <<b, c>>
             m == p \o q
  <1>1. /\ IsProgram(p) /\ IsProgram(q) /\ Len(p) = 1 /\ Len(q) = 2
        /\ p[1] = a /\ q[1] = b /\ q[2] = c
    BY TupleIsProgram
  <1> HIDE DEF p, q
  <1>2. /\ IsProgram(m) /\ Len(m) = Len(p) + Len(q)
        /\ \A i \in 1 .. Len(p) : m[i] = p[i]
        /\ \A i \in 1 .. Len(q) : m[Len(p) + i] = q[i]
    <2>1. IsProgram(p) /\ IsProgram(q)
      BY <1>1
    <2> QED
      BY <2>1, Joined
  <1> HIDE DEF m
  <1>3. Len(m) = 3 /\ m[1] = a /\ m[2] = b /\ m[3] = c
    <2>1. /\ 1 \in 1 .. Len(p) /\ 1 \in 1 .. Len(q) /\ 2 \in 1 .. Len(q)
          /\ Len(p) + 1 = 2 /\ Len(p) + 2 = 3 /\ Len(p) + Len(q) = 3
      BY <1>1
    <2>2. m[1] = p[1] /\ m[Len(p) + 1] = q[1] /\ m[Len(p) + 2] = q[2]
      BY <1>2, <2>1
    <2> QED
      BY <1>1, <1>2, <2>1, <2>2
  <1>4. PICK S : m \in Seq(S)
    BY <1>2 DEF IsProgram
  <1>5. a \in S /\ b \in S /\ c \in S
    BY <1>3, <1>4
  <1>6. m = <<a, b, c>>
    BY <1>3, <1>4, <1>5
  <1> QED
    BY <1>6 DEF m, p, q

LEMMA FailBookStep ==
    ASSUME BookInv, NEW s \in Sessions, Throw(s) \/ Crash(s) PROVE BookInv'
  <1>1. s \in Alive /\ End(s)
    BY DEF Throw, Crash
  <1>2. /\ session' = [session EXCEPT ![s] = Idle]
        /\ UNCHANGED <<files, overlap, saved, made>>
        /\ session[s].todo # <<>>
    BY <1>1 DEF End, onChain, Alive
  <1>3. PICK ex2 : ex2 = excused'
    OBVIOUS
  <1>4. excused \subseteq ex2
    BY <1>1, <1>3 DEF End
  <1>5. ASSUME NEW w, Owed(session[s], w) PROVE Told(ex2, w)
    <2> DEFINE o == <<w.file, w.key>>
    <2>1. o \in session[s].owes /\ session[s].net = w.net
      BY <1>5 DEF Owed
    <2>2. <<w.net>> \o o = <<w.net, w.file, w.key>>
      BY Prefixed
    <2>3. <<session[s].net>> \o o \in ex2
      BY <1>1, <1>3, <2>1 DEF End, Unpaid
    <2> QED
      BY <2>1, <2>2, <2>3 DEF Told
  <1> QED
    BY <1>2, <1>3, <1>4, <1>5, EndBookStep

LEMMA EditBookStep ==
    ASSUME BookInv, NEW c, EditSource(c) PROVE BookInv'
  BY DEF EditSource, BookInv, onChain

\* What the files tell to a session that may store them, or runs alone: what
\* they do not hold is its own to store.
LEMMA ToldToMe ==
    ASSUME NEW ss, AllOrderly(ss), NEW W, NEW ex, NEW fl, Kept(fl, W, ex, ss),
           NEW s \in Sessions, NEW r, r = ss[s], r.todo # <<>>, NEW w \in W,
           w.file \in StoredBy(r.todo) \/ r.alone
    PROVE  Told(ex, w) \/ Held(fl[w.file], w) \/ Owed(r, w)
  <1>1. \/ Told(ex, w) \/ Held(fl[w.file], w)
        \/ \E t \in Sessions : Owed(ss[t], w)
    BY DEF Kept, FilesTell
  <1>2. Apart(ss)
    BY DEF Kept
  <1>3. ss[s].todo # <<>> /\ (w.file \in StoredBy(ss[s].todo) \/ ss[s].alone)
    OBVIOUS
  <1>4. ASSUME NEW t \in Sessions, Owed(ss[t], w) PROVE Owed(r, w)
    <2>1. t = s
      BY <1>2, <1>3, <1>4, OwedByMe
    <2> QED
      BY <1>4, <2>1
  <1> QED
    BY <1>1, <1>4

LEMMA ReadKeeps ==
    ASSUME NEW ss, AllOrderly(ss), NEW W, NEW ex, NEW fl, Kept(fl, W, ex, ss),
           NEW s \in Sessions, NEW r, r = ss[s], r.todo # <<>>,
           NEW f, ReadsAt(r.todo, 1, f),
           NEW u, u.net = r.net, u.todo = r.todo, u.alone = r.alone, u.owes = r.owes,
           DOMAIN u.seen = DOMAIN r.seen \cup {f}, u.seen[f] = fl[f],
           \A x \in DOMAIN r.seen : x # f => u.seen[x] = r.seen[x]
    PROVE  Keeps(r, u, W, W, ex)
  <1>1. Current(r, W, ex) /\ Paying(r, W) /\ Orderly(r) /\ IsProgram(r.todo)
    BY DEF Kept, AllOrderly, Orderly, Tidy
  <1>2. \A w : Owed(u, w) <=> Owed(r, w)
    BY DEF Owed
  <1>3. ASSUME NEW w, Owed(r, w) PROVE w.file # f
    <2>1. PICK g, k : <<w.file, w.key>> = <<g, k>> /\ SettledFrom(r.todo, 1, g)
      BY <1>1, <1>3 DEF Orderly, Owed
    <2>2. ~ ReadsAt(r.todo, 1, w.file)
      BY <1>1, <2>1, SettledLater
    <2> QED
      BY <2>2 DEF ReadsAt
  <1>4. ASSUME NEW w \in W, InUse(u, w.file)
        PROVE  Told(ex, w) \/ Held(u.seen[w.file], w) \/ Owed(u, w)
    <2>1. w.file \in StoredBy(r.todo) \/ r.alone
      BY <1>4 DEF InUse
    <2>2. CASE w.file = f
      <3>1. Told(ex, w) \/ Held(fl[w.file], w) \/ Owed(r, w)
        BY <2>1, ToldToMe
      <3> QED
        BY <1>2, <2>2, <3>1
    <2>3. CASE w.file # f
      <3>1. InUse(r, w.file)
        BY <1>4, <2>1, <2>3 DEF InUse
      <3>2. Told(ex, w) \/ Held(r.seen[w.file], w) \/ Owed(r, w)
        BY <1>1, <3>1 DEF Current
      <3> QED
        BY <1>2, <2>3, <3>1, <3>2 DEF InUse
    <2> QED
      BY <2>2, <2>3
  <1>5. ASSUME NEW w \in W, Owed(u, w)
        PROVE  \/ w.file \in DOMAIN u.seen /\ Held(u.seen[w.file], w)
               \/ RecordedFrom(Tail(r.todo), 1, w.file, w.key)
    <2>1. ~ WritesOrStops(r.todo[1], w.file, w.key)
      BY DEF WritesOrStops, Unknown, ReadsAt
    <2>2. \/ w.file \in DOMAIN r.seen /\ Held(r.seen[w.file], w)
          \/ RecordedFrom(Tail(r.todo), 1, w.file, w.key)
      BY <1>1, <1>2, <1>5, <2>1, PayingOn
    <2> QED
      BY <1>2, <1>3, <1>5, <2>2
  <1> QED
    BY <1>4, <1>5 DEF Keeps

LEMMA ReadBookStep ==
    ASSUME ListInv, BookInv, NEW s \in Sessions, ReadFile(s) PROVE BookInv'
  <1> DEFINE file == Step(s).file
             seen == Put(session[s].seen, file, files[file])
             upd == [session[s] EXCEPT !.seen = seen]
  <1>1. /\ s \in Alive /\ Step(s).op = "read" /\ Advance(s, upd)
        /\ UNCHANGED <<files, overlap, saved, made, excused>>
    BY DEF ReadFile, Doing, onChain, Bookkeeping
  <1>2. PICK r, st :
           /\ s \in Sessions /\ r = session[s] /\ st = Step(s) /\ st = Head(r.todo)
           /\ r.todo # <<>> /\ DOMAIN r = Fields /\ Orderly(r)
           /\ WellNamed(st) /\ st = r.todo[1]
           /\ \A f \in DOMAIN r.seen : f \in Files /\ DOMAIN r.seen[f] = Networks
           /\ AllOrderly(session)
    BY <1>1, AtWorkOnBook
  <1>3. PICK f : f = st.file
    OBVIOUS
  <1>4. PICK fl : fl = files
    OBVIOUS
  <1>5. PICK ss : ss = session
    OBVIOUS
  <1>6. PICK W : W = Facts(saved, made) /\ W = Facts(saved', made')
    BY <1>1
  <1>7. PICK ex : ex = excused /\ ex = excused'
    BY <1>1
  <1>8. PICK u : u = [r EXCEPT !.seen = Put(r.seen, f, fl[f])]
    OBVIOUS
  <1>9. session' = [session EXCEPT ![s] = After(u)] /\ files' = files /\ overlap' = overlap
    BY <1>1, <1>2, <1>3, <1>4, <1>8 DEF Advance, After
  <1>10. /\ DOMAIN u = Fields /\ u.net = r.net /\ u.todo = r.todo /\ u.alone = r.alone
         /\ u.owes = r.owes /\ u.seen = Put(r.seen, f, fl[f])
    BY <1>2, <1>8 DEF Fields
  <1>11. /\ DOMAIN u.seen = DOMAIN r.seen \cup {f} /\ u.seen[f] = fl[f]
         /\ \A x \in DOMAIN r.seen : x # f => u.seen[x] = r.seen[x]
    BY <1>10 DEF Put
  <1>12. st.op = "read" /\ f \in Files /\ DOMAIN fl[f] = Networks
    BY <1>1, <1>2, <1>3, <1>4 DEF WellNamed, BookInv
  <1>13. CopiesFollow(r, u, st) /\ OwesFollow(r, u, st) /\ st.op # "store" /\ ex \subseteq ex
    BY <1>2, <1>3, <1>10, <1>11, <1>12 DEF CopiesFollow, OwesFollow
  <1>14. NamesAreRight(saved', made')
    BY <1>1 DEF BookInv, NamesAreRight
  <1>15. ASSUME Kept(fl, W, ex, ss) PROVE Keeps(r, u, W, W, ex)
    <2>1. AllOrderly(ss) /\ r = ss[s] /\ r.todo # <<>> /\ ReadsAt(r.todo, 1, f)
      BY <1>2, <1>3, <1>5, <1>12 DEF ReadsAt
    <2> QED
      BY <1>2, <1>10, <1>11, <1>15, <2>1, ReadKeeps
  <1> QED
    BY <1>2, <1>4, <1>5, <1>6, <1>7, <1>9, <1>10, <1>13, <1>14, <1>15, BookStep

LEMMA StoreBookStep ==
    ASSUME ListInv, BookInv, NEW s \in Sessions, StoreFile(s) PROVE BookInv'
  <1>1. /\ s \in Alive /\ Step(s).op = "store"
        /\ UNCHANGED <<overlap, saved, made>>
    BY DEF StoreFile, Doing, onChain, History
  <1>2. PICK r, st :
           /\ s \in Sessions /\ r = session[s] /\ st = Step(s) /\ st = Head(r.todo)
           /\ r.todo # <<>> /\ DOMAIN r = Fields /\ Orderly(r)
           /\ WellNamed(st) /\ st = r.todo[1] /\ Uses(st) \subseteq DOMAIN r.seen
           /\ \A f \in DOMAIN r.seen : f \in Files /\ DOMAIN r.seen[f] = Networks
           /\ AllOrderly(session)
    BY <1>1, AtWorkOnBook
  <1>3. PICK f : f = st.file
    OBVIOUS
  <1>4. PICK fl : fl = files
    OBVIOUS
  <1>5. PICK ss : ss = session
    OBVIOUS
  <1>6. PICK W : W = Facts(saved, made) /\ W = Facts(saved', made')
    BY <1>1
  <1>7. PICK ex : ex = excused
    OBVIOUS
  <1>8. PICK paid : paid = {o \in r.owes : o[1] = f}
    OBVIOUS
  <1>9. PICK u : u = [r EXCEPT !.owes = r.owes \ paid]
    OBVIOUS
  <1>10. PICK ex2 : ex2 = ex \ {<<r.net>> \o o : o \in paid}
    OBVIOUS
  <1>11. /\ session' = [session EXCEPT ![s] = After(u)]
         /\ files' = [files EXCEPT ![f] = r.seen[f]] /\ excused' = ex2
    <2>1. /\ Advance(s, [session[s] EXCEPT
                           !.owes = @ \ {o \in session[s].owes : o[1] = Step(s).file}])
          /\ excused' = excused \ {<<session[s].net>> \o o :
                                      o \in {x \in session[s].owes : x[1] = Step(s).file}}
          /\ files' = [files EXCEPT ![Step(s).file] = session[s].seen[Step(s).file]]
      BY DEF StoreFile
    <2>2. [session[s] EXCEPT !.owes = @ \ {o \in session[s].owes : o[1] = Step(s).file}] = u
      BY <1>2, <1>3, <1>8, <1>9
    <2> QED
      BY <1>2, <1>3, <1>7, <1>8, <1>10, <2>1, <2>2 DEF Advance, After
  <1>12. /\ DOMAIN u = Fields /\ u.net = r.net /\ u.todo = r.todo /\ u.alone = r.alone
         /\ u.seen = r.seen /\ \A o : o \in u.owes <=> o \in r.owes /\ o[1] # f
    BY <1>2, <1>8, <1>9 DEF Fields
  <1>13. st.op = "store" /\ f \in Files /\ f \in DOMAIN r.seen /\ StoresAt(r.todo, 1, f)
    BY <1>1, <1>2, <1>3 DEF WellNamed, Uses, StoresAt
  <1>14. /\ AllOrderly(ss) /\ r = ss[s] /\ \A w \in W : w.file \in Files
         /\ DOMAIN fl = Files
    BY <1>2, <1>4, <1>5, <1>6, FactsAreFacts DEF ListInv
  <1>15. PICK after : after = After(u)
    OBVIOUS
  <1>16. Orderly(after) /\ (Len(u.todo) = 1 => u.owes = {})
    BY <1>2, <1>3, <1>12, <1>13, <1>15, AfterIsOrderly
  <1>17. DOMAIN after = Fields /\ (after.todo # <<>> => after.alone = r.alone)
    BY <1>12, <1>15, AfterIs, NothingLeft
  <1>18. AllOrderly([ss EXCEPT ![s] = after])
    BY <1>2, <1>14, <1>16, <1>17, SessionsStayOrderly
  <1>19. ASSUME NEW w, Told(ex, w) PROVE Told(ex2, w) \/ (Owed(r, w) /\ w.file = f)
    <2>1. SUFFICES ASSUME ~ Told(ex2, w) PROVE Owed(r, w) /\ w.file = f
      OBVIOUS
    <2>2. PICK o \in paid : <<w.net, w.file, w.key>> = <<r.net>> \o o
      BY <1>10, <1>19, <2>1 DEF Told
    <2>3. PICK g, k : o = <<g, k>>
      BY <1>2, <1>8, <2>2 DEF Orderly
    <2>4. <<w.net, w.file, w.key>> = <<r.net, g, k>>
      BY <2>2, <2>3, Prefixed
    <2>5. w.net = r.net /\ w.file = g /\ w.key = k /\ o[1] = g
      BY <2>3, <2>4
    <2> QED
      BY <1>8, <2>2, <2>3, <2>5 DEF Owed
  <1>20. PICK fl2 : fl2 = [fl EXCEPT ![f] = r.seen[f]]
    OBVIOUS
  <1>21. PICK ss2 : ss2 = [ss EXCEPT ![s] = after]
    OBVIOUS
  <1>22. ASSUME ~ overlap PROVE Kept(fl2, W, ex2, ss2)
    <2>1. Kept(fl, W, ex, ss)
      BY <1>4, <1>5, <1>6, <1>7, <1>22 DEF BookInv
    <2>2. Orderly(After(u))
      BY <1>15, <1>16
    <2>3. Kept([fl EXCEPT ![f] = r.seen[f]], W, ex2, [ss EXCEPT ![s] = After(u)])
      BY <1>2, <1>12, <1>13, <1>14, <1>16, <1>19, <2>1, <2>2, StoringKeeps
    <2> QED
      BY <1>15, <1>20, <1>21, <2>3
  <1>23. session' = ss2 /\ files' = fl2
    BY <1>4, <1>5, <1>11, <1>15, <1>20, <1>21
  <1>24. AllOrderly(session')
    BY <1>18, <1>21, <1>23
  <1>25. overlap' \/ Kept(files', Facts(saved', made'), excused', session')
    BY <1>1, <1>6, <1>11, <1>22, <1>23
  <1>26. \A g \in Files : DOMAIN files'[g] = Networks
    BY <1>2, <1>4, <1>13, <1>14, <1>20, <1>23 DEF BookInv
  <1> QED
    BY <1>1, <1>24, <1>25, <1>26 DEF BookInv

\* Only this thing was made, and pairs that no list names.
OnlyMade(md, md2, n, kind, key) ==
    \A m \in Networks, k \in Kinds : \A x \in DOMAIN md2[m][k] :
       \/ x \in DOMAIN md[m][k] /\ md2[m][k][x] = md[m][k][x]
       \/ m = n /\ k = kind /\ x = key
       \/ k = "pool" /\ md2[m][k][x] = "byILM"

About(w, n, f, k) == w.net = n /\ w.file = f /\ w.key = k

LEMMA FactsAfterMaking ==
    ASSUME NEW sv, NEW md, NEW md2, NEW n, NEW kind \in Kinds, NEW key,
           OnlyMade(md, md2, n, kind, key), NEW w \in Facts(sv, md2)
    PROVE  w \in Facts(sv, md) \/ About(w, n, ListOf[kind], key)
  <1>1. SUFFICES ASSUME ~ (w.net = n /\ w.file = ListOf[kind] /\ w.key = key)
                 PROVE  w \in Facts(sv, md)
    BY DEF About
  <1>2. PICK a, f, x, v : a = w.net /\ f = w.file /\ x = w.key /\ v = w.value
    OBVIOUS
  <1>3. w = Fact(a, f, x, v) /\ Fact(a, f, x, v) \in Facts(sv, md2)
    BY <1>1, <1>2, FactsAreFacts
  <1>4. /\ a \in Networks
        /\ \/ f = "address" /\ \E y \in DOMAIN sv[a] : x = EntryOf(y) /\ v = sv[a][y].at
           \/ /\ f = "proxyAdmin" /\ x = "ProxyAdmin" /\ x \in DOMAIN sv[a]
              /\ v = sv[a][x].at
           \/ \E k \in Kinds :
                 /\ f = ListOf[k] /\ x \in DOMAIN md2[a][k]
                 /\ v = md2[a][k][x] /\ v # "byILM"
    BY <1>3, FactsAre
  <1>5. ASSUME NEW k \in Kinds, f = ListOf[k], x \in DOMAIN md2[a][k],
               v = md2[a][k][x], v # "byILM"
        PROVE  x \in DOMAIN md[a][k] /\ v = md[a][k][x]
    BY <1>1, <1>2, <1>4, <1>5 DEF OnlyMade
  <1>6. /\ a \in Networks
        /\ \/ f = "address" /\ \E y \in DOMAIN sv[a] : x = EntryOf(y) /\ v = sv[a][y].at
           \/ /\ f = "proxyAdmin" /\ x = "ProxyAdmin" /\ x \in DOMAIN sv[a]
              /\ v = sv[a][x].at
           \/ \E k \in Kinds :
                 /\ f = ListOf[k] /\ x \in DOMAIN md[a][k]
                 /\ v = md[a][k][x] /\ v # "byILM"
    BY <1>4, <1>5
  <1>7. Fact(a, f, x, v) \in Facts(sv, md)
    BY <1>6, FactsAre
  <1> QED
    BY <1>3, <1>7

LEMMA MakeKeeps ==
    ASSUME NEW r, Orderly(r), r.todo # <<>>, NEW W, NEW ex, Current(r, W, ex), Paying(r, W),
           NEW st, st = r.todo[1], st.op \in {"create", "alter"}, NEW f, f = ListOf[st.kind],
           NEW u, u.net = r.net, u.todo = r.todo, u.alone = r.alone, u.seen = r.seen,
           \A o : o \in u.owes <=> o \in r.owes \/ o = <<f, st.key>>,
           NEW W2, \A w \in W2 : w \in W \/ About(w, r.net, f, st.key)
    PROVE  Keeps(r, u, W, W2, ex)
  <1>1. /\ TidyAt(r.todo, 1) /\ IsProgram(r.todo) /\ Len(r.todo) >= 1 /\ Len(r.todo) \in Nat
        /\ st = Head(r.todo)
    BY NextStepIsTidy, TailOf DEF Orderly, Tidy
  <1>2. RecordedFrom(Tail(r.todo), 1, f, st.key)
    <2>1. RecordedFrom(r.todo, 1 + 1, f, st.key)
      BY <1>1 DEF TidyAt
    <2> QED
      BY <1>1, <2>1, RecordedShift
  <1>3. ASSUME NEW w \in W2 PROVE w \in W \/ Owed(u, w)
    BY <1>3 DEF Owed, About
  <1>4. ASSUME NEW w \in W2, InUse(u, w.file)
        PROVE  Told(ex, w) \/ Held(u.seen[w.file], w) \/ Owed(u, w)
    <2>1. InUse(r, w.file)
      BY <1>4 DEF InUse
    <2>2. Owed(r, w) => Owed(u, w)
      BY DEF Owed
    <2> QED
      BY <1>3, <2>1, <2>2 DEF Current
  <1>5. ASSUME NEW w \in W2, Owed(u, w)
        PROVE  \/ w.file \in DOMAIN u.seen /\ Held(u.seen[w.file], w)
               \/ RecordedFrom(Tail(r.todo), 1, w.file, w.key)
    <2>1. CASE <<w.file, w.key>> = <<f, st.key>>
      BY <1>2, <2>1
    <2>2. CASE <<w.file, w.key>> # <<f, st.key>>
      <3>1. Owed(r, w) /\ w \in W
        BY <1>5, <2>2 DEF Owed, About
      <3>2. ~ WritesOrStops(st, w.file, w.key)
        BY DEF WritesOrStops, Unknown
      <3> QED
        BY <1>1, <3>1, <3>2, PayingOn
    <2> QED
      BY <2>1, <2>2
  <1> QED
    BY <1>3, <1>4, <1>5 DEF Keeps

\* What the core, the matching or the farming contract has created or changed
\* is owed to the list.
LEMMA MakeBookStep ==
    ASSUME ListInv, BookInv, NEW s \in Alive, Step(s).op \in {"create", "alter"},
           UNCHANGED <<files, overlap, saved, excused>>,
           Advance(s, [session[s] EXCEPT !.owes = @ \cup {<<ListOf[Step(s).kind], Step(s).key>>}]),
           OnlyMade(made, made', session[s].net, Step(s).kind, Step(s).key)
    PROVE  BookInv'
  <1>2. PICK r, st :
           /\ s \in Sessions /\ r = session[s] /\ st = Step(s) /\ st = Head(r.todo)
           /\ r.todo # <<>> /\ DOMAIN r = Fields /\ Orderly(r)
           /\ WellNamed(st) /\ st = r.todo[1]
           /\ \A f \in DOMAIN r.seen : f \in Files /\ DOMAIN r.seen[f] = Networks
           /\ AllOrderly(session)
    BY AtWorkOnBook
  <1>3. PICK f : f = ListOf[st.kind]
    OBVIOUS
  <1>4. PICK fl : fl = files
    OBVIOUS
  <1>5. PICK ss : ss = session
    OBVIOUS
  <1>6. PICK W : W = Facts(saved, made)
    OBVIOUS
  <1>7. PICK ex : ex = excused /\ ex = excused'
    OBVIOUS
  <1>8. PICK u : u = [r EXCEPT !.owes = r.owes \cup {<<f, st.key>>}]
    OBVIOUS
  <1>a. PICK W2 : W2 = Facts(saved', made')
    OBVIOUS
  <1>9. session' = [session EXCEPT ![s] = After(u)] /\ files' = files /\ overlap' = overlap
    BY <1>2, <1>3, <1>8 DEF Advance, After
  <1>10. /\ DOMAIN u = Fields /\ u.net = r.net /\ u.todo = r.todo /\ u.alone = r.alone
         /\ u.seen = r.seen /\ \A o : o \in u.owes <=> o \in r.owes \/ o = <<f, st.key>>
    BY <1>2, <1>8 DEF Fields
  <1>11. /\ st.op \in {"create", "alter"} /\ st.kind \in Kinds
         /\ (st.kind = "token" => st.key # "misspelt")
    BY <1>2 DEF WellNamed
  <1>12. \A w \in W2 : w \in W \/ About(w, r.net, f, st.key)
    <2>1. PICK sv : sv = saved /\ sv = saved'
      OBVIOUS
    <2>2. PICK md : md = made
      OBVIOUS
    <2>3. PICK md2 : md2 = made'
      OBVIOUS
    <2>4. PICK n, kind, key : n = r.net /\ kind = st.kind /\ key = st.key
      OBVIOUS
    <2>5. OnlyMade(md, md2, n, kind, key)
      BY <1>2, <2>2, <2>3, <2>4
    <2>6. ASSUME NEW w \in Facts(sv, md2)
          PROVE  w \in Facts(sv, md) \/ About(w, n, ListOf[kind], key)
      BY <1>11, <2>4, <2>5, FactsAfterMaking
    <2> QED
      BY <1>3, <1>6, <1>a, <2>1, <2>2, <2>3, <2>4, <2>6
  <1>13. CopiesFollow(r, u, st) /\ OwesFollow(r, u, st) /\ st.op # "store" /\ ex \subseteq ex
    BY <1>2, <1>3, <1>10, <1>11 DEF CopiesFollow, OwesFollow, Owing
  <1>14. NamesAreRight(saved', made')
    <2>1. ASSUME NEW n \in Networks PROVE "misspelt" \notin DOMAIN made'[n]["token"]
      <3>1. "token" \in Kinds /\ "misspelt" \notin DOMAIN made[n]["token"]
        BY DEF Kinds, BookInv
      <3> QED
        BY <1>2, <1>11, <3>1 DEF OnlyMade
    <2> QED
      BY <2>1 DEF BookInv, NamesAreRight
  <1>15. ASSUME Kept(fl, W, ex, ss) PROVE Keeps(r, u, W, W2, ex)
    <2>1. Current(r, W, ex) /\ Paying(r, W)
      BY <1>2, <1>5, <1>15 DEF Kept
    <2> QED
      BY <1>2, <1>3, <1>10, <1>11, <1>12, <2>1, MakeKeeps
  <1> QED
    BY <1>2, <1>4, <1>5, <1>6, <1>a, <1>7, <1>9, <1>10, <1>13, <1>14, <1>15, BookStep

LEMMA CreateBookStep ==
    ASSUME ListInv, BookInv, NEW s \in Sessions, CreateThing(s) PROVE BookInv'
  <1> DEFINE n == session[s].net
             st == Step(s)
  <1>1. /\ s \in Alive /\ st.op = "create"
        /\ UNCHANGED <<files, overlap, saved, excused>>
        /\ made' = [made EXCEPT ![n][st.kind] = Put(@, st.key, "new")]
        /\ Advance(s, [session[s] EXCEPT !.owes = @ \cup {<<ListOf[st.kind], st.key>>}])
    BY DEF CreateThing, Doing, Bookkeeping
  <1>2. n \in Networks /\ st.kind \in Kinds
    BY <1>1, AtWork
  <1>3. Shaped(made)
    BY DEF ListInv
  <1>4. OnlyMade(made, made', n, st.kind, st.key)
    BY <1>1, <1>2, <1>3 DEF OnlyMade, Shaped, Put
  <1> QED
    BY <1>1, <1>4, MakeBookStep

LEMMA AlterBookStep ==
    ASSUME ListInv, BookInv, NEW s \in Sessions, AlterThing(s) PROVE BookInv'
  <1> DEFINE n == session[s].net
             st == Step(s)
             altered == [made[n] EXCEPT ![st.kind] = Put(@, st.key, "changed")]
             paired == [altered EXCEPT !["pool"] = Put(@, st.key, "byILM")]
             now == IF st.kind = "ilm" THEN paired ELSE altered
  <1>1. /\ s \in Alive /\ st.op = "alter"
        /\ UNCHANGED <<files, overlap, saved, excused>>
        /\ made' = [made EXCEPT ![n] = now]
        /\ Advance(s, [session[s] EXCEPT !.owes = @ \cup {<<ListOf[st.kind], st.key>>}])
    BY DEF AlterThing, Doing, Bookkeeping
  <1>2. n \in Networks /\ st.kind \in Kinds
    BY <1>1, AtWork
  <1>3. Shaped(made)
    BY DEF ListInv
  <1>4. made[n] = [kind \in Kinds |-> made[n][kind]] /\ made' = [m \in Networks |-> made'[m]]
    BY <1>1, <1>2, <1>3 DEF Shaped
  <1>5. \A k \in Kinds : \A x \in DOMAIN altered[k] :
           \/ x \in DOMAIN made[n][k] /\ altered[k][x] = made[n][k][x]
           \/ k = st.kind /\ x = st.key
    BY <1>2, <1>4 DEF Put
  <1>6. altered = [kind \in Kinds |-> altered[kind]]
    BY <1>4
  <1> HIDE DEF altered
  <1>7. \A k \in Kinds : \A x \in DOMAIN paired[k] :
           \/ x \in DOMAIN altered[k] /\ paired[k][x] = altered[k][x]
           \/ k = "pool" /\ paired[k][x] = "byILM"
    BY <1>6 DEF Put
  <1> HIDE DEF paired
  <1>8. \A k \in Kinds : \A x \in DOMAIN now[k] :
           \/ x \in DOMAIN made[n][k] /\ now[k][x] = made[n][k][x]
           \/ k = st.kind /\ x = st.key
           \/ k = "pool" /\ now[k][x] = "byILM"
    <2>1. CASE st.kind = "ilm"
      BY <1>5, <1>7, <2>1
    <2>2. CASE st.kind # "ilm"
      BY <1>5, <2>2
    <2> QED
      BY <2>1, <2>2
  <1> HIDE DEF now
  <1>9. made'[n] = now /\ \A m \in Networks : m # n => made'[m] = made[m]
    BY <1>1, <1>2, <1>3 DEF Shaped
  <1>10. OnlyMade(made, made', n, st.kind, st.key)
    <2>1. SUFFICES ASSUME NEW m \in Networks, NEW k \in Kinds, NEW x \in DOMAIN made'[m][k]
                   PROVE  \/ x \in DOMAIN made[m][k] /\ made'[m][k][x] = made[m][k][x]
                          \/ m = n /\ k = st.kind /\ x = st.key
                          \/ k = "pool" /\ made'[m][k][x] = "byILM"
      BY DEF OnlyMade
    <2>2. CASE m = n
      BY <1>8, <1>9, <2>2
    <2>3. CASE m # n
      BY <1>9, <2>3
    <2> QED
      BY <2>2, <2>3
  <1> QED
    BY <1>1, <1>10, MakeBookStep

\* Value v was written under k, for network n, in the copies into.
Wrote(seen, seen2, into, n, k, v) ==
    /\ into \subseteq DOMAIN seen
    /\ DOMAIN seen2 = DOMAIN seen
    /\ \A f \in DOMAIN seen \ into : seen2[f] = seen[f]
    /\ \A f \in into : /\ seen2[f][n] = Put(seen[f][n], k, v)
                      /\ \A m \in Networks : m # n => seen2[f][m] = seen[f][m]

Written(w, into, n, k) == w.file \in into /\ About(w, n, w.file, k)

LEMMA HeldAfterWriting ==
    ASSUME NEW seen, NEW seen2, NEW into, NEW n, NEW k, NEW v,
           Wrote(seen, seen2, into, n, k, v),
           NEW w, w.net \in Networks, w.file \in DOMAIN seen,
           Written(w, into, n, k) => w.value = v,
           Held(seen[w.file], w) \/ Written(w, into, n, k)
    PROVE  Held(seen2[w.file], w)
  <1>1. CASE w.file \notin into
    BY <1>1 DEF Wrote, Written
  <1>2. CASE w.file \in into /\ w.net # n
    BY <1>2 DEF Held, Records, Has, Wrote, Written, About
  <1>3. CASE w.file \in into /\ w.net = n
    <2>1. seen2[w.file][w.net] = Put(seen[w.file][w.net], k, v)
      BY <1>3 DEF Wrote
    <2>2. w.key = k => w.value = v
      BY <1>3 DEF Written, About
    <2>3. w.key # k => Records(seen[w.file][w.net], w.key, w.value)
      BY <1>3 DEF Held, Written, About
    <2> QED
      BY <2>1, <2>2, <2>3 DEF Held, Records, Has, Put
  <1> QED
    BY <1>1, <1>2, <1>3

RecordsAt(p, i, f, k) == p[i].op = "record" /\ p[i].file = f /\ p[i].key = k

LEMMA RecordKeeps ==
    ASSUME NEW r, NEW u, NEW W, NEW ex, NEW f, NEW k, NEW v, NEW into, NEW seen, NEW n,
           Orderly(r), r.todo # <<>>, Current(r, W, ex), Paying(r, W),
           RecordsAt(r.todo, 1, f, k), f \in into,
           u.net = r.net, u.todo = r.todo, u.alone = r.alone, u.owes = r.owes,
           seen = r.seen, n = r.net, Wrote(seen, u.seen, into, n, k, v),
           \A w \in W : w.net \in Networks /\ (Written(w, into, n, k) => w.value = v)
    PROVE  Keeps(r, u, W, W, ex)
  <1>1. IsProgram(r.todo) /\ DOMAIN u.seen = DOMAIN r.seen /\ f \in DOMAIN r.seen
    BY DEF Orderly, Tidy, Wrote
  <1>2. \A w : Owed(u, w) <=> Owed(r, w)
    BY DEF Owed
  <1>3. ASSUME NEW w \in W, w.file \in DOMAIN r.seen,
               Held(r.seen[w.file], w) \/ Written(w, into, r.net, k)
        PROVE  Held(u.seen[w.file], w)
    <2>1. PICK seen2 : seen2 = u.seen
      OBVIOUS
    <2>2. /\ Wrote(seen, seen2, into, n, k, v) /\ w.net \in Networks
          /\ w.file \in DOMAIN seen /\ (Written(w, into, n, k) => w.value = v)
          /\ Held(seen[w.file], w) \/ Written(w, into, n, k)
      BY <1>3, <2>1
    <2>3. Held(seen2[w.file], w)
      BY <2>2, HeldAfterWriting
    <2> QED
      BY <2>1, <2>3
  <1>4. ASSUME NEW w \in W, InUse(u, w.file)
        PROVE  Told(ex, w) \/ Held(u.seen[w.file], w) \/ Owed(u, w)
    <2>1. InUse(r, w.file) /\ w.file \in DOMAIN r.seen
      BY <1>1, <1>4 DEF InUse
    <2>2. Told(ex, w) \/ Held(r.seen[w.file], w) \/ Owed(r, w)
      BY <2>1 DEF Current
    <2> QED
      BY <1>2, <1>3, <2>1, <2>2
  <1>5. ASSUME NEW w \in W, Owed(u, w)
        PROVE  \/ w.file \in DOMAIN u.seen /\ Held(u.seen[w.file], w)
               \/ RecordedFrom(Tail(r.todo), 1, w.file, w.key)
    <2>1. CASE WritesOrStops(r.todo[1], w.file, w.key)
      <3>1. w.file = f /\ w.key = k
        BY <2>1 DEF RecordsAt, WritesOrStops, Unknown
      <3>2. Written(w, into, r.net, k)
        BY <1>2, <1>5, <3>1 DEF Owed, About, Written
      <3> QED
        BY <1>1, <1>3, <3>1, <3>2
    <2>2. CASE ~ WritesOrStops(r.todo[1], w.file, w.key)
      <3>1. \/ w.file \in DOMAIN r.seen /\ Held(r.seen[w.file], w)
            \/ RecordedFrom(Tail(r.todo), 1, w.file, w.key)
        BY <1>1, <1>2, <1>5, <2>2, PayingOn
      <3> QED
        BY <1>1, <1>3, <3>1
    <2> QED
      BY <2>1, <2>2
  <1> QED
    BY <1>4, <1>5 DEF Keeps

LEMMA ListFactIs ==
    ASSUME NEW sv, NEW md, NEW w \in Facts(sv, md), NEW n, NEW kind \in Kinds, NEW k,
           About(w, n, ListOf[kind], k)
    PROVE  w.value = md[n][kind][k]
  <1>1. PICK a, f, x, v : a = w.net /\ f = w.file /\ x = w.key /\ v = w.value
    OBVIOUS
  <1>2. Fact(a, f, x, v) \in Facts(sv, md)
    BY <1>1, FactsAreFacts
  <1>3. \/ f = "address" \/ f = "proxyAdmin"
        \/ \E other \in Kinds : f = ListOf[other] /\ v = md[a][other][x]
    BY <1>2, FactsAre
  <1>4. f = ListOf[kind] /\ a = n /\ x = k
    BY <1>1 DEF About
  <1> QED
    BY <1>1, <1>3, <1>4, ListsAreApart

LEMMA RecordBookStep ==
    ASSUME ListInv, BookInv, NEW s \in Sessions, RecordThing(s) PROVE BookInv'
  <1> DEFINE n == session[s].net
             changed == [session[s].seen EXCEPT ![Step(s).file][n] =
                            Put(@, Step(s).key, made[n][Step(s).kind][Step(s).key])]
  <1>1. /\ s \in Alive /\ Step(s).op = "record"
        /\ UNCHANGED <<files, overlap, saved, made, excused>>
        /\ Advance(s, [session[s] EXCEPT !.seen = changed])
    BY DEF RecordThing, Doing, onChain, Bookkeeping
  <1>2. PICK r, st :
           /\ s \in Sessions /\ r = session[s] /\ st = Step(s) /\ st = Head(r.todo)
           /\ r.todo # <<>> /\ DOMAIN r = Fields /\ Orderly(r)
           /\ WellNamed(st) /\ st = r.todo[1] /\ Uses(st) \subseteq DOMAIN r.seen
           /\ \A f \in DOMAIN r.seen : f \in Files /\ DOMAIN r.seen[f] = Networks
           /\ AllOrderly(session) /\ r.net \in Networks
    BY <1>1, AtWorkOnBook
  <1>3. PICK f, v : f = st.file /\ v = made[r.net][st.kind][st.key]
    OBVIOUS
  <1>4. PICK fl : fl = files
    OBVIOUS
  <1>5. PICK ss : ss = session
    OBVIOUS
  <1>6. PICK W : W = Facts(saved, made) /\ W = Facts(saved', made')
    BY <1>1
  <1>7. PICK ex : ex = excused /\ ex = excused'
    BY <1>1
  <1>a. PICK copy2 : copy2 = [r.seen[f] EXCEPT ![r.net] = Put(r.seen[f][r.net], st.key, v)]
    OBVIOUS
  <1>8. PICK seen : seen = [r.seen EXCEPT ![f] = copy2]
    OBVIOUS
  <1>9. PICK u : u = [r EXCEPT !.seen = seen]
    OBVIOUS
  <1>10. session' = [session EXCEPT ![s] = After(u)] /\ files' = files /\ overlap' = overlap
    <2>1. changed = seen
      BY <1>2, <1>3, <1>8, <1>a
    <2> HIDE DEF changed
    <2> QED
      BY <1>1, <1>2, <1>9, <2>1 DEF Advance, After
  <1> HIDE DEF changed
  <1>11. /\ DOMAIN u = Fields /\ u.net = r.net /\ u.todo = r.todo /\ u.alone = r.alone
         /\ u.owes = r.owes /\ u.seen = seen
    BY <1>2, <1>9 DEF Fields
  <1>12. st.op = "record" /\ f \in DOMAIN r.seen /\ st.kind \in Kinds /\ f = ListOf[st.kind]
    BY <1>1, <1>2, <1>3 DEF WellNamed, Uses
  <1>13. /\ DOMAIN u.seen = DOMAIN r.seen
         /\ \A x \in DOMAIN r.seen : x # f => u.seen[x] = r.seen[x]
         /\ u.seen[f][r.net] = Put(r.seen[f][r.net], st.key, v)
         /\ \A m \in Networks : m # r.net => u.seen[f][m] = r.seen[f][m]
    <2>1. DOMAIN seen = DOMAIN r.seen /\ seen[f] = copy2
          /\ \A x \in DOMAIN r.seen : x # f => seen[x] = r.seen[x]
      BY <1>8, <1>12
    <2>2. copy2[r.net] = Put(r.seen[f][r.net], st.key, v)
          /\ \A m \in Networks : m # r.net => copy2[m] = r.seen[f][m]
      BY <1>2, <1>a, <1>12
    <2> QED
      BY <1>11, <2>1, <2>2
  <1>14. CopiesFollow(r, u, st) /\ OwesFollow(r, u, st) /\ st.op # "store" /\ ex \subseteq ex
    <2>1. ASSUME NEW x \in DOMAIN u.seen PROVE x \in Files /\ DOMAIN u.seen[x] = Networks
      <3>1. x \in DOMAIN r.seen /\ x \in Files /\ DOMAIN r.seen[x] = Networks
        BY <1>2, <1>13
      <3>2. CASE x # f
        BY <1>13, <3>1, <3>2
      <3>3. CASE x = f
        BY <1>8, <1>a, <1>11, <1>12, <3>1, <3>3
      <3> QED
        BY <3>1, <3>2, <3>3
    <2> QED
      BY <1>11, <1>12, <1>13, <2>1 DEF CopiesFollow, OwesFollow
  <1>15. NamesAreRight(saved', made')
    BY <1>1 DEF BookInv, NamesAreRight
  <1>16. \A w \in W : w.net \in Networks /\ (About(w, r.net, f, st.key) => w.value = v)
    <2>1. PICK sv, md : sv = saved /\ md = made /\ W = Facts(sv, md)
      BY <1>6
    <2>2. PICK n1, k1, key : n1 = r.net /\ k1 = st.kind /\ key = st.key
      OBVIOUS
    <2>3. k1 \in Kinds /\ v = md[n1][k1][key]
      BY <1>3, <1>12, <2>1, <2>2
    <2>4. ASSUME NEW w \in Facts(sv, md)
          PROVE  /\ w.net \in Networks
                 /\ (About(w, n1, ListOf[k1], key) => w.value = md[n1][k1][key])
      BY <2>3, FactsAreFacts, ListFactIs
    <2> QED
      BY <1>12, <2>1, <2>2, <2>3, <2>4
  <1>17. ASSUME Kept(fl, W, ex, ss) PROVE Keeps(r, u, W, W, ex)
    <2>1. Current(r, W, ex) /\ Paying(r, W)
      BY <1>2, <1>5, <1>17 DEF Kept
    <2>2. PICK k : k = st.key
      OBVIOUS
    <2>a. PICK into : into = {f}
      OBVIOUS
    <2>b. PICK seen0, n0 : seen0 = r.seen /\ n0 = r.net
      OBVIOUS
    <2>3. RecordsAt(r.todo, 1, f, k) /\ f \in into
      BY <1>2, <1>3, <1>12, <2>2, <2>a DEF RecordsAt
    <2>4. \A w \in W : w.net \in Networks /\ (Written(w, into, n0, k) => w.value = v)
      BY <1>16, <2>2, <2>a, <2>b DEF Written, About
    <2>5. Wrote(seen0, u.seen, into, n0, k, v)
      BY <1>11, <1>12, <1>13, <2>2, <2>a, <2>b DEF Wrote
    <2>6. /\ Orderly(r) /\ r.todo # <<>>
          /\ u.net = r.net /\ u.todo = r.todo /\ u.alone = r.alone /\ u.owes = r.owes
      BY <1>2, <1>11
    <2> QED
      BY <2>1, <2>b, <2>3, <2>4, <2>5, <2>6, RecordKeeps
  <1> QED
    BY <1>2, <1>4, <1>5, <1>6, <1>7, <1>10, <1>11, <1>14, <1>15, <1>17, BookStep

\* Clearing keeps one copy; what it loses of it, and had been told, is excused.
ClearsAt(p, i, f) == p[i].op = "clear" /\ p[i].as = f

LEMMA ClearKeeps ==
    ASSUME NEW ss, AllOrderly(ss), NEW W, NEW ex, NEW fl, Kept(fl, W, ex, ss),
           \A w \in W : w.net \in Networks,
           NEW s \in Sessions, NEW r, r = ss[s], r.todo # <<>>,
           NEW f, ClearsAt(r.todo, 1, f), f \in DOMAIN r.seen,
           NEW u, u.net = r.net, u.todo = r.todo, u.alone = r.alone, u.owes = r.owes,
           DOMAIN u.seen = {f},
           \A m \in Networks : m # r.net => u.seen[f][m] = r.seen[f][m],
           NEW ex2, ex \subseteq ex2, \A k \in DOMAIN fl[f][r.net] : <<r.net, f, k>> \in ex2
    PROVE  Keeps(r, u, W, W, ex2)
  <1>1. Current(r, W, ex) /\ Paying(r, W) /\ Orderly(r) /\ IsProgram(r.todo)
    BY DEF Kept, AllOrderly, Orderly, Tidy
  <1>2. ASSUME NEW w, Owed(r, w) PROVE FALSE
    <2>1. PICK g, k : <<w.file, w.key>> = <<g, k>> /\ SettledFrom(r.todo, 1, g)
      BY <1>1, <1>2 DEF Orderly, Owed
    <2> QED
      BY <1>1, <2>1, SettledLater DEF ClearsAt
  <1>3. \A w : ~ Owed(u, w)
    BY <1>2 DEF Owed
  <1>4. ASSUME NEW w \in W, InUse(u, w.file)
        PROVE  Told(ex2, w) \/ Held(u.seen[w.file], w)
    <2>1. /\ w.file = f /\ InUse(r, w.file) /\ w.net \in Networks
          /\ w.file \in StoredBy(r.todo) \/ r.alone
      BY <1>4 DEF InUse
    <2>2. CASE w.net # r.net
      <3>1. Told(ex, w) \/ Held(r.seen[w.file], w)
        BY <1>1, <1>2, <2>1 DEF Current
      <3>2. Held(r.seen[w.file], w) => Held(u.seen[w.file], w)
        BY <2>1, <2>2 DEF Held
      <3> QED
        BY <3>1, <3>2 DEF Told
    <2>3. CASE w.net = r.net
      <3>1. Told(ex, w) \/ Held(fl[w.file], w)
        BY <1>2, <2>1, ToldToMe
      <3>2. Held(fl[w.file], w) => Told(ex2, w)
        BY <2>1, <2>3 DEF Held, Records, Has, Told
      <3> QED
        BY <3>1, <3>2 DEF Told
    <2> QED
      BY <2>2, <2>3
  <1> QED
    BY <1>3, <1>4 DEF Keeps

LEMMA ClearBookStep ==
    ASSUME ListInv, BookInv, NEW s \in Sessions, ClearCopy(s) PROVE BookInv'
  <1> DEFINE cleared == [session[s].seen[Step(s).file] EXCEPT ![session[s].net] = Empty]
  <1>1. /\ s \in Alive /\ Step(s).op = "clear"
        /\ UNCHANGED <<files, overlap, saved, made>>
        /\ Advance(s, [session[s] EXCEPT !.seen = [f \in {Step(s).as} |-> cleared]])
        /\ excused' = excused \cup {<<session[s].net, Step(s).as, k>> :
                                       k \in DOMAIN files[Step(s).as][session[s].net]}
    BY DEF ClearCopy, Doing, onChain, History
  <1>2. PICK r, st :
           /\ s \in Sessions /\ r = session[s] /\ st = Step(s) /\ st = Head(r.todo)
           /\ r.todo # <<>> /\ DOMAIN r = Fields /\ Orderly(r)
           /\ TidyAt(r.todo, 1) /\ st = r.todo[1] /\ Uses(st) \subseteq DOMAIN r.seen
           /\ \A f \in DOMAIN r.seen : f \in Files /\ DOMAIN r.seen[f] = Networks
           /\ AllOrderly(session) /\ r.net \in Networks
    BY <1>1, AtWorkOnBook
  <1>3. PICK f : f = st.file
    OBVIOUS
  <1>4. PICK fl : fl = files
    OBVIOUS
  <1>5. PICK ss : ss = session
    OBVIOUS
  <1>6. PICK W : W = Facts(saved, made) /\ W = Facts(saved', made')
    BY <1>1
  <1>7. PICK ex : ex = excused
    OBVIOUS
  <1>8. st.op = "clear" /\ f \in DOMAIN r.seen /\ st.as = f
    BY <1>1, <1>2, <1>3 DEF TidyAt, Uses
  <1>9. PICK ex2 : ex2 = ex \cup {<<r.net, f, k>> : k \in DOMAIN fl[f][r.net]}
    OBVIOUS
  <1>10. PICK less : less = [r.seen[f] EXCEPT ![r.net] = Empty]
    OBVIOUS
  <1>11. PICK u : u = [r EXCEPT !.seen = [g \in {f} |-> less]]
    OBVIOUS
  <1>12. cleared = less
    BY <1>2, <1>3, <1>10
  <1> HIDE DEF cleared
  <1>13. /\ session' = [session EXCEPT ![s] = After(u)] /\ files' = files /\ overlap' = overlap
         /\ excused' = ex2
    <2>1. Step(s).as = f
      BY <1>2, <1>8
    <2>2. Advance(s, u)
      BY <1>1, <1>2, <1>11, <1>12, <2>1
    <2>3. session' = [session EXCEPT ![s] = After(u)]
      BY <2>2 DEF Advance, After
    <2>4. excused' = ex2
      BY <1>1, <1>2, <1>4, <1>7, <1>9, <2>1
    <2> QED
      BY <1>1, <2>3, <2>4
  <1>14. /\ DOMAIN u = Fields /\ u.net = r.net /\ u.todo = r.todo /\ u.alone = r.alone
         /\ u.owes = r.owes /\ DOMAIN u.seen = {f} /\ u.seen[f] = less
    BY <1>2, <1>11 DEF Fields
  <1>15. \A m \in Networks : m # r.net => u.seen[f][m] = r.seen[f][m]
    BY <1>2, <1>8, <1>10, <1>14
  <1>16. CopiesFollow(r, u, st) /\ OwesFollow(r, u, st) /\ st.op # "store" /\ ex \subseteq ex2
    <2>1. f \in Files /\ DOMAIN less = Networks
      BY <1>2, <1>8, <1>10
    <2> QED
      BY <1>8, <1>9, <1>14, <2>1 DEF CopiesFollow, OwesFollow
  <1>17. NamesAreRight(saved', made')
    BY <1>1 DEF BookInv, NamesAreRight
  <1>18. ASSUME Kept(fl, W, ex, ss) PROVE Keeps(r, u, W, W, ex2)
    <2>1. AllOrderly(ss) /\ r = ss[s] /\ r.todo # <<>> /\ ClearsAt(r.todo, 1, f)
      BY <1>2, <1>5, <1>8 DEF ClearsAt
    <2>2. \A w \in W : w.net \in Networks
      BY <1>6, FactsAreFacts
    <2>3. ex \subseteq ex2 /\ \A k \in DOMAIN fl[f][r.net] : <<r.net, f, k>> \in ex2
      BY <1>9
    <2>4. /\ s \in Sessions /\ f \in DOMAIN r.seen
          /\ u.net = r.net /\ u.todo = r.todo /\ u.alone = r.alone /\ u.owes = r.owes
          /\ DOMAIN u.seen = {f}
      BY <1>2, <1>8, <1>14
    <2> QED
      BY <1>15, <1>18, <2>1, <2>2, <2>3, <2>4, ClearKeeps
  <1> QED
    BY <1>2, <1>4, <1>5, <1>6, <1>7, <1>13, <1>14, <1>16, <1>17, <1>18, BookStep

\* A deployment changes the facts of its own entry, and only those.
FilesOf(x) == IF x = "ProxyAdmin" THEN {"address", "proxyAdmin"} ELSE {"address"}

LEMMA FactsAfterDeploying ==
    ASSUME NEW sv, NEW sv2, NEW md, NEW n, NEW x, NEW d, NEW into, NEW w,
           x # "VoteEscrowedDegis", \A m \in Networks : "VoteEscrowedDegis" \notin DOMAIN sv[m],
           sv2[n] = Put(sv[n], x, d), \A m \in Networks : m # n => sv2[m] = sv[m],
           into = FilesOf(x), w \in Facts(sv2, md)
    PROVE  /\ w \in Facts(sv, md) \/ Written(w, into, n, EntryOf(x))
           /\ Written(w, into, n, EntryOf(x)) => w.value = d.at
  <1>1. PICK a, f, k, v : a = w.net /\ f = w.file /\ k = w.key /\ v = w.value
    OBVIOUS
  <1>2. w = Fact(a, f, k, v) /\ Fact(a, f, k, v) \in Facts(sv2, md)
    BY <1>1, FactsAreFacts
  <1>3. /\ a \in Networks
        /\ \/ f = "address" /\ \E y \in DOMAIN sv2[a] : k = EntryOf(y) /\ v = sv2[a][y].at
           \/ /\ f = "proxyAdmin" /\ k = "ProxyAdmin" /\ k \in DOMAIN sv2[a]
              /\ v = sv2[a][k].at
           \/ \E kind \in Kinds :
                 /\ f = ListOf[kind] /\ k \in DOMAIN md[a][kind]
                 /\ v = md[a][kind][k] /\ v # "byILM"
    BY <1>2, FactsAre
  <1>4. Written(w, into, n, EntryOf(x)) <=> f \in FilesOf(x) /\ a = n /\ k = EntryOf(x)
    BY <1>1 DEF Written, About
  <1>5. ASSUME NEW y, a = n
        PROVE  /\ y \in DOMAIN sv2[a] <=> y \in DOMAIN sv[a] \/ y = x
               /\ y # x /\ y \in DOMAIN sv2[a] => sv2[a][y] = sv[a][y]
               /\ sv2[a][x] = d
    BY <1>5 DEF Put
  <1>6. ASSUME NEW y \in DOMAIN sv2[a], a = n, EntryOf(y) = EntryOf(x) PROVE y = x
    <2>1. y # "VoteEscrowedDegis"
      BY <1>3, <1>5, <1>6
    <2> QED
      BY <1>6, <2>1 DEF EntryOf
  <1>7. CASE f = "address"
    <2>1. PICK y \in DOMAIN sv2[a] : k = EntryOf(y) /\ v = sv2[a][y].at
      BY <1>3, <1>7, ListsAreApart
    <2>2. f \in FilesOf(x)
      BY <1>7 DEF FilesOf
    <2>3. CASE a = n /\ k = EntryOf(x)
      <3>1. y = x /\ v = d.at
        BY <1>5, <1>6, <2>1, <2>3
      <3> QED
        BY <1>1, <1>4, <2>2, <2>3, <3>1
    <2>4. CASE ~ (a = n /\ k = EntryOf(x))
      <3>1. y \in DOMAIN sv[a] /\ v = sv[a][y].at
        BY <1>3, <1>5, <2>1, <2>4
      <3>2. Fact(a, f, k, v) \in Facts(sv, md)
        BY <1>3, <1>7, <2>1, <3>1, FactsAre
      <3> QED
        BY <1>2, <1>4, <2>4, <3>2
    <2> QED
      BY <2>3, <2>4
  <1>8. CASE f = "proxyAdmin"
    <2>1. k = "ProxyAdmin" /\ k \in DOMAIN sv2[a] /\ v = sv2[a][k].at
      BY <1>3, <1>8, ListsAreApart
    <2>2. CASE a = n /\ x = "ProxyAdmin"
      <3>1. v = d.at /\ Written(w, into, n, EntryOf(x))
        BY <1>4, <1>5, <1>8, <2>1, <2>2 DEF FilesOf, EntryOf
      <3> QED
        BY <1>1, <3>1
    <2>3. CASE ~ (a = n /\ x = "ProxyAdmin")
      <3>1. k \in DOMAIN sv[a] /\ v = sv[a][k].at
        BY <1>3, <1>5, <2>1, <2>3
      <3>2. Fact(a, f, k, v) \in Facts(sv, md)
        BY <1>3, <1>8, <2>1, <3>1, FactsAre
      <3>3. ~ Written(w, into, n, EntryOf(x))
        BY <1>4, <1>8, <2>3 DEF FilesOf
      <3> QED
        BY <1>2, <3>2, <3>3
    <2> QED
      BY <2>2, <2>3
  <1>9. CASE f \notin {"address", "proxyAdmin"}
    <2>1. Fact(a, f, k, v) \in Facts(sv, md)
      BY <1>3, <1>9, FactsAre
    <2>2. ~ Written(w, into, n, EntryOf(x))
      BY <1>4, <1>9 DEF FilesOf
    <2> QED
      BY <1>2, <2>1, <2>2
  <1> QED
    BY <1>7, <1>8, <1>9

\* A session owes k to the copies into, on top of what it owed.
OwesAlso(r, u, into, k) ==
    \A o : o \in u.owes <=> o \in r.owes \/ \E f \in into : o = <<f, k>>

DeploysAt(p, i) == p[i].op \in {"deploy", "save"}

LEMMA DeployKeeps ==
    ASSUME NEW r, NEW u, NEW W, NEW W2, NEW ex, NEW k, NEW v, NEW into, NEW seen, NEW n,
           Orderly(r), r.todo # <<>>, Current(r, W, ex), Paying(r, W),
           DeploysAt(r.todo, 1),
           u.net = r.net, u.todo = r.todo, u.alone = r.alone,
           OwesAlso(r, u, into, k),
           seen = r.seen, n = r.net, Wrote(seen, u.seen, into, n, k, v),
           \A w \in W2 : /\ w.net \in Networks
                         /\ w \in W \/ Written(w, into, n, k)
                         /\ Written(w, into, n, k) => w.value = v
    PROVE  Keeps(r, u, W, W2, ex)
  <1>1. IsProgram(r.todo) /\ DOMAIN u.seen = DOMAIN r.seen /\ into \subseteq DOMAIN r.seen
    BY DEF Orderly, Tidy, Wrote
  <1>2. \A w : /\ Owed(r, w) => Owed(u, w)
               /\ Written(w, into, n, k) => Owed(u, w)
               /\ Owed(u, w) => Owed(r, w) \/ Written(w, into, n, k)
    BY DEF Owed, OwesAlso, Written, About
  <1>3. ASSUME NEW w \in W2, w.file \in DOMAIN r.seen,
               Held(r.seen[w.file], w) \/ Written(w, into, n, k)
        PROVE  Held(u.seen[w.file], w)
    <2>1. PICK seen2 : seen2 = u.seen
      OBVIOUS
    <2>2. /\ Wrote(seen, seen2, into, n, k, v) /\ w.net \in Networks
          /\ w.file \in DOMAIN seen /\ (Written(w, into, n, k) => w.value = v)
          /\ Held(seen[w.file], w) \/ Written(w, into, n, k)
      BY <1>3, <2>1
    <2>3. Held(seen2[w.file], w)
      BY <2>2, HeldAfterWriting
    <2> QED
      BY <2>1, <2>3
  <1>4. ASSUME NEW w \in W2, InUse(u, w.file)
        PROVE  Told(ex, w) \/ Held(u.seen[w.file], w) \/ Owed(u, w)
    <2>1. InUse(r, w.file) /\ w.file \in DOMAIN r.seen
      BY <1>1, <1>4 DEF InUse
    <2>2. CASE w \in W
      <3>1. Told(ex, w) \/ Held(r.seen[w.file], w) \/ Owed(r, w)
        BY <2>1, <2>2 DEF Current
      <3> QED
        BY <1>2, <1>3, <2>1, <3>1
    <2> QED
      BY <1>2, <2>2
  <1>5. ASSUME NEW w \in W2, Owed(u, w)
        PROVE  \/ w.file \in DOMAIN u.seen /\ Held(u.seen[w.file], w)
               \/ RecordedFrom(Tail(r.todo), 1, w.file, w.key)
    <2>1. CASE Written(w, into, n, k)
      <3>1. w.file \in DOMAIN r.seen
        BY <1>1, <2>1 DEF Written
      <3> QED
        BY <1>1, <1>3, <2>1, <3>1
    <2>2. CASE ~ Written(w, into, n, k)
      <3>1. ~ WritesOrStops(r.todo[1], w.file, w.key)
        BY DEF DeploysAt, WritesOrStops, Unknown
      <3>2. w \in W /\ Owed(r, w)
        BY <1>2, <1>5, <2>2
      <3>3. \/ w.file \in DOMAIN r.seen /\ Held(r.seen[w.file], w)
            \/ RecordedFrom(Tail(r.todo), 1, w.file, w.key)
        BY <1>1, <3>1, <3>2, PayingOn
      <3> QED
        BY <1>1, <1>3, <3>3
    <2> QED
      BY <2>1, <2>2
  <1>6. \A w \in W2 : w \in W \/ Owed(u, w)
    BY <1>2
  <1> QED
    BY <1>4, <1>5, <1>6 DEF Keeps

LEMMA DeployBookStep ==
    ASSUME ListInv, BookInv, NEW s \in Sessions, DeployContract(s) PROVE BookInv'
  <1> DEFINE n == session[s].net
             new == IF Step(s).op = "save" THEN ~ Known(s) ELSE IsNew(s)
             at == IF ~ new THEN Deployment(s).at
                   ELSE Address(Step(s).name, IF Known(s) THEN Deployment(s).at.gen + 1 ELSE 1)
             args == IF Step(s).op = "save" THEN Empty
                     ELSE IF NeedsArgs(s) THEN ArgValues(s) ELSE Deployment(s).args
             into == IF Step(s).op = "save" THEN {"address"} ELSE Step(s).into
             copies == session[s].seen
             written(f) == [copies[f] EXCEPT ![n] = Put(@, Step(s).entry, at)]
             seen == [f \in DOMAIN copies |-> IF f \in into THEN written(f) ELSE copies[f]]
             owes == session[s].owes \cup {<<f, Step(s).entry>> : f \in into}
             upd == [session[s] EXCEPT !.seen = seen, !.owes = owes]
             dep == [at |-> at, code |-> VersionOf(Step(s).name), args |-> args]
  <1>1. /\ s \in Alive /\ Step(s).op \in {"deploy", "save"}
        /\ UNCHANGED <<files, made, overlap, excused>>
        /\ Advance(s, upd)
        /\ saved' = [saved EXCEPT ![n] = Put(@, Step(s).name, dep)]
    <2>1. Advance(s, upd)
      BY Zenon DEF DeployContract
    <2>2. saved' = [saved EXCEPT ![n] = Put(@, Step(s).name, dep)]
      BY Zenon DEF DeployContract
    <2>3. s \in Alive /\ Step(s).op \in {"deploy", "save"}
          /\ UNCHANGED <<files, made, overlap, excused>>
      BY Zenon DEF DeployContract, Doing, Bookkeeping
    <2> QED
      BY <2>1, <2>2, <2>3
  <1>2. PICK r, st :
           /\ s \in Sessions /\ r = session[s] /\ st = Step(s) /\ st = Head(r.todo)
           /\ r.todo # <<>> /\ DOMAIN r = Fields /\ Orderly(r)
           /\ WellNamed(st) /\ st = r.todo[1] /\ Uses(st) \subseteq DOMAIN r.seen
           /\ \A f \in DOMAIN r.seen : f \in Files /\ DOMAIN r.seen[f] = Networks
           /\ AllOrderly(session) /\ r.net \in Networks
    BY <1>1, AtWorkOnBook
  <1>a. PICK d : d = dep /\ d.at = at
    <2>1. dep.at = at
      OBVIOUS
    <2> HIDE DEF dep, at
    <2> QED
      BY <2>1
  <1>3. PICK a, x, k : d = dep /\ a = at /\ d.at = a /\ x = st.name /\ k = st.entry
    BY <1>a
  <1>4. PICK g : g = into
    OBVIOUS
  <1>5. PICK fl, ss : fl = files /\ ss = session
    OBVIOUS
  <1>6. PICK ex : ex = excused /\ ex = excused'
    BY <1>1
  <1>7. PICK W : W = Facts(saved, made)
    OBVIOUS
  <1>8. PICK W2 : W2 = Facts(saved', made')
    OBVIOUS
  <1> HIDE DEF new, at, args, into, dep
  <1>9. PICK sn : sn = seen
    OBVIOUS
  <1>10. PICK u : u = [r EXCEPT !.seen = sn, !.owes = r.owes \cup {<<f, k>> : f \in g}]
    OBVIOUS
  <1>11. upd = u
    BY <1>2, <1>3, <1>4, <1>9, <1>10
  <1>12. /\ DOMAIN sn = DOMAIN r.seen
         /\ \A f \in DOMAIN r.seen :
               sn[f] = IF f \in g THEN [r.seen[f] EXCEPT ![r.net] = Put(r.seen[f][r.net], k, a)]
                       ELSE r.seen[f]
    BY <1>2, <1>3, <1>4, <1>9
  <1> HIDE DEF upd, seen
  <1>13. session' = [session EXCEPT ![s] = After(u)] /\ files' = files /\ overlap' = overlap
    BY <1>1, <1>11 DEF Advance, After
  <1>14. /\ DOMAIN u = Fields /\ u.net = r.net /\ u.todo = r.todo /\ u.alone = r.alone
         /\ u.seen = sn
         /\ OwesAlso(r, u, g, k)
    BY <1>2, <1>10 DEF Fields, OwesAlso
  <1>15. /\ st.op \in {"deploy", "save"} /\ k = EntryOf(x) /\ x # "VoteEscrowedDegis"
         /\ g = FilesOf(x) /\ g \subseteq DOMAIN r.seen /\ g = Owing(st)
    <2>1. st.op \in {"deploy", "save"} /\ k = EntryOf(x) /\ x # "VoteEscrowedDegis"
      BY <1>1, <1>2, <1>3 DEF WellNamed
    <2>2. CASE st.op = "deploy"
      BY <1>2, <1>3, <1>4, <2>2 DEF WellNamed, FilesOf, Uses, Owing, into
    <2>3. CASE st.op = "save"
      BY <1>2, <1>3, <1>4, <2>3 DEF WellNamed, FilesOf, Uses, Owing, into
    <2> QED
      BY <2>1, <2>2, <2>3
  <1>16. PICK n0, seen0 : n0 = r.net /\ seen0 = r.seen
    OBVIOUS
  <1>17. Wrote(seen0, sn, g, n0, k, a)
    <2>1. /\ g \subseteq DOMAIN seen0 /\ DOMAIN sn = DOMAIN seen0
          /\ \A f \in DOMAIN seen0 \ g : sn[f] = seen0[f]
      BY <1>12, <1>15, <1>16
    <2>2. ASSUME NEW f \in g
          PROVE  /\ sn[f][n0] = Put(seen0[f][n0], k, a)
                 /\ \A m \in Networks : m # n0 => sn[f][m] = seen0[f][m]
      <3>1. PICK c : c = seen0[f]
        OBVIOUS
      <3>2. f \in DOMAIN r.seen /\ DOMAIN c = Networks /\ n0 \in Networks
            /\ sn[f] = [c EXCEPT ![n0] = Put(c[n0], k, a)]
        BY <1>2, <1>12, <1>15, <1>16, <3>1
      <3>3. PICK p : p = Put(c[n0], k, a)
        OBVIOUS
      <3> QED
        BY <3>1, <3>2, <3>3
    <2> QED
      BY <2>1, <2>2 DEF Wrote
  <1>18. CopiesFollow(r, u, st) /\ OwesFollow(r, u, st) /\ st.op # "store" /\ ex \subseteq ex
    <2>1. ASSUME NEW f \in DOMAIN u.seen PROVE f \in Files /\ DOMAIN u.seen[f] = Networks
      <3>1. f \in DOMAIN r.seen /\ f \in Files /\ DOMAIN r.seen[f] = Networks
        BY <1>2, <1>12, <1>14
      <3>2. DOMAIN sn[f] = Networks
        BY <1>12, <3>1
      <3> QED
        BY <1>14, <3>1, <3>2
    <2>2. CopiesFollow(r, u, st) /\ st.op # "store"
      BY <1>12, <1>14, <1>15, <2>1 DEF CopiesFollow
    <2>3. OwesFollow(r, u, st)
      BY <1>14, <1>15 DEF OwesFollow, OwesAlso
    <2> QED
      BY <2>2, <2>3
  <1>19. /\ DOMAIN saved = Networks /\ DOMAIN saved' = Networks
         /\ saved'[n0] = Put(saved[n0], x, d)
         /\ \A m \in Networks : m # n0 => saved'[m] = saved[m]
    <2>1. DOMAIN saved = Networks
      BY DEF BookInv
    <2> QED
      BY <1>1, <1>2, <1>3, <1>16, <2>1
  <1>20. NamesAreRight(saved', made')
    <2>1. ASSUME NEW m \in Networks PROVE "VoteEscrowedDegis" \notin DOMAIN saved'[m]
      <3>1. "VoteEscrowedDegis" \notin DOMAIN saved[m]
        BY DEF BookInv
      <3> QED
        BY <1>15, <1>19, <3>1 DEF Put
    <2> QED
      BY <1>1, <1>19, <2>1 DEF BookInv, NamesAreRight
  <1>21. \A w \in W2 : /\ w.net \in Networks
                       /\ w \in W \/ Written(w, g, n0, k)
                       /\ Written(w, g, n0, k) => w.value = a
    <2>1. PICK sv, md : sv = saved /\ md = made /\ md = made'
      BY <1>1
    <2>2. PICK sv2 : sv2 = saved'
      OBVIOUS
    <2>3. /\ x # "VoteEscrowedDegis" /\ g = FilesOf(x)
          /\ \A m \in Networks : "VoteEscrowedDegis" \notin DOMAIN sv[m]
          /\ sv2[n0] = Put(sv[n0], x, d)
          /\ \A m \in Networks : m # n0 => sv2[m] = sv[m]
      BY <1>15, <1>19, <2>1, <2>2 DEF BookInv
    <2>4. ASSUME NEW w \in Facts(sv2, md)
          PROVE  /\ w.net \in Networks
                 /\ w \in Facts(sv, md) \/ Written(w, g, n0, EntryOf(x))
                 /\ Written(w, g, n0, EntryOf(x)) => w.value = d.at
      <3>1. w.net \in Networks
        BY FactsAreFacts
      <3>2. /\ w \in Facts(sv, md) \/ Written(w, g, n0, EntryOf(x))
            /\ Written(w, g, n0, EntryOf(x)) => w.value = d.at
        BY <2>3, FactsAfterDeploying
      <3> QED
        BY <3>1, <3>2
    <2> QED
      BY <1>3, <1>7, <1>8, <1>15, <2>1, <2>2, <2>4
  <1>22. ASSUME Kept(fl, W, ex, ss) PROVE Keeps(r, u, W, W2, ex)
    <2>1. Current(r, W, ex) /\ Paying(r, W)
      BY <1>2, <1>5, <1>22 DEF Kept
    <2>2. Wrote(seen0, u.seen, g, n0, k, a)
      BY <1>14, <1>17
    <2>3. Orderly(r) /\ r.todo # <<>> /\ DeploysAt(r.todo, 1)
      BY <1>2, <1>15 DEF DeploysAt
    <2> QED
      BY <1>14, <1>16, <1>21, <2>1, <2>2, <2>3, DeployKeeps
  <1> QED
    BY <1>2, <1>5, <1>6, <1>7, <1>8, <1>13, <1>14, <1>18, <1>20, <1>22, BookStep

(***************************************************************************)
(* A session starts: what it has read of the files by then is up to date,  *)
(* and no other that is under way runs alone any longer.                   *)
(***************************************************************************)
Attended(r, r2) ==
    /\ DOMAIN r2 = Fields /\ r2.net = r.net /\ r2.todo = r.todo /\ r2.seen = r.seen
    /\ r2.owes = r.owes /\ (r2.alone <=> r.todo = <<>>)

LEMMA AttendedIs ==
    ASSUME NEW r, NEW r2, DOMAIN r = Fields, Orderly(r), r2 = [r EXCEPT !.alone = (r.todo = <<>>)]
    PROVE  Attended(r, r2) /\ Orderly(r2)
  <1>1. Attended(r, r2)
    BY DEF Attended, Fields
  <1>2. ASSUME r.todo = <<>> PROVE r2 = Idle
    <2>1. [Idle EXCEPT !.alone = TRUE] = Idle
      <3>1. Idle = [x \in DOMAIN Idle |-> Idle[x]] /\ Idle["alone"] = TRUE
        BY DEF Idle
      <3> QED
        BY <3>1
    <2>2. r = Idle
      BY <1>2 DEF Orderly
    <2>3. (r.todo = <<>>) = TRUE
      BY <1>2
    <2>4. r2 = [r EXCEPT !.alone = TRUE]
      BY <2>3
    <2> QED
      BY <2>1, <2>2, <2>4
  <1> QED
    BY <1>1, <1>2 DEF Attended, Orderly

LEMMA LaunchKeeps ==
    ASSUME NEW ss, NEW ss2, NEW fl, NEW W, NEW ex, NEW s, NEW steps,
           s \in Sessions, AllOrderly(ss), ss[s].todo = <<>>, Kept(fl, W, ex, ss),
           \A t \in Sessions : StoredBy(ss[t].todo) \cap StoredBy(steps) = {},
           ss2[s].todo = steps, ss2[s].owes = {},
           \A f \in DOMAIN ss2[s].seen : f \in StoredBy(steps) /\ ss2[s].seen[f] = fl[f],
           \A t \in Sessions : t # s => Attended(ss[t], ss2[t])
    PROVE  Kept(fl, W, ex, ss2)
  <1>1. Apart(ss) /\ FilesTell(fl, W, ex, ss)
        /\ \A t \in Sessions : Current(ss[t], W, ex) /\ Paying(ss[t], W) /\ Orderly(ss[t])
    BY DEF Kept, AllOrderly
  <1>2. \A t \in Sessions : t # s =>
           /\ ss2[t].todo = ss[t].todo /\ ss2[t].seen = ss[t].seen
           /\ ss2[t].owes = ss[t].owes /\ ss2[t].net = ss[t].net
           /\ ss2[t].alone <=> ss[t].todo = <<>>
    BY DEF Attended
  <1>3. Apart(ss2)
    BY <1>1, <1>2 DEF Apart
  <1>4. \A w : ~ Owed(ss[s], w) /\ ~ Owed(ss2[s], w)
    BY <1>1, OwedIsStored DEF Owed
  <1>5. \A w : \A t \in Sessions : Owed(ss2[t], w) <=> Owed(ss[t], w)
    BY <1>2, <1>4 DEF Owed
  <1>6. FilesTell(fl, W, ex, ss2)
    BY <1>1, <1>5 DEF FilesTell
  <1>7. ASSUME NEW t \in Sessions PROVE Current(ss2[t], W, ex) /\ Paying(ss2[t], W)
    <2>1. CASE t = s
      <3>1. ASSUME NEW w \in W, w.file \in DOMAIN ss2[s].seen
            PROVE  Told(ex, w) \/ Held(ss2[s].seen[w.file], w)
        <4>1. \A z \in Sessions : ~ Owed(ss[z], w)
          BY <1>1, <3>1, OwedIsStored
        <4>2. Told(ex, w) \/ Held(fl[w.file], w)
          BY <1>1, <4>1 DEF FilesTell
        <4> QED
          BY <3>1, <4>2
      <3> QED
        BY <1>4, <2>1, <3>1 DEF Current, Paying, InUse
    <2>2. CASE t # s
      <3>1. PICK r, r2 : r = ss[t] /\ r2 = ss2[t]
        OBVIOUS
      <3>2. /\ r2.todo = r.todo /\ r2.seen = r.seen /\ r2.owes = r.owes /\ r2.net = r.net
            /\ r2.alone <=> r.todo = <<>>
        BY <1>2, <2>2, <3>1
      <3>3. Current(r, W, ex) /\ Paying(r, W) /\ Orderly(r)
        BY <1>1, <3>1
      <3>4. \A w : Owed(r2, w) <=> Owed(r, w)
        BY <3>2 DEF Owed
      <3>5. \A f : InUse(r2, f) => InUse(r, f)
        <4>1. CASE r.todo = <<>>
          <5>1. DOMAIN r.seen = {}
            BY <3>3, <4>1, NothingLeft DEF Orderly
          <5> QED
            BY <3>2, <5>1 DEF InUse
        <4>2. CASE r.todo # <<>>
          BY <3>2, <4>2 DEF InUse
        <4> QED
          BY <4>1, <4>2
      <3>6. Current(r2, W, ex)
        BY <3>2, <3>3, <3>4, <3>5 DEF Current
      <3>7. Paying(r2, W)
        BY <3>2, <3>3, <3>4 DEF Paying
      <3> QED
        BY <3>1, <3>6, <3>7
    <2> QED
      BY <2>1, <2>2
  <1> QED
    BY <1>3, <1>6, <1>7 DEF Kept

LEMMA LaunchBookStep ==
    ASSUME "NaughtyPool" \notin Tasks, BookInv, NEW s \in Sessions, Launch(s) PROVE BookInv'
  <1>1. PICK n \in Networks : \E j \in Jobs(n) :
           /\ j.steps # <<>>
           /\ session' = [t \in Sessions |->
                 IF t = s
                   THEN [Idle EXCEPT !.net = n, !.job = j.tag, !.todo = j.steps,
                                     !.seen = Preloaded(j.steps), !.alone = (Alive = {})]
                   ELSE [session[t] EXCEPT !.alone = (t \notin Alive)]]
           /\ overlap' = \/ overlap
                         \/ \E t \in Alive :
                               (StoredBy(session[t].todo) \cap StoredBy(j.steps)) # {}
    BY DEF Launch
  <1>2. PICK j \in Jobs(n) :
           /\ j.steps # <<>>
           /\ session' = [t \in Sessions |->
                 IF t = s
                   THEN [Idle EXCEPT !.net = n, !.job = j.tag, !.todo = j.steps,
                                     !.seen = Preloaded(j.steps), !.alone = (Alive = {})]
                   ELSE [session[t] EXCEPT !.alone = (t \notin Alive)]]
           /\ overlap' = \/ overlap
                         \/ \E t \in Alive :
                               (StoredBy(session[t].todo) \cap StoredBy(j.steps)) # {}
    BY <1>1
  <1>3. UNCHANGED <<files, made, saved, excused>> /\ s \notin Alive
    BY DEF Launch, onChain
  <1>4. PICK steps : steps = j.steps
    OBVIOUS
  <1>5. PICK ss, ss2 : ss = session /\ ss2 = session'
    OBVIOUS
  <1>6. PICK fl, ex : fl = files /\ ex = excused
    OBVIOUS
  <1>7. PICK W : W = Facts(saved, made) /\ W = Facts(saved', made')
    BY <1>3
  <1>8. AllOrderly(ss) /\ ss[s].todo = <<>>
    BY <1>3, <1>5 DEF BookInv, Alive
  <1>9. /\ DOMAIN ss2[s] = Fields /\ ss2[s].todo = steps /\ ss2[s].owes = {}
        /\ ss2[s].seen = Preloaded(steps)
        /\ ss2[s].alone => \A t \in Sessions : ss[t].todo = <<>>
    BY <1>2, <1>4, <1>5 DEF Idle, Fields, Alive
  <1>10. Tidy(steps) /\ HasCopies(steps, DOMAIN Preloaded(steps)) /\ steps # <<>>
    BY <1>2, <1>4, JobsAreTidy
  <1>11. \A f \in DOMAIN Preloaded(steps) :
            f \in Files /\ f \in StoredBy(steps) /\ Preloaded(steps)[f] = fl[f]
    BY <1>6 DEF Preloaded, Empty, Files
  <1>12. Orderly(ss2[s])
    <2>1. \A f \in DOMAIN ss2[s].seen : f \in Files /\ DOMAIN ss2[s].seen[f] = Networks
      BY <1>6, <1>9, <1>11 DEF BookInv
    <2> QED
      BY <1>9, <1>10, <2>1 DEF Orderly
  <1>13. ASSUME NEW t \in Sessions, t # s PROVE Attended(ss[t], ss2[t]) /\ Orderly(ss2[t])
    <2>1. PICK r, r2 : r = ss[t] /\ r2 = ss2[t]
      OBVIOUS
    <2>2. DOMAIN r = Fields /\ Orderly(r)
      BY <1>8, <2>1 DEF AllOrderly
    <2>3. r2 = [r EXCEPT !.alone = (r.todo = <<>>)]
      <3>1. r2 = [r EXCEPT !.alone = (t \notin Alive)]
        BY <1>2, <1>5, <1>13, <2>1
      <3>2. (t \notin Alive) = (r.todo = <<>>)
        BY <1>5, <2>1 DEF Alive
      <3> QED
        BY <3>1, <3>2
    <2> QED
      BY <2>1, <2>2, <2>3, AttendedIs
  <1>14. AllOrderly(ss2)
    <2>1. DOMAIN ss2 = Sessions
      BY <1>2, <1>5
    <2>2. \A t \in Sessions : DOMAIN ss2[t] = Fields /\ Orderly(ss2[t])
      BY <1>9, <1>12, <1>13 DEF Attended
    <2>3. ASSUME NEW a \in Sessions, NEW b \in Sessions,
                 ss2[a].alone, ss2[a].todo # <<>>, a # b
          PROVE  ss2[b].todo = <<>>
      <3>1. a = s
        BY <1>13, <2>3 DEF Attended
      <3> QED
        BY <1>9, <1>13, <2>3, <3>1 DEF Attended
    <2> QED
      BY <2>1, <2>2, <2>3 DEF AllOrderly
  <1>15. ASSUME ~ overlap' PROVE Kept(fl, W, ex, ss2)
    <2>1. \A t \in Sessions : StoredBy(ss[t].todo) \cap StoredBy(steps) = {}
      <3>1. ASSUME NEW t \in Sessions PROVE StoredBy(ss[t].todo) \cap StoredBy(steps) = {}
        <4>1. CASE ss[t].todo = <<>>
          BY <4>1, NothingLeft
        <4>2. CASE ss[t].todo # <<>>
          BY <1>2, <1>4, <1>5, <1>15, <4>2 DEF Alive
        <4> QED
          BY <4>1, <4>2
      <3> QED
        BY <3>1
    <2>2. Kept(fl, W, ex, ss)
      BY <1>2, <1>5, <1>6, <1>7, <1>15 DEF BookInv
    <2>3. \A f \in DOMAIN ss2[s].seen : f \in StoredBy(steps) /\ ss2[s].seen[f] = fl[f]
      BY <1>9, <1>11
    <2>4. \A t \in Sessions : t # s => Attended(ss[t], ss2[t])
      BY <1>13
    <2> QED
      BY <1>8, <1>9, <2>1, <2>2, <2>3, <2>4, LaunchKeeps
  <1>16. overlap' \/ Kept(files', Facts(saved', made'), excused', session')
    BY <1>3, <1>5, <1>6, <1>7, <1>15
  <1>17. AllOrderly(session')
    BY <1>5, <1>14
  <1> QED
    BY <1>3, <1>16, <1>17 DEF BookInv

(***************************************************************************)
(* The invariant of book and lists holds at the start, and for good.       *)
(***************************************************************************)
LEMMA FilesTellAtFirst ==
    ASSUME Init, NEW n, NEW f, NEW k, NEW v, Fact(n, f, k, v) \in Facts(saved, made)
    PROVE  Records(files[f][n], k, v)
  <1>1. /\ n \in Networks
        /\ \/ f = "address" /\ \E x \in DOMAIN InitSaved[n] :
                                   k = EntryOf(x) /\ v = InitSaved[n][x].at
           \/ f = "proxyAdmin" /\ k = "ProxyAdmin" /\ k \in DOMAIN InitSaved[n]
              /\ v = InitSaved[n][k].at
           \/ \E kind \in Kinds :
                 f = ListOf[kind] /\ k \in DOMAIN InitMade[n][kind] /\ v = InitMade[n][kind][k]
    <2>1. saved = InitSaved /\ made = InitMade
      BY DEF Init
    <2> QED
      BY <2>1, FactsAre
  <1>2. \A x \in DOMAIN InitSaved[n] :
           x # "VoteEscrowedDegis" /\ InitSaved[n][x].at = Address(x, 1)
    BY <1>1, SavedAssumption
  <1>3. CASE f = "address"
    <2> DEFINE book == {EntryOf(x) : x \in DOMAIN InitSaved[n]}
               firsts == {Address(x, 1) : x \in DOMAIN InitSaved[n]}
               chosen == CHOOSE a \in firsts : EntryOf(a.of) = k
    <2>1. PICK x \in DOMAIN InitSaved[n] : k = EntryOf(x) /\ v = Address(x, 1)
      BY <1>1, <1>2, <1>3, ListsAreApart
    <2>2. files[f][n] = [e \in book |-> CHOOSE a \in firsts : EntryOf(a.of) = e]
      BY <1>1, <1>3 DEF Init, Files
    <2>3. \A a \in firsts : EntryOf(a.of) = k <=> a = v
      <3>1. ASSUME NEW y \in DOMAIN InitSaved[n], EntryOf(y) = k PROVE y = x
        BY <1>2, <2>1, <3>1 DEF EntryOf
      <3>2. \A y : Address(y, 1).of = y
        BY DEF Address
      <3> QED
        BY <2>1, <3>1, <3>2
    <2>4. v \in firsts
      BY <2>1
    <2>5. chosen = v
      <3> HIDE DEF firsts
      <3> QED
        BY <2>3, <2>4
    <2>6. files[f][n][k] = chosen /\ k \in DOMAIN files[f][n]
      <3> HIDE DEF firsts
      <3> QED
        BY <2>1, <2>2
    <2> QED
      BY <2>5, <2>6 DEF Records, Has
  <1>4. CASE f = "proxyAdmin"
    <2>1. k = "ProxyAdmin" /\ v = Address(k, 1)
      BY <1>1, <1>2, <1>4, ListsAreApart
    <2>2. files[f][n] = [x \in {"ProxyAdmin"} |-> Address(x, 1)]
      BY <1>1, <1>4 DEF Init, Files
    <2> QED
      BY <2>1, <2>2 DEF Records, Has
  <1>5. ASSUME NEW kind \in Kinds, f = ListOf[kind], k \in DOMAIN InitMade[n][kind],
               v = InitMade[n][kind][k]
        PROVE  Records(files[f][n], k, v)
    <2> DEFINE c == CHOOSE x \in Kinds : ListOf[x] = f
    <2>1. f \in Files /\ f \notin {"address", "proxyAdmin"}
      BY <1>5, ListsAreApart
    <2>2. c \in Kinds /\ ListOf[c] = f
      BY <1>5
    <2>3. c = kind
      BY <1>5, <2>2, ListsAreApart
    <2>4. files[f][n] = InitMade[n][c]
      BY <1>1, <2>1 DEF Init
    <2> HIDE DEF c
    <2> QED
      BY <1>5, <2>3, <2>4 DEF Records, Has
  <1> QED
    BY <1>1, <1>3, <1>4, <1>5

LEMMA BookInvInit ==
    ASSUME Init PROVE BookInv
  <1>1. saved = InitSaved /\ made = InitMade /\ \A f \in Files : DOMAIN files[f] = Networks
    BY DEF Init
  <1>2. NamesAreRight(saved, made)
    BY <1>1, SavedAssumption, NamesAssumption DEF NamesAreRight
  <1>3. PICK ss : ss = session
    OBVIOUS
  <1>4. DOMAIN ss = Sessions /\ \A s \in Sessions : ss[s] = Idle
    BY <1>3 DEF Init
  <1>5. AllOrderly(ss)
    BY <1>4, NothingLeft, IdleIsOrderly DEF AllOrderly
  <1>6. PICK fl, W, ex : fl = files /\ W = Facts(saved, made) /\ ex = excused
    OBVIOUS
  <1>7. FilesTell(fl, W, ex, ss)
    <2>1. ASSUME NEW w \in W PROVE Held(fl[w.file], w)
      <3>1. w = Fact(w.net, w.file, w.key, w.value)
        BY <1>6, <2>1, FactsAreFacts
      <3>2. Records(files[w.file][w.net], w.key, w.value)
        BY <1>6, <3>1, FilesTellAtFirst
      <3> QED
        BY <1>6, <3>2 DEF Held
    <2> QED
      BY <2>1 DEF FilesTell
  <1>8. Apart(ss) /\ \A s \in Sessions : Current(ss[s], W, ex) /\ Paying(ss[s], W)
    BY <1>4, NothingLeft DEF Apart, Current, Paying, InUse, Owed
  <1>9. Kept(fl, W, ex, ss)
    BY <1>7, <1>8 DEF Kept
  <1> QED
    BY <1>1, <1>2, <1>3, <1>5, <1>6, <1>9 DEF BookInv, NamesAreRight

LEMMA BookInvNext ==
    ASSUME "NaughtyPool" \notin Tasks, ListInv, BookInv, [Next]_vars PROVE BookInv'
  <1>1. CASE UNCHANGED vars
    BY <1>1 DEF vars, onChain, BookInv
  <1>2. ASSUME NEW s \in Sessions,
               \/ Launch(s) \/ ReadFile(s) \/ StoreFile(s) \/ NeedDeployments(s)
               \/ DeployContract(s) \/ SetPointer(s) \/ CallContract(s)
               \/ CheckRole(s) \/ GrantRole(s)
        PROVE  BookInv'
    BY <1>2, LaunchBookStep, ReadBookStep, StoreBookStep, NeedBookStep, DeployBookStep,
       QuietBookSteps, CheckRoleBookStep
  <1>3. ASSUME NEW s \in Sessions,
               \/ CreateThing(s) \/ AlterThing(s) \/ RecordThing(s) \/ ClearCopy(s)
               \/ Throw(s) \/ Crash(s)
        PROVE  BookInv'
    BY <1>3, CreateBookStep, AlterBookStep, RecordBookStep, ClearBookStep, FailBookStep
  <1>4. ASSUME NEW c \in Editable, EditSource(c) PROVE BookInv'
    BY <1>4, EditBookStep
  <1> QED
    BY <1>1, <1>2, <1>3, <1>4 DEF Next

LEMMA BookInvAlways ==
    ASSUME "NaughtyPool" \notin Tasks PROVE Spec => [](ListInv /\ BookInv)
  <1>1. Init => ListInv /\ BookInv
    BY ListInvInit, BookInvInit
  <1>2. ListInv /\ BookInv /\ [Next]_vars => (ListInv /\ BookInv)'
    BY ListInvNext, BookInvNext
  <1> QED
    BY <1>1, <1>2, PTL DEF Spec

\* When nothing runs, nothing is owed: the files tell it all.
LEMMA QuietFilesTell ==
    ASSUME BookInv, Quiet, NEW w \in Facts(saved, made)
    PROVE  Told(excused, w) \/ Held(files[w.file], w)
  <1>1. ASSUME NEW s \in Sessions PROVE ~ Owed(session[s], w)
    <2>1. Orderly(session[s]) /\ session[s].todo = <<>>
      BY DEF BookInv, AllOrderly, Quiet, Alive
    <2> QED
      BY <2>1, OwedIsStored
  <1> QED
    BY <1>1 DEF BookInv, Kept, FilesTell, Quiet

(***************************************************************************)
(* Whatever scripts and tasks are run, by however many sessions, wherever  *)
(* they die: once nothing runs, the address book (and the list of proxy    *)
(* administrators) holds the current address of every saved deployment,    *)
(* but for what dead sessions left and clears removed, as long as no two   *)
(* sessions that store one file were alive together.                       *)
(***************************************************************************)
THEOREM BookSaysWhatIsDeployed ==
    ASSUME "NaughtyPool" \notin Tasks
    PROVE  Spec => []BookAgreesWhenQuiet
  <1>1. ASSUME BookInv, Quiet, NEW n \in Networks, NEW x \in DOMAIN saved[n]
        PROVE  /\ <<n, "address", EntryOf(x)>> \notin excused =>
                     Records(files["address"][n], EntryOf(x), saved[n][x].at)
               /\ x = "ProxyAdmin" /\ <<n, "proxyAdmin", x>> \notin excused =>
                     Records(files["proxyAdmin"][n], x, saved[n][x].at)
    <2>1. PICK w : w = Fact(n, "address", EntryOf(x), saved[n][x].at)
      OBVIOUS
    <2>2. PICK w2 : w2 = Fact(n, "proxyAdmin", x, saved[n][x].at)
      OBVIOUS
    <2>3. Told(excused, w) \/ Held(files[w.file], w)
      <3>1. w \in Facts(saved, made)
        BY <1>1, <2>1, FactsAre
      <3> QED
        BY <1>1, <3>1, QuietFilesTell
    <2>4. x = "ProxyAdmin" => Told(excused, w2) \/ Held(files[w2.file], w2)
      <3>1. x = "ProxyAdmin" => w2 \in Facts(saved, made)
        BY <1>1, <2>2, FactsAre
      <3> QED
        BY <1>1, <3>1, QuietFilesTell
    <2> QED
      BY <2>1, <2>2, <2>3, <2>4 DEF Told, Held, Fact
  <1>2. BookInv => BookAgreesWhenQuiet
    BY <1>1 DEF BookAgreesWhenQuiet
  <1>3. Spec => [](ListInv /\ BookInv)
    BY BookInvAlways
  <1> QED
    BY <1>2, <1>3, PTL

(***************************************************************************)
(* The same of the lists: once nothing runs, they hold what the contracts  *)
(* were made to create, as last changed.                                   *)
(***************************************************************************)
THEOREM ListsSayWhatWasCreated ==
    ASSUME "NaughtyPool" \notin Tasks
    PROVE  Spec => []ListsAgreeWhenQuiet
  <1>1. ASSUME BookInv, Quiet, NEW n \in Networks, NEW kind \in Kinds,
               NEW k \in DOMAIN made[n][kind], made[n][kind][k] # "byILM"
        PROVE  \/ <<n, ListOf[kind], k>> \in excused
               \/ Records(files[ListOf[kind]][n], k, made[n][kind][k])
    <2>1. PICK w : w = Fact(n, ListOf[kind], k, made[n][kind][k])
      OBVIOUS
    <2>2. w \in Facts(saved, made)
      BY <1>1, <2>1, FactsAre
    <2>3. Told(excused, w) \/ Held(files[w.file], w)
      BY <1>1, <2>2, QuietFilesTell
    <2> QED
      BY <2>1, <2>3 DEF Told, Held, Fact
  <1>2. BookInv => ListsAgreeWhenQuiet
    BY <1>1 DEF ListsAgreeWhenQuiet
  <1>3. Spec => [](ListInv /\ BookInv)
    BY BookInvAlways
  <1> QED
    BY <1>2, <1>3, PTL

\* The copy of the book was current when it was read, and has followed what
\* the session deployed since.
LEMMA SendsCurrent ==
    ASSUME ListInv, BookInv, NEW s \in Alive, session[s].alone, ~ overlap,
           NEW e \in Names(Step(s)), NEW x \in DOMAIN saved[session[s].net],
           EntryOf(x) = e, <<session[s].net, "address", e>> \notin excused
    PROVE  Entries(s)[e] = saved[session[s].net][x].at
  <1>1. PICK r, st :
           /\ s \in Sessions /\ r = session[s] /\ st = Step(s) /\ r.todo # <<>>
           /\ Orderly(r) /\ Uses(st) \subseteq DOMAIN r.seen /\ r.net \in Networks
    BY AtWorkOnBook
  <1>2. PICK w : w = Fact(r.net, "address", e, saved[r.net][x].at)
    OBVIOUS
  <1>3. PICK W : W = Facts(saved, made)
    OBVIOUS
  <1>4. w \in W
    BY <1>1, <1>2, <1>3, FactsAre
  <1>5. "address" \in DOMAIN r.seen
    <2>1. "address" \in Uses(st)
      BY <1>1 DEF Names, Uses
    <2> QED
      BY <1>1, <2>1
  <1>6. Current(r, W, excused) /\ Paying(r, W)
    BY <1>1, <1>3 DEF BookInv, Kept
  <1>7. w.file = "address" /\ w.net = r.net /\ w.key = e /\ w.value = saved[r.net][x].at
    BY <1>2 DEF Fact
  <1>8. Held(r.seen["address"], w) \/ Owed(r, w)
    BY <1>1, <1>4, <1>5, <1>6, <1>7 DEF Current, InUse, Told
  <1>9. ~ RecordedFrom(r.todo, 1, "address", e)
    <2>1. ASSUME NEW l \in 1 .. Len(r.todo), r.todo[l].op = "record"
          PROVE  r.todo[l].file # "address"
      BY <1>1, <2>1, ListsAreApart DEF Orderly, Tidy, TidyAt, WellNamed
    <2> QED
      BY <2>1 DEF RecordedFrom
  <1>10. Held(r.seen["address"], w)
    BY <1>4, <1>6, <1>7, <1>8, <1>9 DEF Paying
  <1> QED
    BY <1>1, <1>7, <1>10 DEF Held, Records, Entries

(***************************************************************************)
(* A transaction of a session that runs alone reaches what is deployed     *)
(* when it is sent, and hands over current addresses: its copy of the book *)
(* was current when it was read, and has followed what it deployed since.  *)
(***************************************************************************)
THEOREM SendsReachWhatIsDeployed ==
    ASSUME "NaughtyPool" \notin Tasks
    PROVE  Spec => []SendsReachCurrent
  <1>1. ListInv /\ BookInv => SendsReachCurrent
    BY SendsCurrent DEF SendsReachCurrent
  <1>2. Spec => [](ListInv /\ BookInv)
    BY BookInvAlways
  <1> QED
    BY <1>1, <1>2, PTL

(***************************************************************************)
(* The ring of flight delay                                                *)
(*                                                                         *)
(* What the book, or a copy of it, lists has been deployed.                *)
(***************************************************************************)
NamesSaved(copy, sv) ==
    \A n \in Networks : \A e \in DOMAIN copy[n] : \E x \in DOMAIN sv[n] : e = EntryOf(x)

SeenSaved(seen, sv) == "address" \in DOMAIN seen => NamesSaved(seen["address"], sv)

BackInv ==
    /\ DOMAIN wire = Networks
    /\ NamesSaved(files["address"], saved)
    /\ \A s \in Sessions : SeenSaved(session[s].seen, saved)

LEMMA BackStep ==
    ASSUME BookInv, BackInv, NEW s \in Sessions, NEW v, session' = [session EXCEPT ![s] = v],
           SeenSaved(v.seen, saved'), NamesSaved(files'["address"], saved'),
           \A n \in Networks : DOMAIN saved[n] \subseteq DOMAIN saved'[n],
           DOMAIN wire' = Networks
    PROVE  BackInv'
  <1>1. DOMAIN session = Sessions
    BY DEF BookInv, AllOrderly
  <1>2. ASSUME NEW copy, NamesSaved(copy, saved) PROVE NamesSaved(copy, saved')
    BY <1>2 DEF NamesSaved
  <1>3. ASSUME NEW t \in Sessions PROVE SeenSaved(session'[t].seen, saved')
    <2>1. CASE t = s
      BY <1>1, <2>1
    <2>2. CASE t # s
      <3>1. session'[t] = session[t] /\ SeenSaved(session[t].seen, saved)
        BY <1>1, <2>2 DEF BackInv
      <3> QED
        BY <1>2, <3>1 DEF SeenSaved
    <2> QED
      BY <2>1, <2>2
  <1> QED
    BY <1>3 DEF BackInv

LEMMA BackAdvance ==
    ASSUME BookInv, BackInv, NEW s \in Sessions, NEW upd, DOMAIN upd = Fields, Advance(s, upd),
           SeenSaved(upd.seen, saved'), NamesSaved(files'["address"], saved'),
           \A n \in Networks : DOMAIN saved[n] \subseteq DOMAIN saved'[n],
           DOMAIN wire' = Networks
    PROVE  BackInv'
  <1>1. PICK v : v = IF Len(upd.todo) = 1 THEN Idle ELSE [upd EXCEPT !.todo = Tail(@)]
    OBVIOUS
  <1>2. session' = [session EXCEPT ![s] = v]
    BY <1>1 DEF Advance
  <1>3. v.seen = upd.seen \/ DOMAIN v.seen = {}
    BY <1>1, NothingLeft DEF Fields
  <1>4. SeenSaved(v.seen, saved')
    BY <1>3 DEF SeenSaved
  <1> QED
    BY <1>2, <1>4, BackStep

\* Steps that leave copies, files and deployments alone.
LEMMA BackQuietSteps ==
    ASSUME ListInv, BookInv, BackInv, NEW s \in Sessions,
           \/ NeedDeployments(s) \/ SetPointer(s) \/ CallContract(s)
           \/ GrantRole(s) \/ CreateThing(s) \/ AlterThing(s)
    PROVE  BackInv'
  <1>1. s \in Alive /\ files' = files /\ saved' = saved /\ DOMAIN wire' = Networks
    BY DEF NeedDeployments, SetPointer, CallContract, GrantRole, CreateThing, AlterThing,
           Doing, onChain, BackInv
  <1>2. DOMAIN session[s] = Fields
    BY <1>1, AtWork
  <1>3. PICK upd : Advance(s, upd) /\ DOMAIN upd = Fields /\ upd.seen = session[s].seen
    <2>1. ASSUME NEW x, NEW upd, upd = [session[s] EXCEPT !.got = x]
          PROVE  DOMAIN upd = Fields /\ upd.seen = session[s].seen
      BY <1>2, <2>1 DEF Fields
    <2>2. ASSUME NEW x, NEW upd, upd = [session[s] EXCEPT !.owes = @ \cup x]
          PROVE  DOMAIN upd = Fields /\ upd.seen = session[s].seen
      BY <1>2, <2>2 DEF Fields
    <2>3. \/ Advance(s, session[s])
          \/ \E x : Advance(s, [session[s] EXCEPT !.got = x])
          \/ \E x : Advance(s, [session[s] EXCEPT !.owes = @ \cup x])
      BY DEF NeedDeployments, SetPointer, CallContract, GrantRole, CreateThing, AlterThing
    <2> QED
      BY <1>2, <2>1, <2>2, <2>3
  <1>4. SeenSaved(upd.seen, saved') /\ NamesSaved(files'["address"], saved')
    BY <1>1, <1>3 DEF BackInv
  <1> QED
    BY <1>1, <1>3, <1>4, BackAdvance

LEMMA BackEndSteps ==
    ASSUME BookInv, BackInv, NEW s \in Sessions, CheckRole(s) \/ Throw(s) \/ Crash(s)
    PROVE  BackInv'
  <1>1. files' = files /\ saved' = saved /\ wire' = wire
        /\ NamesSaved(files'["address"], saved') /\ DOMAIN wire' = Networks
    BY DEF CheckRole, Throw, Crash, End, onChain, BackInv
  <1>2. session' = [session EXCEPT ![s] = Idle] \/ Advance(s, session[s])
    BY DEF CheckRole, Throw, Crash, End
  <1>3. DOMAIN session[s] = Fields /\ SeenSaved(session[s].seen, saved')
    BY <1>1 DEF BookInv, AllOrderly, BackInv
  <1>4. SeenSaved(Idle.seen, saved')
    BY NothingLeft DEF SeenSaved
  <1> QED
    BY <1>1, <1>2, <1>3, <1>4, BackStep, BackAdvance

LEMMA BackReadStep ==
    ASSUME ListInv, BookInv, BackInv, NEW s \in Sessions, ReadFile(s) PROVE BackInv'
  <1>1. /\ s \in Alive /\ files' = files /\ saved' = saved /\ wire' = wire
        /\ Advance(s, [session[s] EXCEPT !.seen = Put(@, Step(s).file, files[Step(s).file])])
    BY DEF ReadFile, Doing, onChain
  <1>2. DOMAIN session[s] = Fields
    BY <1>1, AtWork
  <1>3. PICK f, seen : f = Step(s).file /\ seen = session[s].seen
    OBVIOUS
  <1>4. PICK upd : upd = [session[s] EXCEPT !.seen = Put(seen, f, files[f])]
    OBVIOUS
  <1>5. DOMAIN upd = Fields /\ upd.seen = Put(seen, f, files[f]) /\ Advance(s, upd)
    BY <1>1, <1>2, <1>3, <1>4 DEF Fields
  <1>6. SeenSaved(seen, saved) /\ NamesSaved(files["address"], saved) /\ DOMAIN wire = Networks
    BY <1>3 DEF BackInv
  <1>7. SeenSaved(upd.seen, saved')
    BY <1>1, <1>5, <1>6 DEF SeenSaved, Put
  <1>8. NamesSaved(files'["address"], saved')
    BY <1>1, <1>6
  <1> QED
    BY <1>1, <1>5, <1>6, <1>7, <1>8, BackAdvance

LEMMA BackStoreStep ==
    ASSUME ListInv, BookInv, BackInv, NEW s \in Sessions, StoreFile(s) PROVE BackInv'
  <1> DEFINE paid == {o \in session[s].owes : o[1] = Step(s).file}
             upd == [session[s] EXCEPT !.owes = @ \ paid]
  <1>1. /\ s \in Alive /\ saved' = saved /\ wire' = wire /\ Step(s).op = "store"
        /\ files' = [files EXCEPT ![Step(s).file] = session[s].seen[Step(s).file]]
        /\ Advance(s, upd)
    BY DEF StoreFile, Doing, onChain
  <1>2. DOMAIN session[s] = Fields
    BY <1>1, AtWork
  <1>3. DOMAIN upd = Fields /\ upd.seen = session[s].seen
    BY <1>2 DEF Fields
  <1> HIDE DEF upd, paid
  <1>4. PICK f, seen : f = Step(s).file /\ seen = session[s].seen
    OBVIOUS
  <1>5. f \in DOMAIN seen
    <2>1. PICK r, st : r = session[s] /\ st = Step(s) /\ Uses(st) \subseteq DOMAIN r.seen
      BY <1>1, AtWorkOnBook
    <2> QED
      BY <1>1, <1>4, <2>1 DEF Uses
  <1>6. SeenSaved(seen, saved) /\ NamesSaved(files["address"], saved) /\ DOMAIN wire = Networks
    BY <1>4 DEF BackInv
  <1>7. SeenSaved(upd.seen, saved')
    BY <1>1, <1>3, <1>4, <1>6
  <1>8. NamesSaved(files'["address"], saved')
    <2>1. CASE f = "address"
      <3>1. files'["address"] = seen["address"]
        BY <1>1, <1>4, <2>1 DEF ListInv, Files
      <3> QED
        BY <1>1, <1>5, <1>6, <2>1, <3>1 DEF SeenSaved
    <2>2. CASE f # "address"
      <3>1. files'["address"] = files["address"]
        BY <1>1, <1>4, <2>2 DEF ListInv, Files
      <3> QED
        BY <1>1, <1>6, <3>1
    <2> QED
      BY <2>1, <2>2
  <1> QED
    BY <1>1, <1>3, <1>6, <1>7, <1>8, BackAdvance

LEMMA BackDeployStep ==
    ASSUME ListInv, BookInv, BackInv, NEW s \in Sessions, DeployContract(s) PROVE BackInv'
  <1> DEFINE n == session[s].net
             new == IF Step(s).op = "save" THEN ~ Known(s) ELSE IsNew(s)
             at == IF ~ new THEN Deployment(s).at
                   ELSE Address(Step(s).name, IF Known(s) THEN Deployment(s).at.gen + 1 ELSE 1)
             args == IF Step(s).op = "save" THEN Empty
                     ELSE IF NeedsArgs(s) THEN ArgValues(s) ELSE Deployment(s).args
             into == IF Step(s).op = "save" THEN {"address"} ELSE Step(s).into
             copies == session[s].seen
             written(f) == [copies[f] EXCEPT ![n] = Put(@, Step(s).entry, at)]
             seen == [f \in DOMAIN copies |-> IF f \in into THEN written(f) ELSE copies[f]]
             owes == session[s].owes \cup {<<f, Step(s).entry>> : f \in into}
             upd == [session[s] EXCEPT !.seen = seen, !.owes = owes]
             dep == [at |-> at, code |-> VersionOf(Step(s).name), args |-> args]
             given == {<<at, f>> : f \in DOMAIN args}
             wired == [wire EXCEPT ![n] = [p \in DOMAIN @ \cup given |->
                                              IF p \in given THEN args[p[2]] ELSE @[p]]]
  <1>1. /\ s \in Alive /\ Step(s).op \in {"deploy", "save"} /\ files' = files
        /\ Advance(s, upd)
        /\ saved' = [saved EXCEPT ![n] = Put(@, Step(s).name, dep)]
        /\ wire' = IF ~ new THEN wire ELSE wired
    <2>1. Advance(s, upd)
      BY Zenon DEF DeployContract
    <2>2. saved' = [saved EXCEPT ![n] = Put(@, Step(s).name, dep)]
      BY Zenon DEF DeployContract
    <2>3. s \in Alive /\ Step(s).op \in {"deploy", "save"} /\ files' = files
      BY Zenon DEF DeployContract, Doing
    <2>4. wire' = IF ~ new THEN wire ELSE wired
      BY Zenon DEF DeployContract
    <2> QED
      BY <2>1, <2>2, <2>3, <2>4
  <1>2. DOMAIN wire = Networks /\ DOMAIN wire' = Networks
    BY <1>1 DEF BackInv
  <1>3. PICK r, st :
           /\ r = session[s] /\ st = Step(s) /\ DOMAIN r = Fields
           /\ WellNamed(st) /\ Uses(st) \subseteq DOMAIN r.seen
           /\ \A f \in DOMAIN r.seen : f \in Files /\ DOMAIN r.seen[f] = Networks
           /\ r.net \in Networks
    BY <1>1, AtWorkOnBook
  <1> HIDE DEF new, args, dep, owes, at, wired, into
  <1>4. DOMAIN upd = Fields /\ upd.seen = seen
    BY <1>3 DEF Fields
  <1>5. /\ \A m \in Networks : DOMAIN saved[m] \subseteq DOMAIN saved'[m]
        /\ Step(s).name \in DOMAIN saved'[n]
    <2>1. DOMAIN saved = Networks
      BY DEF BookInv
    <2> QED
      BY <1>1, <1>3, <2>1 DEF Put
  <1>6. NamesSaved(files["address"], saved) /\ SeenSaved(copies, saved)
    BY DEF BackInv
  <1>7. NamesSaved(files'["address"], saved')
    BY <1>1, <1>5, <1>6 DEF NamesSaved
  <1>8. SeenSaved(seen, saved')
    <2>1. SUFFICES ASSUME "address" \in DOMAIN copies PROVE NamesSaved(seen["address"], saved')
      BY DEF SeenSaved
    <2>2. PICK copy : copy = copies["address"]
      OBVIOUS
    <2>3. NamesSaved(copy, saved) /\ DOMAIN copy = Networks
      BY <1>3, <1>6, <2>1, <2>2 DEF SeenSaved
    <2>4. PICK put : put = Put(copy[n], Step(s).entry, at)
      OBVIOUS
    <2>5. seen["address"] = copy \/ seen["address"] = [copy EXCEPT ![n] = put]
      BY <2>1, <2>2, <2>4
    <2>6. Step(s).entry = EntryOf(Step(s).name)
      BY <1>1, <1>3 DEF WellNamed
    <2>7. \A e \in DOMAIN put : e \in DOMAIN copy[n] \/ e = EntryOf(Step(s).name)
      BY <2>4, <2>6 DEF Put
    <2> HIDE DEF seen
    <2>8. NamesSaved(copy, saved')
      BY <1>5, <2>3 DEF NamesSaved
    <2>9. NamesSaved([copy EXCEPT ![n] = put], saved')
      <3>1. PICK c2 : c2 = [copy EXCEPT ![n] = put]
        OBVIOUS
      <3>2. ASSUME NEW m \in Networks, NEW e \in DOMAIN c2[m]
            PROVE  \E x \in DOMAIN saved'[m] : e = EntryOf(x)
        <4>1. CASE m = n
          <5>1. e \in DOMAIN copy[n] \/ e = EntryOf(Step(s).name)
            BY <2>3, <2>7, <3>1, <3>2, <4>1
          <5> QED
            BY <1>5, <2>8, <4>1, <5>1 DEF NamesSaved
        <4>2. CASE m # n
          BY <2>3, <2>8, <3>1, <3>2, <4>2 DEF NamesSaved
        <4> QED
          BY <4>1, <4>2
      <3> QED
        BY <3>1, <3>2 DEF NamesSaved
    <2> QED
      BY <2>5, <2>8, <2>9
  <1>9. SeenSaved(upd.seen, saved')
    BY <1>4, <1>8
  <1> HIDE DEF upd, seen
  <1> QED
    BY <1>1, <1>2, <1>4, <1>5, <1>7, <1>9, BackAdvance

LEMMA BackRecordStep ==
    ASSUME ListInv, BookInv, BackInv, NEW s \in Sessions, RecordThing(s) PROVE BackInv'
  <1> DEFINE n == session[s].net
             changed == [session[s].seen EXCEPT ![Step(s).file][n] =
                            Put(@, Step(s).key, made[n][Step(s).kind][Step(s).key])]
             upd == [session[s] EXCEPT !.seen = changed]
  <1>1. /\ s \in Alive /\ Step(s).op = "record" /\ files' = files /\ saved' = saved
        /\ wire' = wire /\ Advance(s, upd)
    BY DEF RecordThing, Doing, onChain
  <1>2. PICK r, st : r = session[s] /\ st = Step(s) /\ DOMAIN r = Fields /\ WellNamed(st)
    BY <1>1, AtWorkOnBook
  <1>3. Step(s).file # "address"
    BY <1>1, <1>2, ListsAreApart DEF WellNamed
  <1>4. DOMAIN changed = DOMAIN session[s].seen
        /\ ("address" \in DOMAIN session[s].seen
              => changed["address"] = session[s].seen["address"])
    BY <1>3
  <1>5. DOMAIN upd = Fields /\ upd.seen = changed
    BY <1>2 DEF Fields
  <1> HIDE DEF changed, upd
  <1>6. /\ SeenSaved(session[s].seen, saved) /\ NamesSaved(files["address"], saved)
        /\ DOMAIN wire = Networks
    BY DEF BackInv
  <1>7. SeenSaved(upd.seen, saved') /\ NamesSaved(files'["address"], saved')
    BY <1>1, <1>4, <1>5, <1>6 DEF SeenSaved
  <1> QED
    BY <1>1, <1>5, <1>6, <1>7, BackAdvance

LEMMA BackClearStep ==
    ASSUME ListInv, BookInv, BackInv, NEW s \in Sessions, ClearCopy(s) PROVE BackInv'
  <1> DEFINE copy == session[s].seen[Step(s).file]
             cleared == [copy EXCEPT ![session[s].net] = Empty]
             upd == [session[s] EXCEPT !.seen = [f \in {Step(s).as} |-> cleared]]
  <1>1. /\ s \in Alive /\ Step(s).op = "clear" /\ files' = files /\ saved' = saved
        /\ wire' = wire /\ Advance(s, upd)
    BY DEF ClearCopy, Doing, onChain
  <1>2. PICK r, st : /\ r = session[s] /\ st = Step(s) /\ DOMAIN r = Fields
                     /\ TidyAt(r.todo, 1) /\ st = r.todo[1] /\ Uses(st) \subseteq DOMAIN r.seen
                     /\ \A f \in DOMAIN r.seen : f \in Files /\ DOMAIN r.seen[f] = Networks
    BY <1>1, AtWorkOnBook
  <1>3. PICK f : f = Step(s).file
    OBVIOUS
  <1>4. Step(s).as = f /\ f \in DOMAIN session[s].seen /\ DOMAIN copy = Networks
    BY <1>1, <1>2, <1>3 DEF TidyAt, Uses
  <1>5. \A m \in Networks : DOMAIN cleared[m] \subseteq DOMAIN copy[m]
    <2>1. DOMAIN Empty = {}
      BY DEF Empty
    <2> QED
      BY <1>4, <2>1
  <1>6. DOMAIN upd = Fields /\ upd.seen = [g \in {f} |-> cleared]
    BY <1>2, <1>4 DEF Fields
  <1> HIDE DEF cleared, upd
  <1>7. /\ SeenSaved(session[s].seen, saved) /\ NamesSaved(files["address"], saved)
        /\ DOMAIN wire = Networks
    BY DEF BackInv
  <1>8. SeenSaved(upd.seen, saved')
    <2>1. SUFFICES ASSUME f = "address" PROVE NamesSaved(cleared, saved)
      BY <1>1, <1>6 DEF SeenSaved
    <2>2. NamesSaved(copy, saved)
      BY <1>3, <1>4, <1>7, <2>1 DEF SeenSaved
    <2> QED
      BY <1>5, <2>2 DEF NamesSaved
  <1>9. NamesSaved(files'["address"], saved')
    BY <1>1, <1>7
  <1> QED
    BY <1>1, <1>6, <1>7, <1>8, <1>9, BackAdvance

LEMMA BackLaunchStep ==
    ASSUME BookInv, BackInv, NEW s \in Sessions, Launch(s) PROVE BackInv'
  <1>1. PICK n \in Networks : \E j \in Jobs(n) :
           session' = [t \in Sessions |->
                 IF t = s
                   THEN [Idle EXCEPT !.net = n, !.job = j.tag, !.todo = j.steps,
                                     !.seen = Preloaded(j.steps), !.alone = (Alive = {})]
                   ELSE [session[t] EXCEPT !.alone = (t \notin Alive)]]
    BY DEF Launch
  <1>2. PICK j \in Jobs(n) :
           session' = [t \in Sessions |->
                 IF t = s
                   THEN [Idle EXCEPT !.net = n, !.job = j.tag, !.todo = j.steps,
                                     !.seen = Preloaded(j.steps), !.alone = (Alive = {})]
                   ELSE [session[t] EXCEPT !.alone = (t \notin Alive)]]
    BY <1>1
  <1>3. files' = files /\ saved' = saved /\ wire' = wire
    BY DEF Launch, onChain
  <1>4. ASSUME NEW t \in Sessions PROVE SeenSaved(session'[t].seen, saved)
    <2>1. CASE t = s
      <3>1. session'[t].seen = Preloaded(j.steps)
        BY <1>2, <2>1 DEF Idle
      <3>2. "address" \notin DOMAIN Preloaded(j.steps)
        BY DEF Preloaded, Empty
      <3> QED
        BY <3>1, <3>2 DEF SeenSaved
    <2>2. CASE t # s
      <3>1. DOMAIN session[t] = Fields
        BY DEF BookInv, AllOrderly
      <3>2. session'[t].seen = session[t].seen
        BY <1>2, <2>2, <3>1 DEF Fields
      <3> QED
        BY <3>2 DEF BackInv
    <2> QED
      BY <2>1, <2>2
  <1> QED
    BY <1>3, <1>4 DEF BackInv

LEMMA BackInvInit ==
    ASSUME Init PROVE BackInv
  <1>1. DOMAIN wire = Networks /\ \A s \in Sessions : session[s] = Idle
    BY DEF Init
  <1>2. \A n \in Networks : DOMAIN files["address"][n] = {EntryOf(x) : x \in DOMAIN saved[n]}
    BY DEF Init, Files
  <1> QED
    BY <1>1, <1>2, NothingLeft DEF BackInv, SeenSaved, NamesSaved

LEMMA BackInvNext ==
    ASSUME ListInv, BookInv, BackInv, [Next]_vars PROVE BackInv'
  <1>1. CASE UNCHANGED vars
    BY <1>1 DEF vars, onChain, BackInv
  <1>2. ASSUME NEW s \in Sessions,
               \/ Launch(s) \/ ReadFile(s) \/ StoreFile(s) \/ NeedDeployments(s)
               \/ DeployContract(s) \/ SetPointer(s) \/ CallContract(s)
               \/ CheckRole(s) \/ GrantRole(s)
        PROVE  BackInv'
    BY <1>2, BackLaunchStep, BackReadStep, BackStoreStep, BackDeployStep, BackQuietSteps,
       BackEndSteps
  <1>3. ASSUME NEW s \in Sessions,
               \/ CreateThing(s) \/ AlterThing(s) \/ RecordThing(s) \/ ClearCopy(s)
               \/ Throw(s) \/ Crash(s)
        PROVE  BackInv'
    BY <1>3, BackQuietSteps, BackRecordStep, BackClearStep, BackEndSteps
  <1>4. ASSUME NEW c \in Editable, EditSource(c) PROVE BackInv'
    BY <1>4 DEF EditSource, onChain, BackInv
  <1> QED
    BY <1>1, <1>2, <1>3, <1>4 DEF Next

(***************************************************************************)
(* The script of the flight oracle, step by step: where it sets which      *)
(* pointer of the ring.                                                    *)
(***************************************************************************)
Pointer(i, x, f, y) == [at |-> i, x |-> x, field |-> f, y |-> y]
Ring == {Pointer(5, "PolicyFlow", "flightOracle", "FlightOracle"),
         Pointer(7, "FDPolicyToken", "policyFlow", "PolicyFlow"),
         Pointer(9, "FlightOracle", "policyFlow", "PolicyFlow"),
         Pointer(11, "InsurancePool", "policyFlow", "PolicyFlow")}

Followed(r, p, q) == r = p \o q
Sized(p, n) == IsProgram(p) /\ n \in Nat /\ Len(p) = n
Glued(r, p, q, n, m) ==
    /\ Sized(r, n + m)
    /\ \A i \in 1 .. n : r[i] = p[i]
    /\ \A i \in 1 .. m : r[n + i] = q[i]

LEMMA Appended ==
    ASSUME NEW r, NEW p, NEW q, NEW n, NEW m,
           Sized(p, n), Sized(q, m), Followed(r, p, q)
    PROVE  Glued(r, p, q, n, m)
  <1>1. IsProgram(p) /\ IsProgram(q)
    BY DEF Sized
  <1>2. r = p \o q /\ n \in Nat /\ m \in Nat /\ Len(p) = n /\ Len(q) = m
    BY DEF Followed, Sized
  <1>3. /\ IsProgram(p \o q)
        /\ Len(p \o q) = Len(p) + Len(q)
        /\ \A i \in 1 .. Len(p) : (p \o q)[i] = p[i]
        /\ \A i \in 1 .. Len(q) : (p \o q)[Len(p) + i] = q[i]
    BY <1>1, Joined
  <1>4. IsProgram(r) /\ Len(r) = n + m /\ n + m \in Nat
    BY <1>2, <1>3
  <1>5. (\A i \in 1 .. n : r[i] = p[i]) /\ (\A i \in 1 .. m : r[n + i] = q[i])
    BY <1>2, <1>3
  <1> QED
    BY <1>4, <1>5 DEF Sized, Glued

LEMMA FlightScriptIs ==
    ASSUME NEW p, p = Deploy08FDOracle
    PROVE  /\ IsProgram(p) /\ Len(p) = 11
           /\ p[1].op = "read" /\ p[2].op = "deploy" /\ p[3].op = "store" /\ p[4].op = "read"
           /\ p[6].op = "read" /\ p[8].op = "read" /\ p[10].op = "read"
           /\ \A q \in Ring : p[q.at] = Set(q.x, q.field, q.y)
  <1> DEFINE dep == Plain("FlightOracle", [policyFlow |-> Book("PolicyFlow")])
             rd == Read("address")
             st == Store("address")
             set1 == Set("PolicyFlow", "flightOracle", "FlightOracle")
             set2 == Set("FDPolicyToken", "policyFlow", "PolicyFlow")
             set3 == Set("FlightOracle", "policyFlow", "PolicyFlow")
             set4 == Set("InsurancePool", "policyFlow", "PolicyFlow")
  <1>1. PICK z, y1, y2, y3, q1, q2, q3, q4 :
           /\ z = <<>> /\ y1 = <<rd>> /\ y2 = <<dep>> /\ y3 = <<st>>
           /\ q1 = <<rd, set1>> /\ q2 = <<rd, set2>> /\ q3 = <<rd, set3>> /\ q4 = <<rd, set4>>
    OBVIOUS
  <1>2. PICK a, b, c, d1, d2, d3, d4 :
           /\ a = y1 \o z /\ b = a \o y2 /\ c = b \o y3
           /\ d1 = c \o q1 /\ d2 = d1 \o q2 /\ d3 = d2 \o q3 /\ d4 = d3 \o q4
    OBVIOUS
  <1>3. /\ Followed(a, y1, z) /\ Followed(b, a, y2) /\ Followed(c, b, y3)
        /\ Followed(d1, c, q1) /\ Followed(d2, d1, q2) /\ Followed(d3, d2, q3)
        /\ Followed(d4, d3, q4)
    BY <1>2 DEF Followed
  <1>4. p = d4
    BY <1>1, <1>2
       DEF Deploy08FDOracle, Script, SetFDPolicyFlow, SetFDPolicyToken, SetFDOracle,
           SetFDInsurancePool
  <1>5. rd.op = "read" /\ dep.op = "deploy" /\ st.op = "store"
    BY DEF Read, Plain, DeployTo, Store
  <1> HIDE DEF rd, dep, st, set1, set2, set3, set4
  <1>6. /\ Sized(z, 0)
        /\ Sized(y1, 1) /\ y1[1] = rd
        /\ Sized(y2, 1) /\ y2[1] = dep
        /\ Sized(y3, 1) /\ y3[1] = st
    BY <1>1, NothingLeft, TupleIsProgram DEF Sized
  <1>7. /\ Sized(q1, 2) /\ q1[1] = rd /\ q1[2] = set1
        /\ Sized(q2, 2) /\ q2[1] = rd /\ q2[2] = set2
        /\ Sized(q3, 2) /\ q3[1] = rd /\ q3[2] = set3
        /\ Sized(q4, 2) /\ q4[1] = rd /\ q4[2] = set4
    BY <1>1, TupleIsProgram DEF Sized
  <1>8. /\ Sized(a, 1) /\ \A i \in 1 .. 1 : a[i] = y1[i]
        /\ \A i \in 1 .. 0 : a[1 + i] = z[i]
    <2>1. Sized(y1, 1) /\ Sized(z, 0) /\ Followed(a, y1, z)
      BY <1>3, <1>6
    <2>2. Glued(a, y1, z, 1, 0)
      BY Zenon, <2>1, Appended
    <2> QED
      BY <2>2 DEF Glued
  <1>9. /\ Sized(b, 2) /\ \A i \in 1 .. 1 : b[i] = a[i]
        /\ \A i \in 1 .. 1 : b[1 + i] = y2[i]
    <2>1. Sized(a, 1) /\ Sized(y2, 1) /\ Followed(b, a, y2)
      BY <1>3, <1>6, <1>8
    <2>2. Glued(b, a, y2, 1, 1)
      BY Zenon, <2>1, Appended
    <2> QED
      BY <2>2 DEF Glued
  <1>10. /\ Sized(c, 3) /\ \A i \in 1 .. 2 : c[i] = b[i]
        /\ \A i \in 1 .. 1 : c[2 + i] = y3[i]
    <2>1. Sized(b, 2) /\ Sized(y3, 1) /\ Followed(c, b, y3)
      BY <1>3, <1>6, <1>9
    <2>2. Glued(c, b, y3, 2, 1)
      BY Zenon, <2>1, Appended
    <2> QED
      BY <2>2 DEF Glued
  <1>11. /\ Sized(d1, 5) /\ \A i \in 1 .. 3 : d1[i] = c[i]
        /\ \A i \in 1 .. 2 : d1[3 + i] = q1[i]
    <2>1. Sized(c, 3) /\ Sized(q1, 2) /\ Followed(d1, c, q1)
      BY <1>3, <1>7, <1>10
    <2>2. Glued(d1, c, q1, 3, 2)
      BY Zenon, <2>1, Appended
    <2> QED
      BY <2>2 DEF Glued
  <1>12. /\ Sized(d2, 7) /\ \A i \in 1 .. 5 : d2[i] = d1[i]
        /\ \A i \in 1 .. 2 : d2[5 + i] = q2[i]
    <2>1. Sized(d1, 5) /\ Sized(q2, 2) /\ Followed(d2, d1, q2)
      BY <1>3, <1>7, <1>11
    <2>2. Glued(d2, d1, q2, 5, 2)
      BY Zenon, <2>1, Appended
    <2> QED
      BY <2>2 DEF Glued
  <1>13. /\ Sized(d3, 9) /\ \A i \in 1 .. 7 : d3[i] = d2[i]
        /\ \A i \in 1 .. 2 : d3[7 + i] = q3[i]
    <2>1. Sized(d2, 7) /\ Sized(q3, 2) /\ Followed(d3, d2, q3)
      BY <1>3, <1>7, <1>12
    <2>2. Glued(d3, d2, q3, 7, 2)
      BY Zenon, <2>1, Appended
    <2> QED
      BY <2>2 DEF Glued
  <1>14. /\ Sized(d4, 11) /\ \A i \in 1 .. 9 : d4[i] = d3[i]
        /\ \A i \in 1 .. 2 : d4[9 + i] = q4[i]
    <2>1. Sized(d3, 9) /\ Sized(q4, 2) /\ Followed(d4, d3, q4)
      BY <1>3, <1>7, <1>13
    <2>2. Glued(d4, d3, q4, 9, 2)
      BY Zenon, <2>1, Appended
    <2> QED
      BY <2>2 DEF Glued
  <1>15. /\ d4[1] = rd /\ d4[2] = dep /\ d4[3] = st
         /\ d4[4] = rd /\ d4[5] = set1 /\ d4[6] = rd /\ d4[7] = set2
         /\ d4[8] = rd /\ d4[9] = set3 /\ d4[10] = rd /\ d4[11] = set4
    <2>1. /\ c[1] = rd /\ c[2] = dep /\ c[3] = st
      <3>1. a[1] = y1[1] /\ b[1] = a[1] /\ b[1 + 1] = y2[1]
        BY <1>8, <1>9
      <3>2. c[1] = b[1] /\ c[2] = b[2] /\ c[2 + 1] = y3[1]
        BY <1>10
      <3> QED
        BY <3>1, <3>2, <1>6
    <2>2. \A i \in 1 .. 3 : d4[i] = c[i]
      BY <1>11, <1>12, <1>13, <1>14
    <2>3. d4[4] = d1[4] /\ d4[5] = d1[5] /\ d1[3 + 1] = q1[1] /\ d1[3 + 2] = q1[2]
      BY <1>11, <1>12, <1>13, <1>14
    <2>4. d4[6] = d2[6] /\ d4[7] = d2[7] /\ d2[5 + 1] = q2[1] /\ d2[5 + 2] = q2[2]
      BY <1>12, <1>13, <1>14
    <2>5. d4[8] = d3[8] /\ d4[9] = d3[9] /\ d3[7 + 1] = q3[1] /\ d3[7 + 2] = q3[2]
      BY <1>13, <1>14
    <2>6. d4[9 + 1] = q4[1] /\ d4[9 + 2] = q4[2]
      BY <1>14
    <2> QED
      BY <1>7, <2>1, <2>2, <2>3, <2>4, <2>5, <2>6
  <1>16. \A q \in Ring : d4[q.at] = Set(q.x, q.field, q.y)
    BY <1>15 DEF Ring, Pointer, set1, set2, set3, set4
  <1> QED
    BY <1>4, <1>5, <1>14, <1>15, <1>16 DEF Sized

LEMMA FlightJobs ==
    ASSUME NEW net, NEW j \in Jobs(net), j.tag = "08" PROVE j.steps = Deploy08FDOracle
  <1>1. \E x \in ScriptOf(net) : x.name = "08" /\ j.steps = x.steps
    BY DEF Jobs
  <1> QED
    BY <1>1 DEF ScriptOf, Named

\* A pointer of the ring leads where it should, on network n.
PointsTo(n, q, sv, w) ==
    /\ {q.x, q.y} \subseteq DOMAIN sv[n]
    /\ <<sv[n][q.x].at, q.field>> \in DOMAIN w[n]
    /\ w[n][<<sv[n][q.x].at, q.field>>] = sv[n][q.y].at

\* The pointers that the first k steps of the script set.
SoFar(n, k, sv, w) == \A q \in Ring : q.at <= k => PointsTo(n, q, sv, w)

OnScript(r) == r.job = "08" /\ r.todo # <<>>

\* What is left of the script, and how much of it is done.
Done(p) == 11 - Len(p)
FollowsScript(p) ==
    /\ IsProgram(p) /\ Len(p) \in 1 .. 11
    /\ \A i \in 1 .. Len(p) : p[i] = Deploy08FDOracle[Done(p) + i]

\* The session runs by itself, and the book lacks nothing.
Undisturbed(r, ov, ex) == r.alone /\ ~ ov /\ \A x \in ex : x[2] # "address"

RingOf(r, sv, w, ov, ex) ==
    OnScript(r) => /\ FollowsScript(r.todo)
                   /\ Undisturbed(r, ov, ex) => SoFar(r.net, Done(r.todo), sv, w)

RingInv == \A s \in Sessions : RingOf(session[s], saved, wire, overlap, excused)

LEMMA ScriptStep ==
    ASSUME NEW p, FollowsScript(p)
    PROVE  /\ Done(p) + 1 \in 1 .. 11
           /\ p[1].op \in {"read", "deploy", "store", "set"}
           /\ p[1].op = "set" =>
                 \E q \in Ring : q.at = Done(p) + 1 /\ p[1] = Set(q.x, q.field, q.y)
           /\ p[1].op # "set" => \A q \in Ring : q.at # Done(p) + 1
           /\ p[1].op \in {"deploy", "store"} => Done(p) + 1 <= 3
  <1>1. PICK d : d = Deploy08FDOracle
    OBVIOUS
  <1>2. /\ d[1].op = "read" /\ d[2].op = "deploy" /\ d[3].op = "store" /\ d[4].op = "read"
        /\ d[6].op = "read" /\ d[8].op = "read" /\ d[10].op = "read"
        /\ \A q \in Ring : d[q.at] = Set(q.x, q.field, q.y)
    BY <1>1, FlightScriptIs
  <1>3. PICK k : k = Done(p) + 1
    OBVIOUS
  <1>4. k \in 1 .. 11 /\ p[1] = d[k]
    <2>1. Len(p) \in 1 .. 11
      BY DEF FollowsScript
    <2>2. 1 \in 1 .. Len(p)
      BY <2>1
    <2>3. p[1] = Deploy08FDOracle[Done(p) + 1]
      BY <2>2 DEF FollowsScript
    <2>4. Done(p) + 1 \in 1 .. 11
      <3>1. \A n \in 1 .. 11 : (11 - n) + 1 \in 1 .. 11
        OBVIOUS
      <3> QED
        BY <2>1, <3>1 DEF Done
    <2> QED
      BY <1>1, <1>3, <2>3, <2>4
  <1>5. \A q \in Ring : q.at \in {5, 7, 9, 11} /\ d[q.at].op = "set"
    BY <1>2 DEF Ring, Pointer, Set
  <1>6. k \in {5, 7, 9, 11} => \E q \in Ring : q.at = k
    BY DEF Ring, Pointer
  <1>7. k \in {1, 4, 6, 8, 10} => d[k].op = "read"
    BY <1>2
  <1>8. k = 2 => d[k].op = "deploy"
    BY <1>2
  <1>9. k = 3 => d[k].op = "store"
    BY <1>2
  <1>10. k \in {5, 7, 9, 11} =>
            \E q \in Ring : q.at = k /\ d[k] = Set(q.x, q.field, q.y) /\ d[k].op = "set"
    BY <1>2, <1>5, <1>6
  <1>11. k \in {1, 4, 6, 8, 10} \/ k = 2 \/ k = 3 \/ k \in {5, 7, 9, 11}
    BY <1>4
  <1> QED
    BY <1>3, <1>4, <1>5, <1>7, <1>8, <1>9, <1>10, <1>11

LEMMA ScriptGoesOn ==
    ASSUME NEW p, FollowsScript(p), Len(p) # 1
    PROVE  FollowsScript(Tail(p)) /\ Done(Tail(p)) = Done(p) + 1
  <1>1. PICK q : q = Tail(p)
    OBVIOUS
  <1>2. IsProgram(p) /\ Len(p) \in 2 .. 11
    BY DEF FollowsScript
  <1>3. p # <<>>
    <2>1. ASSUME NEW z, z = <<>> PROVE Len(z) = 0
      BY <2>1, NothingLeft
    <2>2. \A n \in 2 .. 11 : n # 0
      OBVIOUS
    <2> QED
      BY <1>2, <2>1, <2>2
  <1>4. /\ IsProgram(q) /\ Len(q) = Len(p) - 1
        /\ \A i \in 1 .. Len(q) : q[i] = p[i + 1]
    BY <1>1, <1>2, <1>3, TailOf
  <1>5. Done(p) = 11 - Len(p) /\ Done(q) = 11 - Len(q)
    BY DEF Done
  <1>6. Len(q) \in 1 .. 11 /\ Done(q) = Done(p) + 1 /\ Done(p) \in Nat
    <2>1. \A n \in 2 .. 11 :
             n - 1 \in 1 .. 11 /\ 11 - (n - 1) = (11 - n) + 1 /\ 11 - n \in Nat
      OBVIOUS
    <2> QED
      BY <1>2, <1>4, <1>5, <2>1
  <1>7. ASSUME NEW i \in 1 .. Len(q) PROVE q[i] = Deploy08FDOracle[Done(q) + i]
    <2>1. q[i] = p[i + 1] /\ i + 1 \in 1 .. Len(p)
      BY <1>2, <1>4
    <2>2. p[i + 1] = Deploy08FDOracle[Done(p) + (i + 1)]
      BY <2>1 DEF FollowsScript
    <2>3. Done(p) + (i + 1) = Done(q) + i
      BY <1>6
    <2> QED
      BY <2>1, <2>2, <2>3
  <1> QED
    BY <1>1, <1>4, <1>6, <1>7 DEF FollowsScript

\* While a session is under way, no other is one that runs alone.
LEMMA RingStep ==
    ASSUME BookInv, RingInv, NEW s \in Alive, NEW v, session' = [session EXCEPT ![s] = v],
           RingOf(v, saved', wire', overlap', excused')
    PROVE  RingInv'
  <1>1. /\ DOMAIN session = Sessions /\ s \in Sessions /\ session[s].todo # <<>>
        /\ \A t \in Sessions : t # s /\ session[t].alone => session[t].todo = <<>>
    BY DEF BookInv, AllOrderly, Alive
  <1>2. ASSUME NEW t \in Sessions
        PROVE  RingOf(session'[t], saved', wire', overlap', excused')
    <2>1. CASE t = s
      BY <1>1, <2>1
    <2>2. CASE t # s
      <3>1. PICK r : r = session[t] /\ r = session'[t]
        BY <1>1, <2>2
      <3>2. RingOf(r, saved, wire, overlap, excused) /\ (r.alone => r.todo = <<>>)
        BY <1>1, <2>2, <3>1 DEF RingInv
      <3>3. OnScript(r) => FollowsScript(r.todo) /\ ~ r.alone
        BY <3>2 DEF RingOf, OnScript
      <3> QED
        BY <3>1, <3>3 DEF RingOf, Undisturbed
    <2> QED
      BY <2>1, <2>2
  <1> QED
    BY <1>2 DEF RingInv

LEMMA RingAdvance ==
    ASSUME BookInv, RingInv, NEW s \in Alive, NEW r, NEW u, r = session[s], Advance(s, u),
           DOMAIN u = Fields, u.todo = r.todo, u.job = r.job, u.net = r.net, u.alone = r.alone,
           OnScript(r) /\ Undisturbed(r, overlap', excused')
               => SoFar(r.net, Done(r.todo) + 1, saved', wire')
    PROVE  RingInv'
  <1>1. PICK v : v = After(u)
    OBVIOUS
  <1>2. session' = [session EXCEPT ![s] = v]
    BY <1>1 DEF Advance, After
  <1>3. RingOf(r, saved, wire, overlap, excused)
    BY DEF RingInv, Alive
  <1>4. RingOf(v, saved', wire', overlap', excused')
    <2>1. CASE Len(u.todo) = 1
      <3>1. v.todo = <<>>
        BY <1>1, <2>1, AfterIs, NothingLeft
      <3> QED
        BY <3>1 DEF RingOf, OnScript
    <2>2. CASE Len(u.todo) # 1
      <3>1. v.todo = Tail(r.todo) /\ v.net = r.net /\ v.alone = r.alone /\ v.job = r.job
        <4>1. v = [u EXCEPT !.todo = Tail(@)]
          BY <1>1, <2>2 DEF After
        <4> QED
          BY <4>1 DEF Fields
      <3>2. SUFFICES ASSUME OnScript(v)
                     PROVE  /\ FollowsScript(v.todo)
                            /\ Undisturbed(v, overlap', excused')
                                  => SoFar(v.net, Done(v.todo), saved', wire')
        BY DEF RingOf
      <3>3. OnScript(r)
        BY <3>1, <3>2 DEF OnScript, Alive
      <3>4. FollowsScript(r.todo)
        BY <1>3, <3>3 DEF RingOf
      <3>5. FollowsScript(v.todo) /\ Done(v.todo) = Done(r.todo) + 1
        BY <2>2, <3>1, <3>4, ScriptGoesOn
      <3>6. Undisturbed(v, overlap', excused') => Undisturbed(r, overlap', excused')
        BY <3>1 DEF Undisturbed
      <3> QED
        BY <3>1, <3>3, <3>5, <3>6
    <2> QED
      BY <2>1, <2>2
  <1> QED
    BY <1>2, <1>4, RingStep

\* Steps that set no pointer.  The script deploys and stores before it sets
\* the first one.
LEMMA RingPlain ==
    ASSUME BookInv, RingInv, NEW s \in Alive, NEW r, NEW u, r = session[s], Advance(s, u),
           DOMAIN u = Fields, u.todo = r.todo, u.job = r.job, u.net = r.net, u.alone = r.alone,
           Step(s).op # "set",
           Step(s).op = "read" => UNCHANGED <<saved, wire, overlap, excused>>
    PROVE  RingInv'
  <1>1. SUFFICES ASSUME OnScript(r), Undisturbed(r, overlap', excused')
                 PROVE  SoFar(r.net, Done(r.todo) + 1, saved', wire')
    BY RingAdvance
  <1>2. RingOf(r, saved, wire, overlap, excused)
    BY DEF RingInv, Alive
  <1>3. FollowsScript(r.todo)
    BY <1>1, <1>2 DEF RingOf
  <1>4. PICK k : k = Done(r.todo) + 1
    OBVIOUS
  <1>5. Step(s) = r.todo[1]
    BY <1>3, TailOf DEF Step, Alive, FollowsScript
  <1>6. /\ k \in 1 .. 11 /\ \A q \in Ring : q.at # k
        /\ Step(s).op \in {"read", "deploy", "store"}
        /\ Step(s).op \in {"deploy", "store"} => k <= 3
    BY <1>3, <1>4, <1>5, ScriptStep
  <1>7. CASE Step(s).op # "read"
    <2>1. \A q \in Ring : q.at \in {5, 7, 9, 11}
      BY DEF Ring, Pointer
    <2>2. k <= 3
      BY <1>6, <1>7
    <2>3. \A q \in Ring : ~ (q.at <= k)
      BY <1>6, <2>1, <2>2
    <2> QED
      BY <1>4, <2>3 DEF SoFar
  <1>8. CASE Step(s).op = "read"
    <2>1. saved' = saved /\ wire' = wire /\ Undisturbed(r, overlap, excused)
      BY <1>1, <1>8
    <2>2. SoFar(r.net, Done(r.todo), saved, wire)
      BY <1>1, <1>2, <2>1 DEF RingOf
    <2>3. Done(r.todo) = k - 1
      <3>1. Len(r.todo) \in 1 .. 11
        BY <1>3 DEF FollowsScript
      <3> QED
        BY <1>4, <3>1 DEF Done
    <2>4. \A q \in Ring : q.at <= k => q.at <= k - 1
      <3>1. \A q \in Ring : q.at \in {5, 7, 9, 11}
        BY DEF Ring, Pointer
      <3> QED
        BY <1>6, <3>1
    <2> QED
      BY <1>4, <2>1, <2>2, <2>3, <2>4 DEF SoFar
  <1> QED
    BY <1>7, <1>8

\* What a step may change of its session leaves its job, and what is left to do.
SameJob(r, u) ==
    DOMAIN u = Fields /\ u.todo = r.todo /\ u.job = r.job /\ u.net = r.net /\ u.alone = r.alone

LEMMA SameJobIs ==
    ASSUME NEW r, DOMAIN r = Fields
    PROVE  /\ SameJob(r, r)
           /\ \A x : SameJob(r, [r EXCEPT !.seen = x]) /\ SameJob(r, [r EXCEPT !.got = x])
           /\ \A x : SameJob(r, [r EXCEPT !.owes = x])
           /\ \A x, y : SameJob(r, [r EXCEPT !.seen = x, !.owes = y])
  BY DEF SameJob, Fields

\* Steps that do not end the session go on with it.
LEMMA StepsAdvance ==
    ASSUME ListInv, NEW s \in Alive,
           \/ ReadFile(s) \/ StoreFile(s) \/ NeedDeployments(s) \/ DeployContract(s)
           \/ CallContract(s) \/ GrantRole(s) \/ CreateThing(s) \/ AlterThing(s)
           \/ RecordThing(s) \/ ClearCopy(s) \/ SetPointer(s)
    PROVE  \E u : Advance(s, u) /\ SameJob(session[s], u)
  <1>0. PICK r : r = session[s] /\ DOMAIN r = Fields
    BY AtWork
  <1>1. CASE DeployContract(s)
    <2> DEFINE n == session[s].net
               new == IF Step(s).op = "save" THEN ~ Known(s) ELSE IsNew(s)
               at == IF ~ new THEN Deployment(s).at
                     ELSE Address(Step(s).name,
                                  IF Known(s) THEN Deployment(s).at.gen + 1 ELSE 1)
               into == IF Step(s).op = "save" THEN {"address"} ELSE Step(s).into
               copies == session[s].seen
               written(f) == [copies[f] EXCEPT ![n] = Put(@, Step(s).entry, at)]
               seen == [f \in DOMAIN copies |-> IF f \in into THEN written(f) ELSE copies[f]]
               owes == session[s].owes \cup {<<f, Step(s).entry>> : f \in into}
    <2>1. Advance(s, [session[s] EXCEPT !.seen = seen, !.owes = owes])
      BY <1>1, Zenon DEF DeployContract
    <2> HIDE DEF seen, owes
    <2>2. PICK x, y : x = seen /\ y = owes
      OBVIOUS
    <2>3. Advance(s, [r EXCEPT !.seen = x, !.owes = y])
      BY <1>0, <2>1, <2>2
    <2> QED
      BY <1>0, <2>3, SameJobIs
  <1>2. CASE \/ CallContract(s) \/ GrantRole(s) \/ SetPointer(s)
    <2>1. Advance(s, r)
      BY <1>0, <1>2 DEF CallContract, GrantRole, SetPointer
    <2> QED
      BY <1>0, <2>1, SameJobIs
  <1>3. CASE NeedDeployments(s)
    <2>1. PICK x : Advance(s, [r EXCEPT !.got = x])
      BY <1>0, <1>3 DEF NeedDeployments
    <2> QED
      BY <1>0, <2>1, SameJobIs
  <1>4. CASE \/ StoreFile(s) \/ CreateThing(s) \/ AlterThing(s)
    <2>1. \E x : \/ Advance(s, [session[s] EXCEPT !.owes = @ \cup x])
                 \/ Advance(s, [session[s] EXCEPT !.owes = @ \ x])
      BY <1>4 DEF StoreFile, CreateThing, AlterThing
    <2>2. PICK x : Advance(s, [r EXCEPT !.owes = x])
      BY <1>0, <2>1
    <2> QED
      BY <1>0, <2>2, SameJobIs
  <1>5. CASE \/ ReadFile(s) \/ RecordThing(s) \/ ClearCopy(s)
    <2>1. PICK x : Advance(s, [r EXCEPT !.seen = x])
      BY <1>0, <1>5 DEF ReadFile, RecordThing, ClearCopy
    <2> QED
      BY <1>0, <2>1, SameJobIs
  <1> QED
    BY <1>1, <1>2, <1>3, <1>4, <1>5

LEMMA RingPlainSteps ==
    ASSUME ListInv, BookInv, RingInv, NEW s \in Sessions,
           \/ ReadFile(s) \/ StoreFile(s) \/ NeedDeployments(s) \/ DeployContract(s)
           \/ CallContract(s) \/ GrantRole(s) \/ CreateThing(s) \/ AlterThing(s)
           \/ RecordThing(s) \/ ClearCopy(s)
    PROVE  RingInv'
  <1>1. s \in Alive /\ Step(s).op # "set"
    BY DEF ReadFile, StoreFile, NeedDeployments, DeployContract, CallContract, GrantRole,
           CreateThing, AlterThing, RecordThing, ClearCopy, Doing
  <1>2. Step(s).op = "read" => UNCHANGED <<saved, wire, overlap, excused>>
    BY DEF ReadFile, StoreFile, NeedDeployments, DeployContract, CallContract, GrantRole,
           CreateThing, AlterThing, RecordThing, ClearCopy, Doing, onChain, Bookkeeping
  <1>3. PICK r : r = session[s] /\ DOMAIN r = Fields
    BY <1>1, AtWork
  <1>4. PICK u : Advance(s, u) /\ SameJob(r, u)
    BY <1>1, <1>3, StepsAdvance
  <1>5. /\ DOMAIN u = Fields /\ u.todo = r.todo /\ u.job = r.job /\ u.net = r.net
        /\ u.alone = r.alone
    BY <1>4 DEF SameJob
  <1> QED
    BY <1>1, <1>2, <1>3, <1>4, <1>5, RingPlain

LEMMA RingEndSteps ==
    ASSUME ListInv, BookInv, RingInv, NEW s \in Sessions, CheckRole(s) \/ Throw(s) \/ Crash(s)
    PROVE  RingInv'
  <1>1. s \in Alive /\ saved' = saved /\ wire' = wire
    BY DEF CheckRole, Throw, Crash, End, Doing, onChain
  <1>2. CASE session' = [session EXCEPT ![s] = Idle]
    <2>1. RingOf(Idle, saved', wire', overlap', excused')
      BY NothingLeft DEF RingOf, OnScript
    <2> QED
      BY <1>1, <1>2, <2>1, RingStep
  <1>3. CASE CheckRole(s) /\ Advance(s, session[s])
    <2>1. PICK r : r = session[s] /\ DOMAIN r = Fields
      BY <1>1, AtWork
    <2>2. Step(s).op = "checkRole"
      BY <1>3 DEF CheckRole, Doing
    <2> QED
      BY <1>1, <1>3, <2>1, <2>2, RingPlain
  <1> QED
    BY <1>2, <1>3 DEF CheckRole, Throw, Crash, End

LEMMA RingLaunchStep ==
    ASSUME BookInv, RingInv, NEW s \in Sessions, Launch(s) PROVE RingInv'
  <1>1. PICK n \in Networks : \E j \in Jobs(n) :
           session' = [t \in Sessions |->
                 IF t = s
                   THEN [Idle EXCEPT !.net = n, !.job = j.tag, !.todo = j.steps,
                                     !.seen = Preloaded(j.steps), !.alone = (Alive = {})]
                   ELSE [session[t] EXCEPT !.alone = (t \notin Alive)]]
    BY DEF Launch
  <1>2. PICK j \in Jobs(n) :
           session' = [t \in Sessions |->
                 IF t = s
                   THEN [Idle EXCEPT !.net = n, !.job = j.tag, !.todo = j.steps,
                                     !.seen = Preloaded(j.steps), !.alone = (Alive = {})]
                   ELSE [session[t] EXCEPT !.alone = (t \notin Alive)]]
    BY <1>1
  <1>3. RingOf(session'[s], saved', wire', overlap', excused')
    <2>1. PICK r : r = session'[s] /\ r.todo = j.steps /\ r.job = j.tag
      <3>1. session'[s].todo = j.steps
        BY <1>2 DEF Idle
      <3>2. session'[s].job = j.tag
        BY <1>2 DEF Idle
      <3> QED
        BY <3>1, <3>2
    <2>2. OnScript(r) => r.todo = Deploy08FDOracle
      BY <2>1, FlightJobs DEF OnScript
    <2>3. ASSUME NEW p, p = Deploy08FDOracle PROVE FollowsScript(p) /\ Done(p) = 0
      <3>1. IsProgram(p) /\ Len(p) = 11
        BY <2>3, FlightScriptIs
      <3>2. Done(p) = 0
        BY <3>1 DEF Done
      <3>3. \A i \in 1 .. Len(p) : p[i] = Deploy08FDOracle[Done(p) + i]
        BY <2>3, <3>1, <3>2
      <3> QED
        BY <3>1, <3>2, <3>3 DEF FollowsScript
    <2>4. \A q \in Ring : ~ (q.at <= 0)
      BY DEF Ring, Pointer
    <2> QED
      BY <2>1, <2>2, <2>3, <2>4 DEF RingOf, SoFar
  <1>4. ASSUME NEW t \in Sessions, t # s
        PROVE  RingOf(session'[t], saved', wire', overlap', excused')
    <2>1. PICK r, r2 : r = session[t] /\ r2 = session'[t] /\ DOMAIN r = Fields
      BY DEF BookInv, AllOrderly
    <2>2. r2 = [r EXCEPT !.alone = (t \notin Alive)]
      BY <1>2, <1>4, <2>1
    <2>3. r2.todo = r.todo /\ r2.job = r.job /\ (r2.alone => r.todo = <<>>)
      BY <2>1, <2>2 DEF Fields, Alive
    <2>4. RingOf(r, saved, wire, overlap, excused)
      BY <2>1 DEF RingInv
    <2> QED
      BY <2>1, <2>3, <2>4 DEF RingOf, OnScript, Undisturbed
  <1> QED
    BY <1>3, <1>4 DEF RingInv

\* Pointers of the ring that go by one name all lead to one contract: setting
\* one never spoils another.
LEMMA RingIsConsistent ==
    /\ \A q, q2 \in Ring : q.field = q2.field => q.y = q2.y
    /\ \A q, q2 \in Ring : q.at = q2.at => q = q2
    /\ \A q \in Ring : q.at \in {5, 7, 9, 11} /\ EntryOf(q.x) = q.x /\ EntryOf(q.y) = q.y
    /\ \A q \in Ring : q.x # "VoteEscrowedDegis" /\ q.y # "VoteEscrowedDegis"
  BY DEF Ring, Pointer, EntryOf

\* What the book of a session lists has been deployed, under that name.
LEMMA DefinedIsSaved ==
    ASSUME ListInv, BookInv, BackInv, NEW s \in Alive, "address" \in DOMAIN session[s].seen,
           NEW e, e # "VoteEscrowedDegis", Defined(s, e)
    PROVE  e \in DOMAIN saved[session[s].net]
  <1>1. s \in Sessions /\ session[s].net \in Networks
    BY AtWork
  <1>2. NamesSaved(session[s].seen["address"], saved)
    BY <1>1 DEF BackInv, SeenSaved
  <1>3. PICK x \in DOMAIN saved[session[s].net] : e = EntryOf(x)
    BY <1>1, <1>2 DEF NamesSaved, Defined, Entries, Has
  <1> QED
    BY <1>3 DEF EntryOf

\* A pointer is set between the current deployments.
LEMMA RingPointerSet ==
    ASSUME ListInv, BookInv, BackInv, NEW s \in Alive, SetPointer(s),
           NEW q \in Ring, Step(s) = Set(q.x, q.field, q.y),
           Undisturbed(session[s], overlap, excused)
    PROVE  LET sv == saved[session[s].net]
           IN  /\ {q.x, q.y} \subseteq DOMAIN sv
               /\ wire' = [wire EXCEPT ![session[s].net] =
                              Put(@, <<sv[q.x].at, q.field>>, sv[q.y].at)]
  <1>1. PICK x, y, f : x = q.x /\ y = q.y /\ f = q.field
    OBVIOUS
  <1>2. PICK n : n = session[s].net
    OBVIOUS
  <1>3. Step(s).op = "set" /\ Step(s).target = x /\ Step(s).field = f /\ Step(s).entry = y
    BY <1>1 DEF Set
  <1>4. EntryOf(x) = x /\ EntryOf(y) = y /\ x # "VoteEscrowedDegis" /\ y # "VoteEscrowedDegis"
    BY <1>1, RingIsConsistent
  <1>5. Defined(s, x) /\ Defined(s, y)
    <2>1. Possible(s)
      BY DEF SetPointer, Doing
    <2> QED
      BY <1>3, <2>1 DEF Possible
  <1>6. "address" \in DOMAIN session[s].seen
    <2>1. Uses(Step(s)) \subseteq DOMAIN session[s].seen
      BY AtWorkOnBook
    <2> QED
      BY <1>3, <2>1 DEF Uses
  <1>7. x \in DOMAIN saved[n] /\ y \in DOMAIN saved[n]
    BY <1>2, <1>4, <1>5, <1>6, DefinedIsSaved
  <1>8. x \in Names(Step(s)) /\ y \in Names(Step(s))
    BY <1>3 DEF Names
  <1>9. session[s].alone /\ ~ overlap
    BY DEF Undisturbed
  <1>10. \A e : <<n, "address", e>> \notin excused
    <2>1. ASSUME NEW e, NEW o, o = <<n, "address", e>> PROVE o[2] = "address"
      BY <2>1
    <2> QED
      BY <2>1 DEF Undisturbed
  <1>11. Entries(s)[x] = saved[n][x].at
    BY <1>2, <1>4, <1>7, <1>8, <1>9, <1>10, SendsCurrent
  <1>12. Entries(s)[y] = saved[n][y].at
    BY <1>2, <1>4, <1>7, <1>8, <1>9, <1>10, SendsCurrent
  <1>13. wire' = [wire EXCEPT ![session[s].net] =
                    Put(@, <<Entries(s)[Step(s).target], Step(s).field>>,
                        Entries(s)[Step(s).entry])]
    BY DEF SetPointer
  <1>14. wire' = [wire EXCEPT ![n] = Put(@, <<saved[n][x].at, f>>, saved[n][y].at)]
    BY <1>2, <1>3, <1>11, <1>12, <1>13
  <1> QED
    BY <1>1, <1>2, <1>7, <1>14

LEMMA PointerAdded ==
    ASSUME NEW n, NEW sv, NEW w, NEW w2, NEW k, NEW q \in Ring,
           n \in DOMAIN w, k = q.at, {q.x, q.y} \subseteq DOMAIN sv[n],
           w2 = [w EXCEPT ![n] = Put(@, <<sv[n][q.x].at, q.field>>, sv[n][q.y].at)],
           SoFar(n, k - 1, sv, w)
    PROVE  SoFar(n, k, sv, w2)
  <1> DEFINE key(p) == <<sv[n][p.x].at, p.field>>
  <1>1. w2[n] = Put(w[n], key(q), sv[n][q.y].at)
    OBVIOUS
  <1>2. ASSUME NEW p \in Ring, p.at <= k PROVE PointsTo(n, p, sv, w2)
    <2>1. CASE p = q
      BY <1>1, <2>1 DEF PointsTo, Put
    <2>2. CASE p # q
      <3>1. p.at <= k - 1
        <4>1. p.at # k /\ p.at \in {5, 7, 9, 11} /\ k \in {5, 7, 9, 11}
          BY <2>2, RingIsConsistent
        <4> QED
          BY <1>2, <4>1
      <3>2. PointsTo(n, p, sv, w)
        BY <3>1 DEF SoFar
      <3>3. key(p) = key(q) => p.y = q.y
        <4>1. key(p) = key(q) => p.field = q.field
          OBVIOUS
        <4> QED
          BY <4>1, RingIsConsistent
      <3> QED
        BY <1>1, <3>2, <3>3 DEF PointsTo, Put
    <2> QED
      BY <2>1, <2>2
  <1> QED
    BY <1>2 DEF SoFar

LEMMA ScriptSets ==
    ASSUME ListInv, BookInv, BackInv, RingInv, NEW s \in Sessions, SetPointer(s),
           NEW r, r = session[s], OnScript(r), Undisturbed(r, overlap, excused)
    PROVE  SoFar(r.net, Done(r.todo) + 1, saved', wire')
  <1>1. s \in Alive /\ Step(s).op = "set" /\ saved' = saved
    BY DEF SetPointer, Doing
  <1>2. r.net \in Networks
    BY <1>1, AtWork
  <1>3. RingOf(r, saved, wire, overlap, excused)
    BY DEF RingInv
  <1>4. FollowsScript(r.todo) /\ SoFar(r.net, Done(r.todo), saved, wire)
    BY <1>3 DEF RingOf
  <1>5. Step(s) = r.todo[1]
    BY <1>1, <1>4, TailOf DEF Step, Alive, FollowsScript
  <1>6. PICK q \in Ring : q.at = Done(r.todo) + 1 /\ Step(s) = Set(q.x, q.field, q.y)
    BY <1>1, <1>4, <1>5, ScriptStep
  <1>7. PICK n, sv, w, w2, k :
           n = r.net /\ sv = saved /\ w = wire /\ w2 = wire' /\ k = Done(r.todo) + 1
    OBVIOUS
  <1>8. /\ {q.x, q.y} \subseteq DOMAIN sv[n]
        /\ w2 = [w EXCEPT ![n] = Put(@, <<sv[n][q.x].at, q.field>>, sv[n][q.y].at)]
    BY <1>1, <1>6, <1>7, RingPointerSet
  <1>9. Done(r.todo) = k - 1
    <2>1. Len(r.todo) \in 1 .. 11
      BY <1>4 DEF FollowsScript
    <2> QED
      BY <1>7, <2>1 DEF Done
  <1>10. n \in DOMAIN w /\ k = q.at /\ SoFar(n, k - 1, sv, w)
    BY <1>2, <1>4, <1>6, <1>7, <1>9 DEF BackInv
  <1>11. SoFar(n, k, sv, w2)
    BY <1>8, <1>10, PointerAdded
  <1> QED
    BY <1>1, <1>7, <1>11

LEMMA RingSetStep ==
    ASSUME ListInv, BookInv, BackInv, RingInv, NEW s \in Sessions, SetPointer(s)
    PROVE  RingInv'
  <1>1. /\ s \in Alive /\ Advance(s, session[s])
        /\ overlap' = overlap /\ excused' = excused
    BY DEF SetPointer, Doing, Bookkeeping
  <1>2. PICK r : r = session[s] /\ DOMAIN r = Fields
    BY <1>1, AtWork
  <1>3. OnScript(r) /\ Undisturbed(r, overlap', excused')
            => SoFar(r.net, Done(r.todo) + 1, saved', wire')
    BY <1>1, <1>2, ScriptSets
  <1> QED
    BY <1>1, <1>2, <1>3, RingAdvance

LEMMA RingInvInit ==
    ASSUME Init PROVE RingInv
  <1>1. \A s \in Sessions : session[s] = Idle
    BY DEF Init
  <1> QED
    BY <1>1, NothingLeft DEF RingInv, RingOf, OnScript

LEMMA RingInvNext ==
    ASSUME ListInv, BookInv, BackInv, RingInv, [Next]_vars PROVE RingInv'
  <1>1. CASE UNCHANGED vars
    BY <1>1 DEF vars, onChain, RingInv
  <1>2. ASSUME NEW s \in Sessions,
               \/ Launch(s) \/ ReadFile(s) \/ StoreFile(s) \/ NeedDeployments(s)
               \/ DeployContract(s) \/ SetPointer(s) \/ CallContract(s)
               \/ CheckRole(s) \/ GrantRole(s)
        PROVE  RingInv'
    BY <1>2, RingLaunchStep, RingPlainSteps, RingSetStep, RingEndSteps
  <1>3. ASSUME NEW s \in Sessions,
               \/ CreateThing(s) \/ AlterThing(s) \/ RecordThing(s) \/ ClearCopy(s)
               \/ Throw(s) \/ Crash(s)
        PROVE  RingInv'
    BY <1>3, RingPlainSteps, RingEndSteps
  <1>4. ASSUME NEW c \in Editable, EditSource(c) PROVE RingInv'
    BY <1>4 DEF EditSource, onChain, RingInv
  <1> QED
    BY <1>1, <1>2, <1>3, <1>4 DEF Next

\* Sessions start, go on or end by steps of their own.
LEMMA OthersGoOn ==
    ASSUME BookInv, NEW t \in Sessions, NEW s \in Sessions, t # s,
           \/ Launch(t) \/ ReadFile(t) \/ StoreFile(t) \/ NeedDeployments(t)
           \/ DeployContract(t) \/ SetPointer(t) \/ CallContract(t)
           \/ CheckRole(t) \/ GrantRole(t) \/ CreateThing(t) \/ AlterThing(t)
           \/ RecordThing(t) \/ ClearCopy(t) \/ Throw(t) \/ Crash(t)
    PROVE  session'[s].todo = session[s].todo
  <1>1. DOMAIN session = Sessions /\ DOMAIN session[s] = Fields
    BY DEF BookInv, AllOrderly
  <1>2. CASE Launch(t)
    <2>1. session'[s] = [session[s] EXCEPT !.alone = (s \notin Alive)]
      BY <1>2 DEF Launch
    <2> QED
      BY <1>1, <2>1 DEF Fields
  <1>3. CASE ~ Launch(t)
    <2>1. \E v : session' = [session EXCEPT ![t] = v]
      <3>1. ASSUME NEW u, Advance(t, u) PROVE \E v : session' = [session EXCEPT ![t] = v]
        BY <3>1 DEF Advance
      <3>2. \/ \E u : Advance(t, u)
            \/ session' = [session EXCEPT ![t] = Idle]
        <4>1. CASE DeployContract(t)
          BY <4>1 DEF DeployContract
        <4>2. CASE ~ DeployContract(t)
          BY <1>3, <4>2
             DEF ReadFile, StoreFile, NeedDeployments, SetPointer, CallContract, CheckRole,
                 GrantRole, CreateThing, AlterThing, RecordThing, ClearCopy, Throw, Crash, End
        <4> QED
          BY <4>1, <4>2
      <3> QED
        BY <3>1, <3>2
    <2> QED
      BY <1>1, <2>1
  <1> QED
    BY <1>2, <1>3

\* The script's last step sets the ring's last pointer.
LEMMA LastStepSets ==
    ASSUME ListInv, BookInv, BackInv, RingInv, [Next]_vars, NEW s \in Sessions, ScriptEnds(s)
    PROVE  SetPointer(s) /\ OnScript(session[s]) /\ Done(session[s].todo) + 1 = 11
  <1>1. PICK r : r = session[s]
    OBVIOUS
  <1>2. /\ r.job = "08" /\ Len(r.todo) = 1 /\ Possible(s) /\ session'[s] = Idle
    BY <1>1 DEF ScriptEnds
  <1>3. r.todo # <<>>
    <2>1. \A z : z = <<>> => Len(z) = 0
      BY NothingLeft
    <2> QED
      BY <1>2, <2>1
  <1>4. OnScript(r) /\ s \in Alive
    BY <1>1, <1>2, <1>3 DEF OnScript, Alive
  <1>5. RingOf(r, saved, wire, overlap, excused)
    BY <1>1 DEF RingInv
  <1>6. FollowsScript(r.todo)
    BY <1>4, <1>5 DEF RingOf
  <1>7. Done(r.todo) + 1 = 11
    BY <1>2 DEF Done
  <1>8. Step(s) = r.todo[1]
    BY <1>1, <1>3, <1>6, TailOf DEF Step, FollowsScript
  <1>9. Step(s).op = "set"
    <2>1. \E q \in Ring : q.at = Done(r.todo) + 1
      BY <1>7 DEF Ring, Pointer
    <2> QED
      BY <1>6, <1>8, <2>1, ScriptStep
  <1>10. session'[s].todo = <<>>
    BY <1>2, NothingLeft
  <1>11. r.owes = {}
    <2>1. SUFFICES ASSUME NEW o \in r.owes PROVE FALSE
      OBVIOUS
    <2>2. Orderly(r)
      BY <1>1 DEF BookInv, AllOrderly
    <2>3. PICK f : SettledFrom(r.todo, 1, f)
      BY <2>2 DEF Orderly
    <2>4. PICK l \in 1 .. Len(r.todo) : StoresAt(r.todo, l, f)
      BY <2>3 DEF SettledFrom
    <2>5. l = 1
      BY <1>2, <2>4
    <2> QED
      BY <1>8, <1>9, <2>4, <2>5 DEF StoresAt
  <1>12. CASE UNCHANGED vars
    BY <1>1, <1>3, <1>10, <1>12 DEF vars
  <1>13. ASSUME NEW c \in Editable, EditSource(c) PROVE FALSE
    BY <1>1, <1>3, <1>10, <1>13 DEF EditSource
  <1>14. ASSUME NEW t \in Sessions,
                \/ Launch(t) \/ ReadFile(t) \/ StoreFile(t) \/ NeedDeployments(t)
                \/ DeployContract(t) \/ SetPointer(t) \/ CallContract(t)
                \/ CheckRole(t) \/ GrantRole(t) \/ CreateThing(t) \/ AlterThing(t)
                \/ RecordThing(t) \/ ClearCopy(t) \/ Throw(t) \/ Crash(t)
         PROVE  SetPointer(s)
    <2>1. t = s
      BY <1>1, <1>3, <1>10, <1>14, OthersGoOn
    <2>2. ~ Launch(s) /\ ~ Throw(s) /\ ~ Crash(s)
      BY <1>1, <1>2, <1>4, <1>11 DEF Launch, Throw, Crash
    <2>3. /\ ~ ReadFile(s) /\ ~ StoreFile(s) /\ ~ NeedDeployments(s) /\ ~ DeployContract(s)
          /\ ~ CallContract(s) /\ ~ CheckRole(s) /\ ~ GrantRole(s) /\ ~ CreateThing(s)
          /\ ~ AlterThing(s) /\ ~ RecordThing(s) /\ ~ ClearCopy(s)
      BY <1>9
         DEF ReadFile, StoreFile, NeedDeployments, DeployContract, CallContract, CheckRole,
             GrantRole, CreateThing, AlterThing, RecordThing, ClearCopy, Doing
    <2> QED
      BY <1>14, <2>1, <2>2, <2>3
  <1> QED
    BY <1>1, <1>4, <1>7, <1>12, <1>13, <1>14 DEF Next

(***************************************************************************)
(* Once the flight oracle's script has run to its end by itself, the       *)
(* current deployments of flight delay form a ring, whichever of them was  *)
(* deployed again since the script last ran: every pointer was set between *)
(* deployments that nothing has replaced meanwhile.                        *)
(***************************************************************************)
THEOREM ScriptClosesTheRing ==
    ASSUME "NaughtyPool" \notin Tasks
    PROVE  Spec => FlightRingClosed
  <1>1. ASSUME ListInv, BookInv, BackInv, RingInv, [Next]_vars,
               NEW s \in Sessions, NEW n \in Networks, ScriptEnds(s), session[s].net = n,
               ~ overlap, \A x \in excused : x[2] # "address"
        PROVE  FlightRing(n)'
    <2>1. PICK r : r = session[s]
      OBVIOUS
    <2>2. SetPointer(s) /\ OnScript(r) /\ Done(r.todo) + 1 = 11
      BY <1>1, <2>1, LastStepSets
    <2>3. Undisturbed(r, overlap, excused) /\ r.net = n
      BY <1>1, <2>1 DEF Undisturbed, ScriptEnds
    <2>4. SoFar(n, 11, saved', wire')
      <3>1. SoFar(r.net, Done(r.todo) + 1, saved', wire')
        BY <1>1, <2>1, <2>2, <2>3, ScriptSets
      <3> QED
        BY <2>2, <2>3, <3>1
    <2> QED
      BY <2>4 DEF SoFar, Ring, Pointer, PointsTo, FlightRing
  <1>2. Init => ListInv /\ BookInv /\ BackInv /\ RingInv
    BY ListInvInit, BookInvInit, BackInvInit, RingInvInit
  <1>3. ListInv /\ BookInv /\ BackInv /\ RingInv /\ [Next]_vars
            => (ListInv /\ BookInv /\ BackInv /\ RingInv)'
    BY ListInvNext, BookInvNext, BackInvNext, RingInvNext
  <1>4. ListInv /\ BookInv /\ BackInv /\ RingInv /\ [Next]_vars
            => [\A s \in Sessions, n \in Networks :
                  ScriptEnds(s) /\ session[s].net = n /\ ~ overlap
                        /\ (\A x \in excused : x[2] # "address")
                      => FlightRing(n)']_vars
    BY <1>1
  <1> QED
    BY <1>2, <1>3, <1>4, PTL DEF Spec, FlightRingClosed

(***************************************************************************)
(* How often a contract is deployed                                        *)
(*                                                                         *)
(* No program deploys one contract twice, so a contract is deployed no     *)
(* more often than sessions were started.                                  *)
(***************************************************************************)
Deploys(p) == {p[i].name : i \in {l \in 1 .. Len(p) : DeploysAt(p, l)}}

Sending(p) == IsProgram(p) /\ \A i \in 1 .. Len(p) : ~ DeploysAt(p, i)

Once(p) ==
    /\ IsProgram(p)
    /\ \A i, j \in 1 .. Len(p) :
          DeploysAt(p, i) /\ DeploysAt(p, j) /\ p[i].name = p[j].name => i = j

LEMMA SendingIsOnce ==
    ASSUME NEW p, Sending(p) PROVE Once(p)
  BY DEF Sending, Once

LEMMA OnceThenSending ==
    ASSUME NEW p, NEW q, Once(p), Sending(q), NEW r, Followed(r, p, q)
    PROVE  Once(r)
  <1>1. IsProgram(p) /\ IsProgram(q) /\ r = p \o q
    BY DEF Once, Sending, Followed
  <1>2. /\ IsProgram(r) /\ \A i \in 1 .. Len(p) : r[i] = p[i]
        /\ \A i \in 1 .. Len(r) :
              i \in 1 .. Len(p) \/ (i - Len(p) \in 1 .. Len(q) /\ r[i] = q[i - Len(p)])
    BY <1>1, Joined
  <1>3. ASSUME NEW i \in 1 .. Len(r), DeploysAt(r, i)
        PROVE  i \in 1 .. Len(p) /\ r[i] = p[i] /\ DeploysAt(p, i)
    BY <1>2, <1>3 DEF Sending, DeploysAt
  <1> QED
    BY <1>2, <1>3 DEF Once

LEMMA SendingThenOnce ==
    ASSUME NEW p, NEW q, Sending(p), Once(q), NEW r, Followed(r, p, q)
    PROVE  Once(r)
  <1>1. IsProgram(p) /\ IsProgram(q) /\ r = p \o q
    BY DEF Once, Sending, Followed
  <1>2. /\ IsProgram(r) /\ Len(p) \in Nat /\ \A i \in 1 .. Len(p) : r[i] = p[i]
        /\ \A i \in 1 .. Len(r) :
              i \in 1 .. Len(p) \/ (i - Len(p) \in 1 .. Len(q) /\ r[i] = q[i - Len(p)])
    BY <1>1, Joined
  <1>3. ASSUME NEW i \in 1 .. Len(r), DeploysAt(r, i)
        PROVE  i - Len(p) \in 1 .. Len(q) /\ r[i] = q[i - Len(p)] /\ DeploysAt(q, i - Len(p))
    BY <1>2, <1>3 DEF Sending, DeploysAt
  <1>4. ASSUME NEW i \in 1 .. Len(r), NEW j \in 1 .. Len(r), DeploysAt(r, i), DeploysAt(r, j),
               r[i].name = r[j].name
        PROVE  i = j
    <2>1. i - Len(p) = j - Len(p)
      BY <1>3, <1>4 DEF Once
    <2> QED
      BY <1>2, <2>1
  <1> QED
    BY <1>2, <1>4 DEF Once

LEMMA SendingThenSending ==
    ASSUME NEW p, NEW q, Sending(p), Sending(q), NEW r, Followed(r, p, q)
    PROVE  Sending(r)
  <1>1. IsProgram(p) /\ IsProgram(q) /\ r = p \o q
    BY DEF Sending, Followed
  <1>2. /\ IsProgram(r) /\ \A i \in 1 .. Len(p) : r[i] = p[i]
        /\ \A i \in 1 .. Len(r) :
              i \in 1 .. Len(p) \/ (i - Len(p) \in 1 .. Len(q) /\ r[i] = q[i - Len(p)])
    BY <1>1, Joined
  <1> QED
    BY <1>2 DEF Sending, DeploysAt

\* Steps that deploy nothing, and programs of a few of them.
NoDeploy(st) == st.op \notin {"deploy", "save"}

LEMMA SendingSteps ==
    /\ \A f : NoDeploy(Read(f)) /\ NoDeploy(Store(f)) /\ NoDeploy(Need(f))
    /\ \A x : NoDeploy(Call(x)) /\ NoDeploy(Attach(x))
    /\ \A x, y, z : NoDeploy(Set(x, y, z)) /\ NoDeploy(Create(x, y, z)) /\ NoDeploy(Alter(x, y, z))
    /\ \A x, y, z : NoDeploy(RecordNew(x, y, z)) /\ NoDeploy(RecordChange(x, y, z))
    /\ \A x, y : NoDeploy(Check(x, y))
    /\ \A a, b, c : /\ NoDeploy([op |-> "checkRole", role |-> a, token |-> b, entry |-> c])
                    /\ NoDeploy([op |-> "grantRole", role |-> a, token |-> b, entry |-> c])
    /\ \A f, g : NoDeploy([op |-> "clear", file |-> f, as |-> g])
  BY DEF NoDeploy, Read, Store, Need, Call, Attach, Set, Create, Alter, RecordNew, RecordChange,
         Record, Check

LEMMA SendingTuples ==
    /\ Sending(<<>>)
    /\ \A a : NoDeploy(a) => Sending(<<a>>)
    /\ \A a, b : NoDeploy(a) /\ NoDeploy(b) => Sending(<<a, b>>)
    /\ \A a, b, c : NoDeploy(a) /\ NoDeploy(b) /\ NoDeploy(c) => Sending(<<a, b, c>>)
    /\ \A a, b, c, d : NoDeploy(a) /\ NoDeploy(b) /\ NoDeploy(c) /\ NoDeploy(d)
                          => Sending(<<a, b, c, d>>)
    /\ \A a, b, c, d, e : NoDeploy(a) /\ NoDeploy(b) /\ NoDeploy(c) /\ NoDeploy(d) /\ NoDeploy(e)
                             => Sending(<<a, b, c, d, e>>)
    /\ \A a, b, c, d, e, f :
          NoDeploy(a) /\ NoDeploy(b) /\ NoDeploy(c) /\ NoDeploy(d) /\ NoDeploy(e) /\ NoDeploy(f)
             => Sending(<<a, b, c, d, e, f>>)
  <1>0. Sending(<<>>)
    BY NothingLeft DEF Sending
  <1>1. ASSUME NEW a, NoDeploy(a) PROVE Sending(<<a>>)
    BY <1>1, TupleIsProgram DEF Sending, NoDeploy, DeploysAt
  <1>2. ASSUME NEW a, NEW b, NoDeploy(a), NoDeploy(b) PROVE Sending(<<a, b>>)
    BY <1>2, TupleIsProgram DEF Sending, NoDeploy, DeploysAt
  <1>3. ASSUME NEW a, NEW b, NEW c, NoDeploy(a), NoDeploy(b), NoDeploy(c) PROVE Sending(<<a, b, c>>)
    BY <1>3, TupleIsProgram DEF Sending, NoDeploy, DeploysAt
  <1>4. ASSUME NEW a, NEW b, NEW c, NEW d, NoDeploy(a), NoDeploy(b), NoDeploy(c), NoDeploy(d)
        PROVE  Sending(<<a, b, c, d>>)
    BY <1>4, TupleIsProgram DEF Sending, NoDeploy, DeploysAt
  <1>5. ASSUME NEW a, NEW b, NEW c, NEW d, NEW e,
               NoDeploy(a), NoDeploy(b), NoDeploy(c), NoDeploy(d), NoDeploy(e)
        PROVE  Sending(<<a, b, c, d, e>>)
    BY <1>5, TupleIsProgram DEF Sending, NoDeploy, DeploysAt
  <1>6. ASSUME NEW a, NEW b, NEW c, NEW d, NEW e, NEW f,
               NoDeploy(a), NoDeploy(b), NoDeploy(c), NoDeploy(d), NoDeploy(e), NoDeploy(f)
        PROVE  Sending(<<a, b, c, d, e, f>>)
    BY <1>6, TupleIsProgram DEF Sending, NoDeploy, DeploysAt
  <1> QED
    BY <1>0, <1>1, <1>2, <1>3, <1>4, <1>5, <1>6

LEMMA DistinctIsOnce ==
    /\ \A a : Once(<<a>>)
    /\ \A a, b : a.name # b.name => Once(<<a, b>>)
    /\ \A a, b, c : a.name # b.name /\ a.name # c.name /\ b.name # c.name => Once(<<a, b, c>>)
  <1>1. ASSUME NEW a PROVE Once(<<a>>)
    BY TupleIsProgram DEF Once
  <1>2. ASSUME NEW a, NEW b, a.name # b.name PROVE Once(<<a, b>>)
    BY <1>2, TupleIsProgram DEF Once
  <1>3. ASSUME NEW a, NEW b, NEW c, a.name # b.name, a.name # c.name, b.name # c.name
        PROVE  Once(<<a, b, c>>)
    BY <1>3, TupleIsProgram DEF Once
  <1> QED
    BY <1>1, <1>2, <1>3

LEMMA ScriptIsOnce ==
    ASSUME NEW names, NEW deploys, Once(deploys) PROVE Once(Script(names, deploys))
  <1>1. PICK first, needs, last :
           /\ first = <<Read("address")>> /\ last = <<Store("address")>>
           /\ needs = IF names = {} THEN <<>> ELSE <<Need(names)>>
    OBVIOUS
  <1>2. PICK a, b, c : a = first \o needs /\ b = a \o deploys /\ c = b \o last
    OBVIOUS
  <1>3. Followed(a, first, needs) /\ Followed(b, a, deploys) /\ Followed(c, b, last)
    BY <1>2 DEF Followed
  <1>4. Sending(first) /\ Sending(needs) /\ Sending(last)
    BY <1>1, SendingSteps, SendingTuples
  <1>5. Sending(a)
    BY <1>3, <1>4, SendingThenSending
  <1>6. Once(b)
    BY <1>3, <1>5, SendingThenOnce
  <1>7. Once(c)
    BY <1>3, <1>4, <1>6, OnceThenSending
  <1> QED
    BY <1>1, <1>2, <1>7 DEF Script

LEMMA AppendOnce ==
    /\ \A p, q : Once(p) /\ Sending(q) => Once(p \o q)
    /\ \A p, q : Sending(p) /\ Sending(q) => Sending(p \o q)
  <1>1. ASSUME NEW p, NEW q, Once(p), Sending(q) PROVE Once(p \o q)
    <2>1. PICK r : r = p \o q
      OBVIOUS
    <2>2. Followed(r, p, q)
      BY <2>1 DEF Followed
    <2> QED
      BY <1>1, <2>1, <2>2, OnceThenSending
  <1>2. ASSUME NEW p, NEW q, Sending(p), Sending(q) PROVE Sending(p \o q)
    <2>1. PICK r : r = p \o q
      OBVIOUS
    <2>2. Followed(r, p, q)
      BY <2>1 DEF Followed
    <2> QED
      BY <1>2, <2>1, <2>2, SendingThenSending
  <1> QED
    BY <1>1, <1>2

LEMMA ScriptsDeployOnce ==
    ASSUME NEW net, NEW x \in ScriptOf(net) PROVE Once(x.steps)
  <1>1. /\ \A a, b, c : Sending(AddMinterBurner(a, b, c))
        /\ Sending(SetVRFMock) /\ Sending(SetTreasury) /\ Sending(SetVRF)
        /\ Sending(SetFDPolicyFlow) /\ Sending(SetFDPolicyToken)
        /\ Sending(SetFDOracle) /\ Sending(SetFDInsurancePool)
        /\ Sending(SetIncomeMakerInFactory)
    BY SendingSteps, SendingTuples
       DEF AddMinterBurner, SetVRFMock, SetTreasury, SetVRF, SetFDPolicyFlow, SetFDPolicyToken,
           SetFDOracle, SetFDInsurancePool, SetIncomeMakerInFactory
  <1>2. Once(Deploy00ProxyAdmin)
    <2> DEFINE st == DeployTo({"address", "proxyAdmin"}, "ProxyAdmin", "ProxyAdmin", "none", NoArgs)
               p == <<Read("address"), Read("proxyAdmin"), st, Store("address"),
                      Store("proxyAdmin")>>
    <2>1. /\ p[1] = Read("address") /\ p[2] = Read("proxyAdmin") /\ p[3] = st
          /\ p[4] = Store("address") /\ p[5] = Store("proxyAdmin") /\ Len(p) = 5
          /\ IsProgram(p)
      BY TupleIsProgram
    <2> HIDE DEF p, st
    <2>2. \A i \in 1 .. Len(p) : DeploysAt(p, i) => i = 3
      <3>1. \A i \in 1 .. 5 : i \in {1, 2, 3, 4, 5}
        OBVIOUS
      <3>2. \A i \in {1, 2, 4, 5} : NoDeploy(p[i])
        BY <2>1, SendingSteps
      <3> QED
        BY <2>1, <3>1, <3>2 DEF DeploysAt, NoDeploy
    <2>3. Once(p)
      BY <2>1, <2>2 DEF Once
    <2> QED
      BY <2>3 DEF Deploy00ProxyAdmin, p, st
  <1>3. \A names, deploys : Once(deploys) => Once(Script(names, deploys))
    BY ScriptIsOnce
  <1>4. \A a, b, c, d :
           /\ Plain(a, b).name = a /\ Proxied(a, b).name = a /\ Save(a).name = a
           /\ ProxiedAs(a, b, c).name = a
    BY DEF Plain, Proxied, Save, ProxiedAs, DeployTo
  <1>5. /\ Once(Deploy02EmergencyPool) /\ Once(Deploy03Farming) /\ Once(Deploy07PolicyFlow)
        /\ Once(Deploy09PriceGetter) /\ Once(Deploy10NaughtyPrice(net)) /\ Once(Deploy11Staking)
        /\ Once(Deploy12VeDEG) /\ Once(Deploy13IncomeSharingVault)
    BY <1>3, DistinctIsOnce
       DEF Deploy02EmergencyPool, Deploy03Farming, Deploy07PolicyFlow, Deploy09PriceGetter,
           Deploy10NaughtyPrice, Deploy11Staking, Deploy12VeDEG, Deploy13IncomeSharingVault
  <1>6. /\ Once(Deploy15ILM) /\ Once(Deploy16IDOPriceGetter) /\ Once(Deploy17DoubleRewarder)
        /\ Once(Deploy18MockERC20) /\ Once(Deploy19Shield)
        /\ Once(Deploy20IncomeSharingCompensate) /\ Once(Deploy21ArbitraryPriceGetter)
    BY <1>3, DistinctIsOnce
       DEF Deploy15ILM, Deploy16IDOPriceGetter, Deploy17DoubleRewarder, Deploy18MockERC20,
           Deploy19Shield, Deploy20IncomeSharingCompensate, Deploy21ArbitraryPriceGetter
  <1>7. Once(Deploy01Tokens(net)) /\ Once(Deploy06FlightDelay)
    BY <1>3, <1>4, DistinctIsOnce DEF Deploy01Tokens, Deploy06FlightDelay
  <1>8. Once(Deploy04PurchaseIncentive(net))
    BY <1>1, <1>3, DistinctIsOnce, AppendOnce, SendingTuples DEF Deploy04PurchaseIncentive
  <1>9. Once(Deploy05LuckyBox(net))
    BY <1>1, <1>3, <1>4, DistinctIsOnce, AppendOnce, SendingTuples DEF Deploy05LuckyBox
  <1>10. Once(Deploy08FDOracle) /\ Once(Deploy14IncomeMaker)
    BY <1>1, <1>3, DistinctIsOnce, AppendOnce DEF Deploy08FDOracle, Deploy14IncomeMaker
  <1> QED
    BY <1>2, <1>5, <1>6, <1>7, <1>8, <1>9, <1>10 DEF ScriptOf, Named

LEMMA TasksDeployNothing ==
    ASSUME NEW net, NEW x \in AllTasks(net) PROVE Sending(x.steps)
  <1>1. /\ \A a : NoDeploy(a) => Sending(<<a>>)
        /\ \A a, b : NoDeploy(a) /\ NoDeploy(b) => Sending(<<a, b>>)
        /\ \A a, b, c : NoDeploy(a) /\ NoDeploy(b) /\ NoDeploy(c)
                           => Sending(<<a, b, c>>)
    BY SendingTuples
  <1>2. \A target : Sending(Send(target))
    BY <1>1, SendingSteps DEF Send
  <1>3. \A target, tasks : \A y \in Sends(target, tasks) : Sending(y.steps)
    BY <1>2 DEF Sends, Named
  <1>4. \A a, b, c : Sending(AddMinterBurner(a, b, c))
    BY <1>1, SendingSteps DEF AddMinterBurner
  <1>5. /\ Sending(SetVRFMock) /\ Sending(SetTreasury) /\ Sending(SetVRF)
        /\ Sending(SetFDPolicyFlow) /\ Sending(SetFDPolicyToken)
        /\ Sending(SetFDOracle) /\ Sending(SetFDInsurancePool)
        /\ Sending(SetIncomeMakerInFactory)
    BY <1>1, SendingSteps
       DEF SetVRFMock, SetTreasury, SetVRF, SetFDPolicyFlow, SetFDPolicyToken,
           SetFDOracle, SetFDInsurancePool, SetIncomeMakerInFactory
  <1>6. ASSUME x \in NaughtyPriceWiring \cup CoreIncomeWiring \cup AddPriceFeed
                      \cup ArbitraryWiring \cup LotteryWiring \cup SetOperator
                      \cup FlightWiring \cup IncomeWiring
        PROVE  Sending(x.steps)
    BY <1>1, <1>2, <1>5, <1>6, SendingSteps
       DEF NaughtyPriceWiring, CoreIncomeWiring, AddPriceFeed, ArbitraryWiring,
           LotteryWiring, SetOperator, FlightWiring, IncomeWiring, Named
  <1>7. ASSUME x \in FarmingTasks \cup DoubleRewardTasks \cup TokenRoles \cup MintTasks(net)
                      \cup LotteryRoundTasks \cup RequestRandom \cup LotteryTicketTasks
                      \cup PurchaseIncentiveTasks
        PROVE  Sending(x.steps)
    BY <1>1, <1>2, <1>3, <1>4, <1>7, SendingSteps
       DEF FarmingTasks, DoubleRewardTasks, TokenRoles, MintTasks, LotteryRoundTasks,
           RequestRandom, LotteryTicketTasks, PurchaseIncentiveTasks, Named
  <1>8. ASSUME x \in IncomePoolTasks \cup UpdateLastRewardBalance \cup ConvertIncome
                      \cup VeDEGTasks \cup VeDEGLockTasks \cup FlightOracleTasks
                      \cup SetFrozenTime \cup SignerTasks \cup PolicyFlowTasks \cup CoreTasks
        PROVE  Sending(x.steps)
    BY <1>1, <1>2, <1>3, <1>8, SendingSteps
       DEF IncomePoolTasks, UpdateLastRewardBalance, ConvertIncome, VeDEGTasks,
           VeDEGLockTasks, FlightOracleTasks, SetFrozenTime, SignerTasks, PolicyFlowTasks,
           CoreTasks, Named
  <1>9. ASSUME x \in AddStablecoin \cup NPUserAction(net) \cup PriceFeedTasks
                      \cup SetIDOPrice \cup ArbitraryFeedTasks \cup StakingTasks
                      \cup ShieldTasks \cup EmergencyPoolTasks \cup ILMTasks \cup ProxyTasks
        PROVE  Sending(x.steps)
    BY <1>1, <1>2, <1>3, <1>9, SendingSteps
       DEF AddStablecoin, NPUserAction, PriceFeedTasks, SetIDOPrice, ArbitraryFeedTasks,
           StakingTasks, ShieldTasks, EmergencyPoolTasks, ILMTasks, ProxyTasks, Named
  <1>10. ASSUME x \in ClearRecord PROVE Sending(x.steps)
    <2>1. \A f, g : Sending(Clear(f, g))
      BY <1>1, SendingSteps DEF Clear
    <2> QED
      BY <1>10, <2>1 DEF ClearRecord, Named
  <1> QED
    BY <1>6, <1>7, <1>8, <1>9, <1>10 DEF AllTasks, TaskOf

LEMMA ListTasksDeployNothing ==
    ASSUME NEW p \in ListTasks PROVE Sending(p)
  <1>1. \A a, b : Sending(DeployNPToken(a, b))
    BY SendingSteps, SendingTuples DEF DeployNPToken
  <1>2. \A a : Sending(DeployNPPool(a)) /\ Sending(StartILM(a)) /\ Sending(StopILM(a))
    BY SendingSteps, SendingTuples DEF DeployNPPool, StartILM, StopILM
  <1>3. \A a : Sending(AddFarmingPool(a)) /\ Sending(SetFarmingPoolDegisReward(a))
    BY SendingSteps, SendingTuples DEF AddFarmingPool, SetFarmingPoolDegisReward
  <1> QED
    BY <1>1, <1>2, <1>3 DEF ListTasks

LEMMA JobsDeployOnce ==
    ASSUME NEW net, NEW j \in Jobs(net) PROVE Once(j.steps)
  <1>1. \/ j.steps \in ListTasks
        \/ \E x \in AllTasks(net) : j.steps = x.steps
        \/ \E x \in ScriptOf(net) : j.steps = x.steps
    BY DEF Jobs
  <1> QED
    BY <1>1, ListTasksDeployNothing, TasksDeployNothing, ScriptsDeployOnce, SendingIsOnce

(***************************************************************************)
(* The number of a deployment, and of the sessions that may yet deploy it, *)
(* is within the number of launches.                                       *)
(***************************************************************************)
Gen(sv, n, x) == IF x \in DOMAIN sv[n] THEN sv[n][x].at.gen ELSE 0

Coming(ss, n, x) == {s \in Sessions : ss[s].net = n /\ x \in Deploys(ss[s].todo)}

Within(sv, ss, l) ==
    \A n \in Networks : \A x : Gen(sv, n, x) + Cardinality(Coming(ss, n, x)) <= 1 + l

Numbered(sv) ==
    \A n \in Networks : \A x \in DOMAIN sv[n] : sv[n][x].at.of = x /\ sv[n][x].at.gen \in Nat \ {0}

GenInv ==
    /\ launches \in 0 .. MaxLaunches /\ crashes \in 0 .. MaxCrashes
    /\ Numbered(saved)
    /\ \A s \in Sessions : Once(session[s].todo)
    /\ Within(saved, session, launches)

LEMMA ComingIsFinite ==
    ASSUME NEW ss, NEW n, NEW x
    PROVE  IsFiniteSet(Coming(ss, n, x)) /\ Cardinality(Coming(ss, n, x)) \in Nat
  <1>1. Coming(ss, n, x) \in SUBSET Sessions
    BY DEF Coming
  <1> QED
    BY <1>1, BoundsAssumption, FS_Subset, FS_CardinalityType

LEMMA FewerAreComing ==
    ASSUME NEW ss, NEW ss2, NEW n, NEW x, Coming(ss2, n, x) \subseteq Coming(ss, n, x)
    PROVE  Cardinality(Coming(ss2, n, x)) <= Cardinality(Coming(ss, n, x))
  BY ComingIsFinite, FS_Subset

LEMMA GenIsNat ==
    ASSUME NEW sv, Numbered(sv), NEW n \in Networks, NEW x PROVE Gen(sv, n, x) \in Nat
  BY DEF Numbered, Gen

LEMMA TailDeploysLess ==
    ASSUME NEW p, Once(p), p # <<>>
    PROVE  /\ Once(Tail(p)) /\ Deploys(Tail(p)) \subseteq Deploys(p)
           /\ DeploysAt(p, 1) => p[1].name \in Deploys(p) /\ p[1].name \notin Deploys(Tail(p))
  <1>1. PICK q : q = Tail(p)
    OBVIOUS
  <1>2. /\ IsProgram(q) /\ Len(p) \in Nat /\ Len(p) >= 1 /\ Len(q) = Len(p) - 1
        /\ \A i \in 1 .. Len(q) : q[i] = p[i + 1]
    BY <1>1, TailOf DEF Once
  <1>3. ASSUME NEW i \in 1 .. Len(q), DeploysAt(q, i)
        PROVE  i + 1 \in 1 .. Len(p) /\ DeploysAt(p, i + 1) /\ q[i].name = p[i + 1].name
    BY <1>2, <1>3 DEF DeploysAt
  <1>4. Once(q)
    <2>1. ASSUME NEW i \in 1 .. Len(q), NEW j \in 1 .. Len(q), DeploysAt(q, i), DeploysAt(q, j),
                 q[i].name = q[j].name
          PROVE  i = j
      <3>1. i + 1 = j + 1
        BY <1>3, <2>1 DEF Once
      <3> QED
        BY <3>1
    <2> QED
      BY <1>2, <2>1 DEF Once
  <1>5. Deploys(q) \subseteq Deploys(p)
    BY <1>3 DEF Deploys
  <1>6. ASSUME DeploysAt(p, 1) PROVE p[1].name \in Deploys(p) /\ p[1].name \notin Deploys(q)
    <2>1. 1 \in 1 .. Len(p)
      BY <1>2
    <2>2. ASSUME NEW i \in 1 .. Len(q), DeploysAt(q, i), q[i].name = p[1].name PROVE FALSE
      <3>1. i + 1 = 1
        BY <1>3, <1>6, <2>1, <2>2 DEF Once
      <3> QED
        BY <3>1
    <2> QED
      BY <1>6, <2>1, <2>2 DEF Deploys
  <1> QED
    BY <1>1, <1>4, <1>5, <1>6

\* A step of one session: what it has yet to deploy is no more than before.
LEMMA GenStep ==
    ASSUME BookInv, GenInv, NEW s \in Sessions, NEW v, session' = [session EXCEPT ![s] = v],
           v.net = session[s].net \/ Deploys(v.todo) = {},
           Deploys(v.todo) \subseteq Deploys(session[s].todo), Once(v.todo),
           saved' = saved, launches' = launches, crashes' \in 0 .. MaxCrashes
    PROVE  GenInv'
  <1>1. DOMAIN session = Sessions
    BY DEF BookInv, AllOrderly
  <1>2. \A t \in Sessions : Once(session'[t].todo)
    BY <1>1 DEF GenInv
  <1>3. ASSUME NEW n \in Networks, NEW x
        PROVE  Gen(saved, n, x) + Cardinality(Coming(session', n, x)) <= 1 + launches
    <2>1. Coming(session', n, x) \subseteq Coming(session, n, x)
      BY <1>1 DEF Coming
    <2>2. Cardinality(Coming(session', n, x)) <= Cardinality(Coming(session, n, x))
      BY <2>1, FewerAreComing
    <2>3. /\ Cardinality(Coming(session', n, x)) \in Nat
          /\ Cardinality(Coming(session, n, x)) \in Nat
      BY ComingIsFinite
    <2>4. Gen(saved, n, x) \in Nat /\ launches \in Nat
      BY GenIsNat DEF GenInv
    <2>5. Gen(saved, n, x) + Cardinality(Coming(session, n, x)) <= 1 + launches
      BY DEF GenInv, Within
    <2> QED
      BY <2>2, <2>3, <2>4, <2>5
  <1> QED
    BY <1>2, <1>3 DEF GenInv, Within

LEMMA NothingToDeploy ==
    Once(Idle.todo) /\ Deploys(Idle.todo) = {}
  <1>1. Len(Idle.todo) = 0 /\ IsProgram(Idle.todo)
    BY NothingLeft
  <1> QED
    BY <1>1 DEF Once, Deploys

LEMMA AfterDeploysLess ==
    ASSUME NEW r, Once(r.todo), r.todo # <<>>, NEW u, SameJob(r, u)
    PROVE  /\ Once(After(u).todo) /\ Deploys(After(u).todo) \subseteq Deploys(Tail(r.todo))
           /\ Deploys(Tail(r.todo)) \subseteq Deploys(r.todo)
           /\ After(u).net = r.net \/ Deploys(After(u).todo) = {}
  <1>1. Once(Tail(r.todo)) /\ Deploys(Tail(r.todo)) \subseteq Deploys(r.todo)
    BY TailDeploysLess
  <1>2. DOMAIN u = Fields /\ u.todo = r.todo /\ u.net = r.net
    BY DEF SameJob
  <1>3. CASE Len(u.todo) = 1
    BY <1>1, <1>2, <1>3, AfterIs, NothingToDeploy
  <1>4. CASE Len(u.todo) # 1
    BY <1>1, <1>2, <1>4, AfterIs
  <1> QED
    BY <1>3, <1>4

LEMMA GenAdvance ==
    ASSUME BookInv, GenInv, NEW s \in Alive, NEW u, Advance(s, u), SameJob(session[s], u),
           saved' = saved, launches' = launches, crashes' = crashes
    PROVE  GenInv'
  <1>1. PICK r : r = session[s] /\ SameJob(r, u) /\ r.todo # <<>> /\ Once(r.todo) /\ s \in Sessions
    BY DEF Alive, GenInv
  <1>2. PICK v : v = After(u)
    OBVIOUS
  <1>3. /\ Once(v.todo) /\ Deploys(v.todo) \subseteq Deploys(r.todo)
        /\ v.net = r.net \/ Deploys(v.todo) = {}
    BY <1>1, <1>2, AfterDeploysLess
  <1>4. session' = [session EXCEPT ![s] = v]
    BY <1>2 DEF Advance, After
  <1>5. crashes' \in 0 .. MaxCrashes
    BY DEF GenInv
  <1> QED
    BY <1>1, <1>3, <1>4, <1>5, GenStep

LEMMA GenSteps ==
    ASSUME ListInv, BookInv, GenInv, NEW s \in Sessions,
           \/ ReadFile(s) \/ StoreFile(s) \/ NeedDeployments(s) \/ SetPointer(s)
           \/ CallContract(s) \/ GrantRole(s) \/ CreateThing(s) \/ AlterThing(s)
           \/ RecordThing(s) \/ ClearCopy(s)
    PROVE  GenInv'
  <1>1. s \in Alive /\ saved' = saved /\ launches' = launches /\ crashes' = crashes
    BY DEF ReadFile, StoreFile, NeedDeployments, SetPointer, CallContract, GrantRole,
           CreateThing, AlterThing, RecordThing, ClearCopy, Doing, onChain, Bookkeeping, History
  <1>2. PICK u : Advance(s, u) /\ SameJob(session[s], u)
    BY <1>1, StepsAdvance
  <1> QED
    BY <1>1, <1>2, GenAdvance

LEMMA GenEndSteps ==
    ASSUME ListInv, BookInv, GenInv, NEW s \in Sessions, CheckRole(s) \/ Throw(s) \/ Crash(s)
    PROVE  GenInv'
  <1>1. s \in Alive /\ saved' = saved /\ launches' = launches
    BY DEF CheckRole, Throw, Crash, End, Doing, onChain, Bookkeeping
  <1>2. crashes' \in 0 .. MaxCrashes
    BY BoundsAssumption DEF CheckRole, Throw, Crash, Bookkeeping, GenInv
  <1>3. CASE session' = [session EXCEPT ![s] = Idle]
    <2>1. Once(Idle.todo) /\ Deploys(Idle.todo) = {}
      BY NothingToDeploy
    <2> QED
      BY <1>1, <1>2, <1>3, <2>1, GenStep
  <1>4. CASE CheckRole(s) /\ Advance(s, session[s])
    <2>1. DOMAIN session[s] = Fields /\ crashes' = crashes
      BY <1>1, <1>4, AtWork DEF CheckRole, Bookkeeping
    <2>2. SameJob(session[s], session[s])
      BY <2>1, SameJobIs
    <2> QED
      BY <1>1, <1>4, <2>1, <2>2, GenAdvance
  <1> QED
    BY <1>3, <1>4 DEF CheckRole, Throw, Crash, End

\* A deployment counts one up, and the session will not deploy it again.
LEMMA GenDeployStep ==
    ASSUME ListInv, BookInv, GenInv, NEW s \in Sessions, DeployContract(s) PROVE GenInv'
  <1> DEFINE n == session[s].net
             new == IF Step(s).op = "save" THEN ~ Known(s) ELSE IsNew(s)
             at == IF ~ new THEN Deployment(s).at
                   ELSE Address(Step(s).name, IF Known(s) THEN Deployment(s).at.gen + 1 ELSE 1)
             args == IF Step(s).op = "save" THEN Empty
                     ELSE IF NeedsArgs(s) THEN ArgValues(s) ELSE Deployment(s).args
             dep == [at |-> at, code |-> VersionOf(Step(s).name), args |-> args]
  <1>1. /\ s \in Alive /\ Step(s).op \in {"deploy", "save"}
        /\ launches' = launches /\ crashes' = crashes
        /\ saved' = [saved EXCEPT ![n] = Put(@, Step(s).name, dep)]
    <2>1. saved' = [saved EXCEPT ![n] = Put(@, Step(s).name, dep)]
      BY Zenon DEF DeployContract
    <2>2. s \in Alive /\ Step(s).op \in {"deploy", "save"}
          /\ launches' = launches /\ crashes' = crashes
      BY Zenon DEF DeployContract, Doing, Bookkeeping
    <2> QED
      BY <2>1, <2>2
  <1>2. PICK r, x, m, p, k :
           /\ r = session[s] /\ x = Step(s).name /\ m = r.net /\ p = r.todo /\ k = saved[m]
           /\ p # <<>> /\ Step(s) = p[1] /\ m \in Networks /\ Once(p)
    BY <1>1, AtWorkOnBook DEF GenInv
  <1>3. PICK u : Advance(s, u) /\ SameJob(r, u)
    BY <1>1, <1>2, StepsAdvance
  <1>4. PICK v : v = After(u)
    OBVIOUS
  <1>5. /\ session' = [session EXCEPT ![s] = v] /\ Once(v.todo)
        /\ Deploys(v.todo) \subseteq Deploys(Tail(p)) /\ Deploys(Tail(p)) \subseteq Deploys(p)
        /\ v.net = m \/ Deploys(v.todo) = {}
    <2>1. Once(r.todo) /\ r.todo # <<>> /\ SameJob(r, u)
      BY <1>2, <1>3
    <2>2. /\ Once(v.todo) /\ Deploys(v.todo) \subseteq Deploys(Tail(r.todo))
          /\ Deploys(Tail(r.todo)) \subseteq Deploys(r.todo)
          /\ v.net = r.net \/ Deploys(v.todo) = {}
      BY <1>4, <2>1, AfterDeploysLess
    <2>3. session' = [session EXCEPT ![s] = v]
      BY <1>3, <1>4 DEF Advance, After
    <2> QED
      BY <1>2, <2>2, <2>3
  <1>6. x \in Deploys(p) /\ x \notin Deploys(Tail(p))
    <2>1. DeploysAt(p, 1)
      BY <1>1, <1>2 DEF DeploysAt
    <2> QED
      BY <1>2, <2>1, TailDeploysLess
  <1>7. PICK d : d = dep /\ d.at = at
    <2>1. dep.at = at
      OBVIOUS
    <2> HIDE DEF dep, at
    <2> QED
      BY <2>1
  <1>8. /\ DOMAIN saved = Networks /\ DOMAIN session = Sessions /\ Numbered(saved)
        /\ Within(saved, session, launches) /\ launches \in Nat
    BY DEF BookInv, AllOrderly, GenInv
  <1>9. /\ d.at.of = x /\ d.at.gen \in Nat \ {0}
        /\ x \in DOMAIN k => d.at.gen <= k[x].at.gen + 1
        /\ x \notin DOMAIN k => d.at.gen = 1
    <2>1. Known(s) <=> x \in DOMAIN k
      BY <1>2 DEF Known, Has
    <2>2. x \in DOMAIN k => /\ Deployment(s) = k[x] /\ k[x].at.of = x
                            /\ k[x].at.gen \in Nat \ {0}
      BY <1>2, <1>8 DEF Deployment, Numbered
    <2>3. ~ Known(s) => new
      BY DEF IsNew
    <2>4. at = IF ~ new THEN Deployment(s).at
               ELSE Address(x, IF Known(s) THEN Deployment(s).at.gen + 1 ELSE 1)
      BY <1>2
    <2> HIDE DEF new, at
    <2>5. CASE ~ new
      BY <1>7, <2>1, <2>2, <2>3, <2>4, <2>5
    <2>6. CASE new /\ x \in DOMAIN k
      <3>1. at = Address(x, k[x].at.gen + 1)
        BY <2>1, <2>2, <2>4, <2>6
      <3>2. at.of = x /\ at.gen = k[x].at.gen + 1
        BY <3>1 DEF Address
      <3> QED
        BY <1>7, <2>2, <2>6, <3>2
    <2>7. CASE new /\ x \notin DOMAIN k
      <3>1. at = Address(x, 1)
        BY <2>1, <2>4, <2>7
      <3>2. at.of = x /\ at.gen = 1
        BY <3>1 DEF Address
      <3> QED
        BY <1>7, <2>7, <3>2
    <2> QED
      BY <2>5, <2>6, <2>7
  <1> HIDE DEF dep, at, new, args
  <1>10. /\ saved'[m] = Put(k, x, d)
         /\ \A o \in Networks : o # m => saved'[o] = saved[o]
    BY <1>1, <1>2, <1>7, <1>8
  <1>11. Numbered(saved')
    <2>1. ASSUME NEW o \in Networks, NEW y \in DOMAIN saved'[o]
          PROVE  saved'[o][y].at.of = y /\ saved'[o][y].at.gen \in Nat \ {0}
      <3>1. CASE o = m /\ y = x
        BY <1>9, <1>10, <2>1, <3>1 DEF Put
      <3>2. CASE o = m /\ y # x
        BY <1>2, <1>8, <1>10, <2>1, <3>2 DEF Put, Numbered
      <3>3. CASE o # m
        BY <1>8, <1>10, <2>1, <3>3 DEF Numbered
      <3> QED
        BY <3>1, <3>2, <3>3
    <2> QED
      BY <2>1 DEF Numbered
  <1>12. \A t \in Sessions : Once(session'[t].todo)
    BY <1>5, <1>8 DEF GenInv
  <1>13. ASSUME NEW o \in Networks, NEW y
         PROVE  Gen(saved', o, y) + Cardinality(Coming(session', o, y)) <= 1 + launches
    <2>1. PICK c, c2 : c = Coming(session, o, y) /\ c2 = Coming(session', o, y)
      OBVIOUS
    <2>2. /\ IsFiniteSet(c) /\ Cardinality(c) \in Nat /\ IsFiniteSet(c2)
          /\ Cardinality(c2) \in Nat
      BY <2>1, ComingIsFinite
    <2>3. /\ Gen(saved, o, y) + Cardinality(c) <= 1 + launches
          /\ Gen(saved, o, y) \in Nat /\ Gen(saved', o, y) \in Nat
      BY <1>8, <1>11, <2>1, GenIsNat DEF Within
    <2>4. c2 \subseteq c
      <3>1. ASSUME NEW t \in c2 PROVE t \in c
        <4>1. t \in Sessions /\ session'[t].net = o /\ y \in Deploys(session'[t].todo)
          BY <2>1, <3>1 DEF Coming
        <4>2. CASE t = s
          BY <1>2, <1>5, <1>8, <2>1, <4>1, <4>2 DEF Coming
        <4>3. CASE t # s
          BY <1>5, <1>8, <2>1, <4>1, <4>3 DEF Coming
        <4> QED
          BY <4>2, <4>3
      <3> QED
        BY <3>1
    <2>5. CASE o = m /\ y = x
      <3>1. s \in c
        BY <1>2, <1>6, <2>1, <2>5 DEF Coming
      <3>2. s \notin c2
        BY <1>5, <1>6, <1>8, <2>1, <2>5 DEF Coming
      <3>3. c2 \subseteq c \ {s}
        BY <2>4, <3>2
      <3>4. Cardinality(c \ {s}) = Cardinality(c) - 1 /\ IsFiniteSet(c \ {s})
        BY <2>2, <3>1, FS_RemoveElement
      <3>5. Cardinality(c2) <= Cardinality(c) - 1
        <4>1. PICK b : b = c \ {s}
          OBVIOUS
        <4>2. IsFiniteSet(b) /\ c2 \in SUBSET b
          BY <3>3, <3>4, <4>1
        <4>3. Cardinality(c2) <= Cardinality(b)
          BY <4>2, FS_Subset
        <4> QED
          BY <3>4, <4>1, <4>3
      <3>6. Gen(saved', o, y) = d.at.gen
        BY <1>10, <2>5 DEF Gen, Put
      <3>7. Gen(saved', o, y) <= Gen(saved, o, y) + 1
        BY <1>2, <1>9, <2>5, <3>6 DEF Gen
      <3> QED
        BY <1>8, <2>1, <2>2, <2>3, <3>5, <3>7
    <2>6. CASE ~ (o = m /\ y = x)
      <3>1. Gen(saved', o, y) = Gen(saved, o, y)
        BY <1>2, <1>10, <2>6 DEF Gen, Put
      <3>2. Cardinality(c2) <= Cardinality(c)
        <4>1. c2 \in SUBSET c
          BY <2>4
        <4> QED
          BY <2>2, <4>1, FS_Subset
      <3> QED
        BY <1>8, <2>1, <2>2, <2>3, <3>1, <3>2
    <2> QED
      BY <2>1, <2>5, <2>6
  <1> QED
    BY <1>1, <1>11, <1>12, <1>13 DEF GenInv, Within

\* A launch counts one up, and adds one session to those that may deploy.
LEMMA GenLaunchStep ==
    ASSUME BookInv, GenInv, NEW s \in Sessions, Launch(s) PROVE GenInv'
  <1>1. PICK n \in Networks : \E j \in Jobs(n) :
           session' = [t \in Sessions |->
                 IF t = s
                   THEN [Idle EXCEPT !.net = n, !.job = j.tag, !.todo = j.steps,
                                     !.seen = Preloaded(j.steps), !.alone = (Alive = {})]
                   ELSE [session[t] EXCEPT !.alone = (t \notin Alive)]]
    BY DEF Launch
  <1>2. PICK j \in Jobs(n) :
           session' = [t \in Sessions |->
                 IF t = s
                   THEN [Idle EXCEPT !.net = n, !.job = j.tag, !.todo = j.steps,
                                     !.seen = Preloaded(j.steps), !.alone = (Alive = {})]
                   ELSE [session[t] EXCEPT !.alone = (t \notin Alive)]]
    BY <1>1
  <1>3. /\ saved' = saved /\ crashes' = crashes /\ launches' = launches + 1
        /\ launches < MaxLaunches
    BY DEF Launch, onChain
  <1>4. launches' \in 0 .. MaxLaunches /\ crashes' \in 0 .. MaxCrashes
    BY <1>3, BoundsAssumption DEF GenInv
  <1>5. Once(session'[s].todo)
    <2>1. session'[s].todo = j.steps
      BY <1>2 DEF Idle
    <2> QED
      BY <2>1, JobsDeployOnce
  <1>6. ASSUME NEW t \in Sessions, t # s
        PROVE  session'[t].todo = session[t].todo /\ session'[t].net = session[t].net
    <2>1. DOMAIN session[t] = Fields
      BY DEF BookInv, AllOrderly
    <2>2. session'[t] = [session[t] EXCEPT !.alone = (t \notin Alive)]
      BY <1>2, <1>6
    <2> QED
      BY <2>1, <2>2 DEF Fields
  <1>7. \A t \in Sessions : Once(session'[t].todo)
    BY <1>5, <1>6 DEF GenInv
  <1>8. ASSUME NEW o \in Networks, NEW x
        PROVE  Gen(saved', o, x) + Cardinality(Coming(session', o, x)) <= 1 + launches'
    <2>1. PICK c, c2, b : /\ c = Coming(session, o, x) /\ c2 = Coming(session', o, x)
                          /\ b = c \cup {s}
      OBVIOUS
    <2>2. IsFiniteSet(c) /\ Cardinality(c) \in Nat /\ Cardinality(c2) \in Nat
      BY <2>1, ComingIsFinite
    <2>3. ASSUME NEW t \in c2 PROVE t \in b
      <3>1. t \in Sessions /\ session'[t].net = o /\ x \in Deploys(session'[t].todo)
        BY <2>1, <2>3 DEF Coming
      <3>2. t # s => t \in c
        BY <1>6, <2>1, <3>1 DEF Coming
      <3> QED
        BY <2>1, <3>2
    <2>4. IsFiniteSet(b) /\ Cardinality(b) \in Nat /\ Cardinality(b) <= Cardinality(c) + 1
      <3>1. /\ IsFiniteSet(c \cup {s})
            /\ Cardinality(c \cup {s}) = IF s \in c THEN Cardinality(c) ELSE Cardinality(c) + 1
        BY <2>2, FS_AddElement
      <3> QED
        BY <2>1, <2>2, <3>1
    <2>5. c2 \in SUBSET b
      BY <2>3
    <2>6. Cardinality(c2) <= Cardinality(b)
      BY <2>4, <2>5, FS_Subset
    <2>7. Gen(saved, o, x) + Cardinality(c) <= 1 + launches /\ Gen(saved, o, x) \in Nat
      BY <2>1, GenIsNat DEF GenInv, Within
    <2>8. launches \in Nat
      BY BoundsAssumption DEF GenInv
    <2> QED
      BY <1>3, <2>1, <2>2, <2>4, <2>6, <2>7, <2>8
  <1>9. Numbered(saved')
    BY <1>3 DEF GenInv
  <1> QED
    BY <1>4, <1>7, <1>8, <1>9 DEF GenInv, Within

LEMMA GenInvInit ==
    ASSUME Init PROVE GenInv
  <1>1. /\ \A s \in Sessions : session[s] = Idle
        /\ saved = InitSaved /\ launches = 0 /\ crashes = 0
    BY DEF Init
  <1>2. launches \in 0 .. MaxLaunches /\ crashes \in 0 .. MaxCrashes
    BY <1>1, BoundsAssumption
  <1>3. ASSUME NEW n \in Networks, NEW x \in DOMAIN saved[n]
        PROVE  saved[n][x].at.of = x /\ saved[n][x].at.gen = 1
    <2>1. \A g : Address(x, g).of = x /\ Address(x, g).gen = g
      BY DEF Address
    <2>2. x \in DOMAIN InitSaved[n] /\ saved[n][x].at = InitSaved[n][x].at
      BY <1>1, <1>3
    <2>3. InitSaved[n][x].at = Address(x, 1)
      BY <2>2, SavedAssumption
    <2> QED
      BY <2>1, <2>2, <2>3
  <1>4. Numbered(saved)
    BY <1>3 DEF Numbered
  <1>5. \A s \in Sessions : Once(session[s].todo) /\ Deploys(session[s].todo) = {}
    BY <1>1, NothingToDeploy
  <1>6. ASSUME NEW n \in Networks, NEW x
        PROVE  Gen(saved, n, x) + Cardinality(Coming(session, n, x)) <= 1 + launches
    <2>1. Coming(session, n, x) = {}
      BY <1>5 DEF Coming
    <2>2. Cardinality(Coming(session, n, x)) = 0
      BY <2>1, FS_EmptySet
    <2>3. Gen(saved, n, x) \in {0, 1}
      BY <1>3 DEF Gen
    <2> QED
      BY <1>1, <2>2, <2>3
  <1> QED
    BY <1>2, <1>4, <1>5, <1>6 DEF GenInv, Within

LEMMA GenInvNext ==
    ASSUME ListInv, BookInv, GenInv, [Next]_vars PROVE GenInv'
  <1>1. CASE UNCHANGED vars
    BY <1>1 DEF vars, onChain, GenInv
  <1>2. ASSUME NEW s \in Sessions,
               \/ Launch(s) \/ ReadFile(s) \/ StoreFile(s) \/ NeedDeployments(s)
               \/ DeployContract(s) \/ SetPointer(s) \/ CallContract(s)
               \/ CheckRole(s) \/ GrantRole(s)
        PROVE  GenInv'
    BY <1>2, GenLaunchStep, GenSteps, GenDeployStep, GenEndSteps
  <1>3. ASSUME NEW s \in Sessions,
               \/ CreateThing(s) \/ AlterThing(s) \/ RecordThing(s) \/ ClearCopy(s)
               \/ Throw(s) \/ Crash(s)
        PROVE  GenInv'
    BY <1>3, GenSteps, GenEndSteps
  <1>4. ASSUME NEW c \in Editable, EditSource(c) PROVE GenInv'
    BY <1>4 DEF EditSource, onChain, GenInv
  <1> QED
    BY <1>1, <1>2, <1>3, <1>4 DEF Next

(***************************************************************************)
(* The state of the files, of the deployments and of the sessions has the  *)
(* shape the scripts count on.  The number of a deployment says most: no   *)
(* program deploys one contract twice, so that with every launch a         *)
(* contract is deployed at most once more.                                 *)
(***************************************************************************)
THEOREM OperationsTypeCorrect ==
    ASSUME "NaughtyPool" \notin Tasks
    PROVE  Spec => []OpsTypeOK
  <1>1. Init => GenInv
    BY GenInvInit
  <1>2. ListInv /\ BookInv /\ GenInv /\ [Next]_vars => GenInv'
    BY GenInvNext
  <1>3. Spec => [](ListInv /\ BookInv)
    BY BookInvAlways
  <1>4. Spec => [](ListInv /\ BookInv /\ GenInv)
    BY <1>1, <1>2, <1>3, PTL DEF Spec
  <1>5. ASSUME ListInv, BookInv, GenInv PROVE OpsTypeOK
    <2>1. \A f \in Files : DOMAIN files[f] = Networks
      BY <1>5 DEF BookInv
    <2>2. \A s \in Sessions : DOMAIN session[s].seen \subseteq Files
      BY <1>5 DEF BookInv, AllOrderly, Orderly
    <2>3. launches \in 0 .. MaxLaunches /\ crashes \in 0 .. MaxCrashes
      BY <1>5 DEF GenInv
    <2>4. ASSUME NEW n \in Networks, NEW x \in DOMAIN saved[n]
          PROVE  saved[n][x].at.of = x /\ saved[n][x].at.gen \in 1 .. 1 + MaxLaunches
      <3>1. PICK g, c : g = saved[n][x].at.gen /\ c = Cardinality(Coming(session, n, x))
        OBVIOUS
      <3>2. saved[n][x].at.of = x /\ g \in Nat \ {0}
        BY <1>5, <3>1 DEF GenInv, Numbered
      <3>3. c \in Nat
        BY <3>1, ComingIsFinite
      <3>4. g + c <= 1 + launches
        BY <1>5, <3>1 DEF GenInv, Within, Gen
      <3> QED
        BY <2>3, <3>1, <3>2, <3>3, <3>4, BoundsAssumption
    <2> QED
      BY <2>1, <2>2, <2>3, <2>4 DEF OpsTypeOK
  <1> QED
    BY <1>4, <1>5, PTL
=============================================================================
