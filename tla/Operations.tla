----------------------------- MODULE Operations -----------------------------
(***************************************************************************)
(* Operators run deployment scripts and tasks against several networks.    *)
(* Each hardhat process (a session) performs its steps one at a time; the  *)
(* JSON files of info/ and the chain are what sessions share.  A file is   *)
(* always read and written as a whole, for all networks at once, so a      *)
(* session that stores its copy also stores what it had read for every     *)
(* other entry.  A session may die between any two steps.                  *)
(*                                                                         *)
(* What hardhat-deploy does (reuse a saved deployment, deploy again when   *)
(* the code or the constructor arguments changed) and what the contracts   *)
(* accept is modelled from how the scripts use them.                       *)
(***************************************************************************)
EXTENDS AdminTasks, Integers, SequencesExt

CONSTANTS
    Networks,     \* the networks operators work on
    Sessions,     \* hardhat processes that may run at the same time
    Scripts,      \* file numbers of the deployment scripts that are run
    Tasks,        \* names of the tasks that are run
    Tokens,       \* names of policy tokens
    Lps,          \* LP tokens that get a farming pool
    Editable,     \* contracts whose source may be edited
    InitSaved,    \* deployments/ at the start: a network's saved contracts
    InitMade,     \* what had been created on chain, and recorded, at the start
    MaxLaunches,  \* bounds: sessions started, crashes, edits
    MaxCrashes,
    MaxEdits

VARIABLES
    files,     \* info/*.json
    saved,     \* deployments/<network>/: name -> address, code version, arguments
    wire,      \* pointers set on chain: <<address, field>> -> address
    roles,     \* granted roles: <<token address, role, member address>>
    made,      \* things created on chain, by kind and key
    version,   \* version of each contract's source
    session,   \* what each hardhat process still has to do
    launches, crashes,
    overlap,   \* history: two sessions that store one file were alive at once
    excused    \* history: records a dead session never stored, or a clear removed

vars == <<files, saved, wire, roles, made, version, session,
          launches, crashes, overlap, excused>>
onChain == <<saved, wire, roles, made>>

Files == {"address", "proxyAdmin", "NPToken", "NPPool", "FarmingPool", "ILM"}
Kinds == {"token", "pool", "farm", "ilm"}

\* The JSON list that records each kind.
ListOf == [token |-> "NPToken", pool |-> "NPPool", farm |-> "FarmingPool", ilm |-> "ILM"]

\* What the lists hold at the start is on chain, network by network.
ASSUME MadeAssumption ==
    InitMade = [n \in Networks |-> [kind \in Kinds |-> InitMade[n][kind]]]

Address(name, gen) == [of |-> name, gen |-> gen]

\* Saved deployments are, at the start, the first of their contract.  None has
\* the name under which the book lists the one called VeDEG.
ASSUME SavedAssumption ==
    /\ DOMAIN InitSaved = Networks
    /\ \A n \in Networks : \A x \in DOMAIN InitSaved[n] :
          x # "VoteEscrowedDegis" /\ InitSaved[n][x].at = Address(x, 1)

\* The core knows no token by the misspelt name.
ASSUME NamesAssumption ==
    /\ "misspelt" \notin Tokens
    /\ \A n \in Networks : "misspelt" \notin DOMAIN InitMade[n]["token"]

\* There are finitely many operators; the bounds of Launch and Crash.
ASSUME BoundsAssumption ==
    IsFiniteSet(Sessions) /\ MaxLaunches \in Nat /\ MaxCrashes \in Nat

Empty == <<>>
Has(f, k) == k \in DOMAIN f
Put(f, k, v) == [x \in DOMAIN f \cup {k} |-> IF x = k THEN v ELSE f[x]]

Idle == [net |-> "none", job |-> "none", todo |-> <<>>, seen |-> Empty, got |-> Empty,
         owes |-> {}, alone |-> TRUE]

\* The entry of the address book under which a deployment is recorded.
EntryOf(name) == IF name = "VeDEG" THEN "VoteEscrowedDegis" ELSE name

(***************************************************************************)
(* The programs an operator can start                                      *)
(***************************************************************************)
\* A token's name is typed as the core generates it, or otherwise: "16" for
\* a strike price the core writes "16.0".
ListTasks ==
    (UNION {{DeployNPToken(t, t), DeployNPToken("misspelt", t)} : t \in Tokens})
        \cup (UNION {{DeployNPPool(t), StartILM(t), StopILM(t)} : t \in Tokens})
        \cup (UNION {{AddFarmingPool(lp), SetFarmingPoolDegisReward(lp)} : lp \in Lps})

AllTasks(net) == TaskOf(net) \cup ClearRecord

\* What is started, with a tag: the scripts by number, everything else "task".
Jobs(net) ==
    LET run(table, names) == {x \in table : x.name \in names}
    IN  [tag : {"task"}, steps : ListTasks \cup {x.steps : x \in run(AllTasks(net), Tasks)}]
            \cup {[tag |-> x.name, steps |-> x.steps] : x \in run(ScriptOf(net), Scripts)}

StoredBy(steps) == {st.file : st \in {x \in ToSet(steps) : x.op = "store"}}

\* tasks/farming/farmingPool.ts reads its list when hardhat loads it.
Preloaded(steps) ==
    IF "FarmingPool" \in StoredBy(steps) /\ Read("FarmingPool") \notin ToSet(steps)
      THEN [f \in {"FarmingPool"} |-> files[f]]
      ELSE Empty

(***************************************************************************)
(* Reading a step's operands                                               *)
(***************************************************************************)
Alive == {s \in Sessions : session[s].todo # <<>>}
Step(s) == Head(session[s].todo)
Entries(s) == session[s].seen["address"][session[s].net]
Defined(s, entry) == Has(Entries(s), entry)

ArgDefined(s, a) ==
    IF a.from = "book" THEN Defined(s, a.key) ELSE Has(session[s].got, a.key)
ArgValue(s, a) ==
    IF a.from = "book" THEN Entries(s)[a.key] ELSE session[s].got[a.key]

Known(s) == Has(saved[session[s].net], Step(s).name)
Deployment(s) == saved[session[s].net][Step(s).name]
VersionOf(name) == IF name \in Editable THEN version[name] ELSE 0

\* hardhat-deploy evaluates constructor arguments on every run, the
\* arguments of a proxy's initializer only when it creates the proxy.
NeedsArgs(s) == Step(s).proxy # "init" \/ ~ Known(s)
ArgsDefined(s) == \A f \in DOMAIN Step(s).args : ArgDefined(s, Step(s).args[f])
ArgValues(s) == [f \in DOMAIN Step(s).args |-> ArgValue(s, Step(s).args[f])]

\* A contract that is not behind a proxy is deployed again when its code or
\* its arguments differ from the saved ones.
IsNew(s) ==
    \/ ~ Known(s)
    \/ /\ Step(s).proxy = "none"
       /\ \/ Deployment(s).code # VersionOf(Step(s).name)
          \/ Deployment(s).args # ArgValues(s)

\* An upgrade that calls the initializer once more, which reverts.
InitializesAgain(s) == Known(s) /\ Deployment(s).code # VersionOf(Step(s).name)

\* What the core, the pair factory, the matching contract and the farming
\* contract require of a creation or a change.
Accepted(s) ==
    LET n == session[s].net
        exists(kind) == Has(made[n][kind], Step(s).key)
    IN  /\ Defined(s, Step(s).target)
        /\ CASE Step(s).op = "create" /\ Step(s).kind \in {"token", "farm"} ->
                    ~ exists(Step(s).kind)
             [] Step(s).op = "create" -> exists("token") /\ ~ exists(Step(s).kind)
             [] Step(s).op = "alter" /\ Step(s).kind = "farm" -> exists("farm")
             [] OTHER -> /\ exists("ilm") /\ made[n]["ilm"][Step(s).key] = "new"
                         /\ ~ exists("pool")

\* Why a step cannot be done: the session then ends with an error.
Possible(s) ==
    CASE Step(s).op = "need" -> Step(s).names \subseteq DOMAIN saved[session[s].net]
      [] Step(s).op = "deploy" ->
            /\ NeedsArgs(s) => ArgsDefined(s)
            /\ Step(s).proxy = "execute" => ~ InitializesAgain(s)
      [] Step(s).op \in {"call", "attach"} -> Defined(s, Step(s).target)
      [] Step(s).op = "set" -> Defined(s, Step(s).target) /\ Defined(s, Step(s).entry)
      [] Step(s).op = "checkRole" -> Defined(s, Step(s).token)
      [] Step(s).op = "grantRole" ->
            <<Entries(s)[Step(s).token], Step(s).role, Entries(s)[Step(s).entry]>>
                \notin roles[session[s].net]
      [] Step(s).op \in {"create", "alter"} -> Accepted(s)
      [] Step(s).op = "check" -> Has(made[session[s].net][Step(s).kind], Step(s).key)
      [] Step(s).op = "record" ->
            Step(s).fresh \/ Has(session[s].seen[Step(s).file][session[s].net], Step(s).key)
      [] OTHER -> TRUE

(***************************************************************************)
(* Sessions                                                                *)
(***************************************************************************)
Init ==
    /\ saved = InitSaved
    /\ files = [f \in Files |-> [n \in Networks |->
                  IF f = "address"
                    THEN [e \in {EntryOf(x) : x \in DOMAIN InitSaved[n]} |->
                            CHOOSE a \in {Address(x, 1) : x \in DOMAIN InitSaved[n]} :
                                EntryOf(a.of) = e]
                    ELSE IF f = "proxyAdmin" THEN [x \in {"ProxyAdmin"} |-> Address(x, 1)]
                    ELSE InitMade[n][CHOOSE k \in Kinds : ListOf[k] = f]]]
    /\ wire = [n \in Networks |-> Empty]
    /\ roles = [n \in Networks |-> {}]
    /\ made = InitMade
    /\ version = [c \in Editable |-> 0]
    /\ session = [s \in Sessions |-> Idle]
    /\ launches = 0 /\ crashes = 0 /\ overlap = FALSE /\ excused = {}

\* An operator starts hardhat with a script or a task on some network.
\* Bound: of two sessions alive at once one still has a file to store; two
\* that store nothing share only the chain, where each step is one transaction.
Launch(s) ==
    /\ s \notin Alive /\ launches < MaxLaunches
    /\ \E n \in Networks : \E j \in Jobs(n) :
        /\ j.steps # <<>>
        /\ \A t \in Alive : StoredBy(session[t].todo) \cup StoredBy(j.steps) # {}
        /\ session' = [t \in Sessions |->
              IF t = s
                THEN [Idle EXCEPT !.net = n, !.job = j.tag, !.todo = j.steps,
                                  !.seen = Preloaded(j.steps), !.alone = (Alive = {})]
                ELSE [session[t] EXCEPT !.alone = (t \notin Alive)]]
        /\ overlap' = \/ overlap
                      \/ \E t \in Alive :
                            (StoredBy(session[t].todo) \cap StoredBy(j.steps)) # {}
    /\ launches' = launches + 1
    /\ UNCHANGED <<files, onChain, version, crashes, excused>>

\* The source of a contract is edited: its next deployment is a new one.
\* Hardhat compiles when it starts, so an edit takes effect between sessions.
EditSource(c) ==
    /\ Alive = {} /\ version[c] < MaxEdits
    /\ \A d \in Editable : d # c => version[d] = 0
    /\ version' = [version EXCEPT ![c] = @ + 1]
    /\ UNCHANGED <<files, onChain, session, launches, crashes, overlap, excused>>

\* The session's records that were not stored when it ended.
Unpaid(s) == {<<session[s].net>> \o o : o \in session[s].owes}

\* The step is done.  A session that has nothing left is over.
Advance(s, upd) ==
    LET after == [upd EXCEPT !.todo = Tail(@)]
    IN  session' = [session EXCEPT ![s] = IF Len(upd.todo) = 1 THEN Idle ELSE after]

Bookkeeping == <<version, launches, crashes, overlap, excused>>
History == <<version, launches, crashes, overlap>>
Doing(s, ops) == s \in Alive /\ Step(s).op \in ops /\ Possible(s)

\* readAddressList() and its siblings.
ReadFile(s) ==
    /\ Doing(s, {"read"})
    /\ Advance(s, [session[s] EXCEPT !.seen = Put(@, Step(s).file, files[Step(s).file])])
    /\ UNCHANGED <<files, onChain, Bookkeeping>>

\* storeAddressList(list) and its siblings write the whole copy.
StoreFile(s) ==
    /\ Doing(s, {"store"})
    /\ files' = [files EXCEPT ![Step(s).file] = session[s].seen[Step(s).file]]
    /\ LET paid == {o \in session[s].owes : o[1] = Step(s).file}
       IN  /\ Advance(s, [session[s] EXCEPT !.owes = @ \ paid])
           /\ excused' = excused \ {<<session[s].net>> \o o : o \in paid}
    /\ UNCHANGED <<onChain, History>>

\* await get(name), for each name.
NeedDeployments(s) ==
    /\ Doing(s, {"need"})
    /\ LET n == session[s].net
       IN  Advance(s, [session[s] EXCEPT !.got =
                          [x \in Step(s).names |-> saved[n][x].at]])
    /\ UNCHANGED <<files, onChain, Bookkeeping>>

\* await deploy(name, ...), then addressList[network].entry = address.
DeployContract(s) ==
    /\ Doing(s, {"deploy", "save"})
    /\ LET n    == session[s].net
           st   == Step(s)
           new  == IF st.op = "save" THEN ~ Known(s) ELSE IsNew(s)
           at   == IF ~ new THEN Deployment(s).at
                   ELSE Address(st.name, IF Known(s) THEN Deployment(s).at.gen + 1 ELSE 1)
           args == IF st.op = "save" THEN Empty
                   ELSE IF NeedsArgs(s) THEN ArgValues(s) ELSE Deployment(s).args
           into == IF st.op = "save" THEN {"address"} ELSE st.into
           copies == session[s].seen
           written(f) == [copies[f] EXCEPT ![n] = Put(@, st.entry, at)]
       IN  /\ saved' = [saved EXCEPT ![n] = Put(@, st.name,
                            [at |-> at, code |-> VersionOf(st.name), args |-> args])]
           /\ wire' = IF ~ new THEN wire
                      ELSE [wire EXCEPT ![n] =
                              LET given == {<<at, f>> : f \in DOMAIN args}
                              IN  [p \in DOMAIN @ \cup given |->
                                      IF p \in given THEN args[p[2]] ELSE @[p]]]
           /\ Advance(s, [session[s] EXCEPT
                !.seen = [f \in DOMAIN copies |-> IF f \in into THEN written(f) ELSE copies[f]],
                !.owes = @ \cup {<<f, st.entry>> : f \in into}])
    /\ UNCHANGED <<files, roles, made, Bookkeeping>>

\* await contract.setSomething(address)
SetPointer(s) ==
    /\ Doing(s, {"set"})
    /\ wire' = [wire EXCEPT ![session[s].net] =
                  Put(@, <<Entries(s)[Step(s).target], Step(s).field>>, Entries(s)[Step(s).entry])]
    /\ Advance(s, session[s])
    /\ UNCHANGED <<files, saved, roles, made, Bookkeeping>>

\* A transaction whose effect belongs to the called contract's own model, or
\* a contract object that is only read.
CallContract(s) ==
    /\ Doing(s, {"call", "attach", "check"})
    /\ Advance(s, session[s])
    /\ UNCHANGED <<files, onChain, Bookkeeping>>

\* isMinter / isBurner: nothing more to do when the role is there, or when
\* the book does not know the new member.
CheckRole(s) ==
    /\ Doing(s, {"checkRole"})
    /\ LET st   == Step(s)
           done == \/ ~ Defined(s, st.entry)
                   \/ <<Entries(s)[st.token], st.role, Entries(s)[st.entry]>>
                        \in roles[session[s].net]
       IN  IF done THEN session' = [session EXCEPT ![s] = Idle] ELSE Advance(s, session[s])
    /\ UNCHANGED <<files, onChain, Bookkeeping>>

GrantRole(s) ==
    /\ Doing(s, {"grantRole"})
    /\ roles' = [roles EXCEPT ![session[s].net] =
                   @ \cup {<<Entries(s)[Step(s).token], Step(s).role, Entries(s)[Step(s).entry]>>}]
    /\ Advance(s, session[s])
    /\ UNCHANGED <<files, saved, wire, made, Bookkeeping>>

\* core.deployPolicyToken, core.deployPool, ILM.startILM, farmingPool.add
CreateThing(s) ==
    /\ Doing(s, {"create"})
    /\ made' = [made EXCEPT ![session[s].net][Step(s).kind] = Put(@, Step(s).key, "new")]
    /\ Advance(s, [session[s] EXCEPT !.owes = @ \cup {<<ListOf[Step(s).kind], Step(s).key>>}])
    /\ UNCHANGED <<files, saved, wire, roles, Bookkeeping>>

\* farmingPool.setDegisReward; ILM.finishILM, which has the core deploy the pair
AlterThing(s) ==
    /\ Doing(s, {"alter"})
    /\ LET n == session[s].net
           altered == [made[n] EXCEPT ![Step(s).kind] = Put(@, Step(s).key, "changed")]
           paired  == [altered EXCEPT !["pool"] = Put(@, Step(s).key, "byILM")]
       IN  made' = [made EXCEPT ![n] = IF Step(s).kind = "ilm" THEN paired ELSE altered]
    /\ Advance(s, [session[s] EXCEPT !.owes = @ \cup {<<ListOf[Step(s).kind], Step(s).key>>}])
    /\ UNCHANGED <<files, saved, wire, roles, Bookkeeping>>

\* list[network][key] = what the chain now says of it
RecordThing(s) ==
    /\ Doing(s, {"record"})
    /\ LET n  == session[s].net
           st == Step(s)
           copies == session[s].seen
           changed == [copies EXCEPT ![st.file][n] =
                          Put(@, st.key, made[n][st.kind][st.key])]
       IN  Advance(s, [session[s] EXCEPT !.seen = changed])
    /\ UNCHANGED <<files, onChain, Bookkeeping>>

\* MUTANT: clears the whole file and not the network's record.
ClearCopy_AllNetworks(s) ==
    /\ Doing(s, {"clear"})
    /\ Advance(s, [session[s] EXCEPT !.seen = [f \in {Step(s).as} |-> Empty]])
    /\ excused' = excused \cup {<<session[s].net, Step(s).as, k>> :
                                   k \in DOMAIN files[Step(s).as][session[s].net]}
    /\ UNCHANGED <<files, onChain, History>>

\* list[network] = {}
ClearCopy(s) ==
    /\ Doing(s, {"clear"})
    /\ LET copy == session[s].seen[Step(s).file]
           cleared == [copy EXCEPT ![session[s].net] = Empty]
       IN  Advance(s, [session[s] EXCEPT !.seen = [f \in {Step(s).as} |-> cleared]])
    /\ excused' = excused \cup {<<session[s].net, Step(s).as, k>> :
                                   k \in DOMAIN files[Step(s).as][session[s].net]}
    /\ UNCHANGED <<files, onChain, History>>

\* The session ends: an exception, or the process is killed.
End(s) ==
    /\ session' = [session EXCEPT ![s] = Idle]
    /\ excused' = excused \cup Unpaid(s)
    /\ UNCHANGED <<files, onChain, version, launches, overlap>>

Throw(s) == s \in Alive /\ ~ Possible(s) /\ End(s) /\ UNCHANGED crashes

Crash(s) ==
    /\ s \in Alive /\ session[s].owes # {} /\ crashes < MaxCrashes
    /\ End(s) /\ crashes' = crashes + 1

Next ==
    \/ \E s \in Sessions :
          \/ Launch(s) \/ ReadFile(s) \/ StoreFile(s) \/ NeedDeployments(s)
          \/ DeployContract(s) \/ SetPointer(s) \/ CallContract(s)
          \/ CheckRole(s) \/ GrantRole(s) \/ CreateThing(s) \/ AlterThing(s)
          \/ RecordThing(s) \/ ClearCopy(s) \/ Throw(s) \/ Crash(s)
    \/ \E c \in Editable : EditSource(c)

Spec == Init /\ [][Next]_vars

(***************************************************************************)
(* What operators rely on                                                  *)
(***************************************************************************)
Records(list, k, v) == Has(list, k) /\ list[k] = v
Quiet == Alive = {} /\ ~ overlap

\* TYPE: files and lists are kept per network, a session that runs has read
\* what it uses.
OpsTypeOK ==
    /\ \A f \in Files : DOMAIN files[f] = Networks
    /\ \A n \in Networks : \A x \in DOMAIN saved[n] :
          saved[n][x].at.of = x /\ saved[n][x].at.gen \in 1 .. 1 + MaxLaunches
    /\ \A s \in Sessions : DOMAIN session[s].seen \subseteq Files
    /\ launches \in 0 .. MaxLaunches /\ crashes \in 0 .. MaxCrashes

\* When nothing runs, the address book has the current address of every saved
\* deployment: of those that were reused as well, so that running the script
\* once more repairs what a script that died had left out.  Excepted are
\* entries such a script has not stored yet, entries cleared by hand, and all
\* when two sessions stored one file at the same time.
BookAgreesWhenQuiet ==
    Quiet => \A n \in Networks : \A x \in DOMAIN saved[n] :
        /\ <<n, "address", EntryOf(x)>> \notin excused =>
              Records(files["address"][n], EntryOf(x), saved[n][x].at)
        /\ x = "ProxyAdmin" /\ <<n, "proxyAdmin", x>> \notin excused =>
              Records(files["proxyAdmin"][n], x, saved[n][x].at)

\* When nothing runs, the lists of info/ hold what the core, the matching
\* contract and the farming contract were made to create, as last changed.
\* The pair a finished ILM has created is in no list: stopILM records it in
\* the ILM's entry.
ListsAgreeWhenQuiet ==
    Quiet => \A n \in Networks : \A kind \in Kinds : \A k \in DOMAIN made[n][kind] :
        \/ <<n, ListOf[kind], k>> \in excused
        \/ made[n][kind][k] = "byILM"
        \/ Records(files[ListOf[kind]][n], k, made[n][kind][k])

\* A list never names something that was not created, however sessions
\* overlap, die or fail: every task records after its transaction succeeded.
ListedThingsExist ==
    \A n \in Networks : \A kind \in Kinds :
        DOMAIN files[ListOf[kind]][n] \subseteq DOMAIN made[n][kind]

\* The entries of the book a transaction uses.
Names(st) ==
    CASE st.op \in {"call", "create", "alter"} -> {st.target}
      [] st.op = "set" -> {st.target, st.entry}
      [] st.op = "grantRole" -> {st.token, st.entry}
      [] OTHER -> {}

\* A transaction sent by a session that runs alone reaches the deployment that
\* is current when it is sent, and hands over current addresses, even if the
\* same session has just deployed the contract again.
SendsReachCurrent ==
    \A s \in Alive :
        session[s].alone /\ ~ overlap /\ Possible(s)
            => \A e \in Names(Step(s)) : \A x \in DOMAIN saved[session[s].net] :
                  EntryOf(x) = e /\ <<session[s].net, "address", e>> \notin excused
                      => Entries(s)[e] = saved[session[s].net][x].at

\* The oracle and the policy flow know each other, the policy token and the
\* reserve take orders from that policy flow.
FlightRing(n) ==
    LET At(x) == saved[n][x].at
        Points(x, field, y) ==
            /\ {x, y} \subseteq DOMAIN saved[n]
            /\ <<At(x), field>> \in DOMAIN wire[n]
            /\ wire[n][<<At(x), field>>] = At(y)
    IN  /\ Points("PolicyFlow", "flightOracle", "FlightOracle")
        /\ Points("FlightOracle", "policyFlow", "PolicyFlow")
        /\ Points("FDPolicyToken", "policyFlow", "PolicyFlow")
        /\ Points("InsurancePool", "policyFlow", "PolicyFlow")

ScriptEnds(s) ==
    /\ session[s].job = "08" /\ session[s].alone
    /\ Len(session[s].todo) = 1 /\ Possible(s) /\ session'[s] = Idle

\* Once the flight oracle's script has run to its end by itself, the current
\* deployments of flight delay form a ring, whichever of them was deployed
\* again since the script last ran.
FlightRingClosed ==
    [][\A s \in Sessions, n \in Networks :
          ScriptEnds(s) /\ session[s].net = n /\ ~ overlap
                /\ (\A x \in excused : x[2] # "address")
              => FlightRing(n)']_vars
=============================================================================
