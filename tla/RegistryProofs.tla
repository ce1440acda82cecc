--------------------------- MODULE RegistryProofs ---------------------------
(***************************************************************************)
(* Proofs about Registry, for any peers, files, networks, operations and   *)
(* numbers of requests: where the entries of the table, the kernel and the *)
(* lookups come from however requests race, and what the three agree on    *)
(* when clients wait for each other.                                       *)
(***************************************************************************)
EXTENDS Registry, SequenceTheorems, FiniteSetTheorems, TLAPS

PeerEntry == [id : Peers, name : Names]
Resting == {"idle", "done"}
AddSteps == {"checkID", "checkName", "append", "store", "index", "last",
             "apply4", "apply6", "rediscover"}

\* What a request is at belongs to what it was asked, and it has its reply when
\* it is done.
Asked ==
  /\ loaded \in [Requests -> Seq(PeerEntry)]
  /\ \A r \in Requests :
       /\ pc[r] = "idle" <=> op[r] = None
       /\ reply[r] # "none" <=> pc[r] = "done"
       /\ pc[r] \in AddSteps => op[r].kind = "addPeer"
       /\ pc[r] \in {"resolve", "applyRoute", "insert"} => op[r].kind = "routeAdd"
       /\ pc[r] \in {"unroute", "remove"} => op[r].kind = "routeDel"
       /\ pc[r] \in {"index", "last"} => peers # <<>>
       /\ pc[r] = "applyRoute" => target[r] # None

Typed == TypeOK /\ Asked

\* Whom the file names, or a request that has passed the checks.
Added(r) == Accepted(r, "addPeer") /\ pc[r] \notin {"checkID", "checkName"}
Vouched(p) == \/ \E i \in 1..Len(ConfigPeers) : p = ConfigPeers[i]
              \/ \E r \in Requests : Added(r) /\ p = Entry(op[r].id, op[r].name)
Inserted(p, net) == \E r \in Requests : /\ reply[r] = "ok" /\ op[r].kind = "routeAdd"
                                        /\ op[r].net = net /\ Refers(op[r].ref, p)

\* Every peer that a list, a request or the table holds has been vouched for.
Sourced ==
  /\ \A i \in 1..Len(peers) : Vouched(peers[i])
  /\ \A r \in Requests :
       /\ \A i \in 1..Len(loaded[r]) : Vouched(loaded[r][i])
       /\ pc[r] \in {"applyRoute", "insert"} =>
            \E p \in PeerEntry : Vouched(p) /\ p.id = target[r] /\ Refers(op[r].ref, p)
  /\ \A net \in Nets : table[net] \notin {None, ConfigRoutes[net]} =>
       \E p \in PeerEntry : /\ Vouched(p) /\ p.id = table[net]
                            /\ HasAddr(p.id, net) \/ Inserted(p, net)

\* From here on: the clients wait for each other.
Alone == \A r, q \in Requests : r # q => pc[r] \in Resting \/ pc[q] \in Resting

\* What the checks have found stays so until the peer is stored.
Checked ==
  /\ \A i \in 1..Len(peers), j \in (Len(ConfigPeers) + 1)..Len(peers) :
       i # j => peers[i].id # peers[j].id /\ peers[i].name # peers[j].name
  /\ \A r \in Requests :
       /\ pc[r] \in {"checkName", "append", "store"} => ~Known(op[r].id)
       /\ pc[r] \in {"append", "store"} => ~Named(op[r].name)
       /\ pc[r] = "store" => loaded[r] = peers

\* The last of the list is the peer that was stored.
Stored == \A r \in Requests :
  /\ pc[r] \in {"index", "last"} => peers[Len(peers)] = Entry(op[r].id, op[r].name)
  /\ pc[r] \in {"apply4", "apply6"} => target[r] = op[r].id
  /\ pc[r] \in {"last", "apply4", "apply6"} =>
       table[Host4[op[r].id]] = op[r].id /\ table[Host6[op[r].id]] = op[r].id

\* A network that UpRun has or had among its options.
Option(net) == ReadTable[net] # None \/ net \in Serviced
Given(net) == net \in Serviced \/ (ReadTable[net] # None /\ Deleted(net))

\* Table and kernel differ only by what a request or UpRun has half done, and
\* by what was warned of or stranded.
Added4(r, net) == pc[r] \in {"last", "apply4"} /\ net = Host4[op[r].id]
Added6(r, net) == pc[r] \in {"last", "apply4", "apply6"} /\ net = Host6[op[r].id]
Half(r, what, net) == pc[r] = what /\ op[r].net = net
Excused == kernel \cup warned \cup stranded \cup pending
Matched ==
  /\ \A net \in pending : Option(net)
  /\ \A net \in Nets : ReadTable[net] # None => table[net] # None \/ Deleted(net)
  /\ \A net \in kernel :
       table[net] # None \/ Given(net) \/ \E r \in Requests : Half(r, "insert", net)
  /\ \A net \in Nets : table[net] # None =>
       \/ net \in Excused
       \/ \E r \in Requests : Added4(r, net) \/ Added6(r, net) \/ Half(r, "remove", net)
  /\ \A r \in Requests :
       /\ pc[r] = "insert" => op[r].net \in kernel
       /\ pc[r] = "remove" /\ op[r].net \in kernel => Option(op[r].net)
       /\ pc[r] = "remove" => table[op[r].net] # None \/ Given(op[r].net)

\* The lookups are right for all of the list but a peer that is not indexed yet.
Indexed == IF \E r \in Requests : pc[r] = "index" THEN Len(peers) - 1 ELSE Len(peers)
SameName(i, j) == Lower[peers[j].name] = Lower[peers[i].name]
SameNetID(i, j) == Host6[peers[j].id] = Host6[peers[i].id]
Found == \A i \in 1..Indexed :
  /\ \/ peers[i].name = NoName
     \/ \E j \in (i + 1)..Indexed : SameName(i, j)
     \/ byName[Lower[peers[i].name]] = peers[i].id
  /\ \/ \E j \in (i + 1)..Indexed : SameNetID(i, j)
     \/ byNetID[Host6[peers[i].id]] = peers[i].id

\* An address of a peer that was added leads to it, or to a later one.
Reached(net) ==
  \/ \E q \in Requests : Added(q) /\ table[net] = op[q].id /\ HasAddr(op[q].id, net)
  \/ \E q \in Requests : /\ op[q] # None /\ op[q].kind \in {"routeAdd", "routeDel"}
                         /\ op[q].net = net
AllReached == \A r \in Requests :
  (Accepted(r, "addPeer")
     /\ pc[r] \in {"last", "apply4", "apply6", "rediscover", "done"}) =>
     \A net \in {Host4[op[r].id], Host6[op[r].id]} : Reached(net)

Waiting == Alone /\ Checked /\ Stored /\ Matched /\ Found /\ AllReached
IInv == Typed /\ Sourced /\ (serial => Waiting)

-----------------------------------------------------------------------------
(* The operators                                                           *)

\* What clients may ask.
LEMMA Asks ==
  ASSUME TypeOK, NEW r \in Requests, op[r] # None
  PROVE  /\ op[r] \in Ops[serial] /\ op[r].kind \in {"addPeer", "routeAdd", "routeDel"}
         /\ op[r].kind = "addPeer" => op[r].id \in Peers /\ op[r].name \in Names
         /\ op[r].kind # "addPeer" => op[r].net \in Nets
<1>1. op[r] \in Ops[serial] /\ serial \in BOOLEAN BY DEF TypeOK
<1> QED BY <1>1, RegistryAssumption

\* A nonempty set of positions has a last and a first one.
LEMMA LastPosition ==
  ASSUME NEW n \in Nat, NEW S, S \subseteq 1..n, S # {}
  PROVE  \E i \in S : \A j \in S : j <= i
<1> DEFINE behind(i) == {j \in S : j > i}
           T == {behind(i) : i \in S}
<1>1. IsFiniteSet(1..n) BY FS_Interval
<1>2. \A i \in S : behind(i) \in FiniteSubsetsOf(1..n)
  <2> SUFFICES ASSUME NEW i \in S PROVE behind(i) \in FiniteSubsetsOf(1..n)
    OBVIOUS
  <2>1. behind(i) \subseteq 1..n OBVIOUS
  <2> HIDE DEF behind
  <2> QED BY <1>1, <2>1, FS_Subset DEF FiniteSubsetsOf
<1>3. T \subseteq FiniteSubsetsOf(1..n) /\ T # {} BY <1>2
<1>4. PICK t \in T : \A u \in T : <<u, t>> \notin StrictSubsetOrdering(1..n)
  <2> HIDE DEF T
  <2> QED BY <1>3, FS_StrictSubsetOrderingWellFounded, WFMin
<1>5. PICK i \in S : t = behind(i) BY <1>4
<1>6. \A j \in S : j <= i
  <2> SUFFICES ASSUME NEW j \in S, i < j PROVE FALSE
    OBVIOUS
  <2>1. i \in Nat /\ j \in Nat /\ \A m \in S : m \in Nat OBVIOUS
  <2>2. j \in behind(i) /\ j \notin behind(j) /\ behind(i) \subseteq S BY <2>1
  <2>3. behind(j) \subseteq behind(i)
    <3>1. \A m \in S : m > j => m > i BY <2>1
    <3> QED BY <3>1
  <2>4. behind(j) \in T OBVIOUS
  <2> HIDE DEF behind, T
  <2>5. behind(i) \subseteq 1..n /\ behind(j) \subseteq 1..n BY <2>2, <2>3
  <2> QED BY <1>4, <1>5, <2>2, <2>3, <2>4, <2>5 DEF StrictSubsetOrdering
<1> QED BY <1>6

LEMMA FirstPosition ==
  ASSUME NEW n \in Nat, NEW S, S \subseteq 1..n, S # {}
  PROVE  \E i \in S : \A j \in S : i <= j
<1> DEFINE T == {n + 1 - i : i \in S}
<1>1. T \subseteq 1..n /\ T # {}
  <2>1. \A i \in S : i \in 1..n OBVIOUS
  <2>2. \A i \in 1..n : n + 1 - i \in 1..n OBVIOUS
  <2>3. \A i \in S : n + 1 - i \in 1..n BY <2>1, <2>2
  <2> QED BY <2>3
<1>2. PICK t \in T : \A u \in T : u <= t
  <2> HIDE DEF T
  <2> QED BY <1>1, LastPosition
<1>3. PICK i \in S : t = n + 1 - i BY <1>2
<1>4. \A j \in S : n + 1 - j \in T /\ j \in Nat OBVIOUS
<1> HIDE DEF T
<1>5. \A j \in S : n + 1 - j <= n + 1 - i BY <1>2, <1>3, <1>4
<1> QED BY <1>3, <1>4, <1>5

\* The last peer of the file with a key.
LEMMA LastOfFile ==
  ASSUME NEW S, S \subseteq 1..Len(ConfigPeers)
  PROVE  /\ S = {} => LastOf(S) = None
         /\ S # {} => \E i \in S : LastOf(S) = ConfigPeers[i].id /\ \A j \in S : j <= i
         /\ LastOf(S) \in Peers \cup {None}
<1>1. ConfigPeers \in Seq(PeerEntry) BY RegistryAssumption DEF PeerEntry
<1>2. CASE S = {} BY <1>2 DEF LastOf
<1>3. CASE S # {}
  <2>1. Len(ConfigPeers) \in Nat BY <1>1
  <2>2. \E i \in S : \A j \in S : j <= i BY <1>3, <2>1, LastPosition
  <2> DEFINE i == CHOOSE i \in S : \A j \in S : j <= i
  <2>3. i \in S /\ \A j \in S : j <= i BY <2>2
  <2>4. LastOf(S) = ConfigPeers[i].id BY <1>3 DEF LastOf
  <2> HIDE DEF i
  <2>5. ConfigPeers[i] \in PeerEntry BY <1>1, <2>1, <2>3, ElementOfSeq
  <2> QED BY <1>3, <2>3, <2>4, <2>5 DEF PeerEntry
<1> QED BY <1>2, <1>3

\* A change of the table, some of it lost if others change it at the same time.
LEMMA Changes ==
  ASSUME NEW r \in Requests, NEW new \in [Nets -> Peers \cup {None}],
         table \in [Nets -> Peers \cup {None}], NEW t \in Results(r, new)
  PROVE  /\ t \in [Nets -> Peers \cup {None}]
         /\ \A net \in Nets : t[net] \in {new[net], table[net]}
         /\ ~Contended(r) => t = new
<1>1. PICK lost : t = [net \in Nets |-> IF net \in lost THEN table[net] ELSE new[net]]
      /\ lost \in IF Contended(r) THEN SUBSET {net \in Nets : new[net] # table[net]} ELSE {{}}
  BY DEF Results
<1>2. ~Contended(r) => lost = {} BY <1>1
<1> QED BY <1>1, <1>2

\* A list that a peer is added to.
LEMMA Longer ==
  ASSUME NEW s \in Seq(PeerEntry), NEW e \in PeerEntry
  PROVE  /\ Append(s, e) \in Seq(PeerEntry) /\ Append(s, e) # <<>>
         /\ Len(Append(s, e)) = Len(s) + 1 /\ Len(s) \in Nat
         /\ \A i \in 1..Len(s) : Append(s, e)[i] = s[i]
         /\ Append(s, e)[Len(s) + 1] = e
BY AppendProperties

\* The elements of a list, its last one among them.
LEMMA Elements ==
  ASSUME NEW s \in Seq(PeerEntry)
  PROVE  /\ Len(s) \in Nat /\ \A i \in 1..Len(s) : s[i] \in PeerEntry
         /\ s # <<>> => Len(s) \in 1..Len(s)
<1>1. Len(s) \in Nat /\ \A i \in 1..Len(s) : s[i] \in PeerEntry BY ElementOfSeq
<1>2. s # <<>> => Len(s) # 0 BY EmptySeq
<1> QED BY <1>1, <1>2

-----------------------------------------------------------------------------
(* The invariant                                                           *)

LEMMA Initially == ASSUME Init PROVE IInv
<1>1. ConfigPeers \in Seq(PeerEntry) /\ peers = ConfigPeers
  BY RegistryAssumption DEF Init, PeerEntry
<1>2. Len(peers) \in Nat /\ \A i \in 1..Len(peers) : peers[i] \in PeerEntry
  BY <1>1, Elements
<1> DEFINE routed(net) == {i \in 1..Len(ConfigPeers) :
                             LET id == ConfigPeers[i].id
                             IN HasAddr(id, net) \/ ConfigRoutes[net] = id}
           named(n) == {i \in 1..Len(ConfigPeers) : /\ ConfigPeers[i].name # NoName
                                                     /\ Lower[ConfigPeers[i].name] = n}
           numbered(k) == {i \in 1..Len(ConfigPeers) : Host6[ConfigPeers[i].id] = k}
<1>3. \A net \in Nets : table[net] = LastOf(routed(net)) BY DEF Init, ReadTable
<1>4. \A net \in Nets : table[net] \in Peers \cup {None} BY <1>3, LastOfFile
<1>5. TypeOK
  <2>1. table \in [Nets -> Peers \cup {None}] BY <1>4 DEF Init, ReadTable
  <2>2. byName \in [Names -> Peers \cup {None}]
    <3>1. \A n \in Names : LastOf(named(n)) \in Peers \cup {None} BY LastOfFile
    <3> QED BY <3>1 DEF Init
  <2>3. byNetID \in [Nets -> Peers \cup {None}]
    <3>1. \A k \in Nets : LastOf(numbered(k)) \in Peers \cup {None} BY LastOfFile
    <3> QED BY <3>1 DEF Init
  <2> QED BY <1>1, <2>1, <2>2, <2>3 DEF Init, TypeOK, PeerEntry
<1>6. Asked BY DEF Init, Asked, AddSteps
<1>7. Sourced
  <2>1. \A i \in 1..Len(peers) : Vouched(peers[i]) BY <1>1 DEF Vouched
  <2>2. ASSUME NEW net \in Nets, table[net] \notin {None, ConfigRoutes[net]}
        PROVE  \E p \in PeerEntry : /\ Vouched(p) /\ p.id = table[net]
                                    /\ HasAddr(p.id, net) \/ Inserted(p, net)
    <3>1. routed(net) # {} BY <1>3, <2>2, LastOfFile
    <3>2. PICK i \in routed(net) : table[net] = ConfigPeers[i].id BY <1>3, <3>1, LastOfFile
    <3>3. i \in 1..Len(peers) /\ peers[i].id = table[net] BY <1>1, <3>2
    <3>4. HasAddr(peers[i].id, net) BY <1>1, <2>2, <3>2
    <3> QED BY <1>2, <2>1, <3>3, <3>4
  <2> QED BY <2>1, <2>2 DEF Init, Sourced
<1>8. Waiting
  <2>1. Alone BY DEF Init, Alone, Resting
  <2>2. Checked BY <1>1, <1>2 DEF Init, Checked
  <2>3. Stored BY DEF Init, Stored
  <2>4. Matched
    <3>1. \A net \in Nets : ReadTable[net] # None => table[net] # None BY DEF Init
    <3>2. \A net \in pending : Option(net) BY DEF Init, Option
    <3> QED BY <3>1, <3>2 DEF Init, Matched, Excused
  <2>5. Found
    <3>1. Indexed = Len(peers) BY DEF Init, Indexed
    <3> SUFFICES ASSUME NEW i \in 1..Len(peers)
                 PROVE  /\ \/ peers[i].name = NoName
                           \/ \E j \in (i + 1)..Len(peers) : SameName(i, j)
                           \/ byName[Lower[peers[i].name]] = peers[i].id
                        /\ \/ \E j \in (i + 1)..Len(peers) : SameNetID(i, j)
                           \/ byNetID[Host6[peers[i].id]] = peers[i].id
      BY <3>1 DEF Found
    <3>2. peers[i].name \in Names /\ peers[i].id \in Peers BY <1>2 DEF PeerEntry
    <3>3. ASSUME peers[i].name # NoName, byName[Lower[peers[i].name]] # peers[i].id
          PROVE  \E j \in (i + 1)..Len(peers) : SameName(i, j)
      <4> DEFINE n == Lower[peers[i].name]
      <4>1. n \in Names BY <3>2, RegistryAssumption
      <4>2. i \in named(n) BY <1>1, <3>3
      <4>3. PICK j \in named(n) : byName[n] = ConfigPeers[j].id /\ i <= j
        BY <4>1, <4>2, LastOfFile DEF Init
      <4>4. i # j BY <1>1, <3>3, <4>3
      <4>5. j \in (i + 1)..Len(peers) BY <1>1, <1>2, <4>3, <4>4
      <4> QED BY <1>1, <4>3, <4>5 DEF SameName
    <3>4. ASSUME byNetID[Host6[peers[i].id]] # peers[i].id
          PROVE  \E j \in (i + 1)..Len(peers) : SameNetID(i, j)
      <4> DEFINE k == Host6[peers[i].id]
      <4>1. k \in Nets BY <3>2, RegistryAssumption
      <4>2. i \in numbered(k) BY <1>1
      <4>3. PICK j \in numbered(k) : byNetID[k] = ConfigPeers[j].id /\ i <= j
        BY <4>1, <4>2, LastOfFile DEF Init
      <4>4. i # j BY <1>1, <3>4, <4>3
      <4>5. j \in (i + 1)..Len(peers) BY <1>1, <1>2, <4>3, <4>4
      <4> QED BY <1>1, <4>3, <4>5 DEF SameNetID
    <3> QED BY <3>3, <3>4
  <2>6. AllReached BY DEF Init, AllReached, Accepted
  <2> QED BY <2>1, <2>2, <2>3, <2>4, <2>5, <2>6 DEF Waiting
<1> QED BY <1>5, <1>6, <1>7, <1>8 DEF IInv, Typed
\* A request that is answered.
LEMMA Answered ==
  ASSUME Typed, NEW r \in Requests, pc[r] # "idle", NEW what \in {"ok", "error"},
         Reply(r, what), UNCHANGED <<peers, loaded, target>>
  PROVE  Asked'
BY DEF Typed, TypeOK, Asked, AddSteps, Reply

LEMMA TypedStep == ASSUME Typed, [Next]_vars PROVE Typed'
<1>1. TypeOK /\ Asked BY DEF Typed
<1>2. peers \in Seq(PeerEntry) /\ \A i \in 1..Len(peers) : peers[i] \in PeerEntry
  BY <1>1, Elements DEF TypeOK, PeerEntry
<1>3. ASSUME NEW r \in Requests, Start(r) PROVE Typed'
  <2>1. PICK o \in Ops[serial] :
          /\ op' = [op EXCEPT ![r] = o]
          /\ pc' = [pc EXCEPT ![r] = CASE o.kind = "addPeer" -> "checkID"
                                       [] o.kind = "routeAdd" -> "resolve"
                                       [] o.kind = "routeDel" -> "unroute"]
    BY <1>3 DEF Start
  <2>2. o # None /\ o.kind \in {"addPeer", "routeAdd", "routeDel"}
    BY <1>1, RegistryAssumption DEF TypeOK
  <2>3. /\ o.kind = "addPeer" => pc' = [pc EXCEPT ![r] = "checkID"]
        /\ o.kind = "routeAdd" => pc' = [pc EXCEPT ![r] = "resolve"]
        /\ o.kind = "routeDel" => pc' = [pc EXCEPT ![r] = "unroute"]
    BY <2>1, <2>2
  <2>4. TypeOK' BY <1>1, <1>3, <2>1, <2>2, <2>3 DEF Start, TypeOK, config, routing, setUp, held
  <2>5. Asked'
    BY <1>1, <1>3, <2>1, <2>2, <2>3 DEF Start, At, TypeOK, Asked, AddSteps, config, held
  <2> QED BY <2>4, <2>5 DEF Typed
<1>4. ASSUME NEW r \in Requests, At(r, pc[r]), pc[r] # "idle", Serve(r) PROVE Typed'
  <2> USE DEF At, Goto, Reply, config, routing, setUp, held
  <2>1. /\ op[r] \in Ops[serial] /\ serial \in BOOLEAN
        /\ op[r].kind = "addPeer" => op[r].id \in Peers /\ op[r].name \in Names
        /\ op[r].kind # "addPeer" => op[r].net \in Nets
    BY <1>1, <1>4, Asks DEF TypeOK, Asked
  <2>2. CASE CheckID(r)
    <3>1. TypeOK' BY <1>1, <2>2 DEF CheckID, TypeOK
    <3>2. /\ pc[r] = "checkID" /\ (Reply(r, "error") \/ Goto(r, "checkName"))
          /\ UNCHANGED <<peers, loaded, target>>
      BY <2>2 DEF CheckID
    <3>3. Asked'
      <4>1. CASE Reply(r, "error") BY <1>1, <3>2, <4>1, Answered DEF Typed
      <4>2. CASE Goto(r, "checkName") BY <1>1, <3>2, <4>2 DEF TypeOK, Asked, AddSteps
      <4> QED BY <3>2, <4>1, <4>2
    <3> QED BY <3>1, <3>3 DEF Typed
  <2>3. CASE CheckName(r)
    <3>1. TypeOK' BY <1>1, <2>3 DEF CheckName, TypeOK
    <3>2. /\ pc[r] = "checkName" /\ (Reply(r, "error") \/ Goto(r, "append"))
          /\ UNCHANGED <<peers, loaded, target>>
      BY <2>3 DEF CheckName
    <3>3. Asked'
      <4>1. CASE Reply(r, "error") BY <1>1, <3>2, <4>1, Answered DEF Typed
      <4>2. CASE Goto(r, "append") BY <1>1, <3>2, <4>2 DEF TypeOK, Asked, AddSteps
      <4> QED BY <3>2, <4>1, <4>2
    <3> QED BY <3>1, <3>3 DEF Typed
  <2>4. CASE LoadPeers(r)
    <3>1. TypeOK' BY <1>1, <2>4 DEF LoadPeers, TypeOK
    <3>2. Asked' BY <1>1, <1>2, <2>4 DEF LoadPeers, TypeOK, Asked, AddSteps
    <3> QED BY <3>1, <3>2 DEF Typed
  <2>5. CASE StorePeers(r)
    <3>1. op[r].kind = "addPeer" /\ Entry(op[r].id, op[r].name) \in PeerEntry
      BY <1>1, <2>1, <2>5 DEF StorePeers, Asked, AddSteps, Entry, PeerEntry
    <3>2. peers' \in Seq(PeerEntry) /\ peers' # <<>>
      BY <1>1, <2>5, <3>1, Longer DEF StorePeers, Asked
    <3>3. <<>> \in Seq(PeerEntry) OBVIOUS
    <3>4. TypeOK' BY <1>1, <2>5, <3>2 DEF StorePeers, TypeOK, PeerEntry
    <3>5. Asked' BY <1>1, <2>5, <3>2, <3>3 DEF StorePeers, TypeOK, Asked, AddSteps
    <3> QED BY <3>4, <3>5 DEF Typed
  <2>6. CASE Index(r)
    <3>1. op[r].kind = "addPeer" /\ op[r].id \in Peers /\ op[r].name \in Names
      BY <1>1, <2>1, <2>6 DEF Index, Asked, AddSteps
    <3>2. Routed(table, op[r].id) \in [Nets -> Peers \cup {None}]
      BY <1>1, <3>1, RegistryAssumption DEF TypeOK, Routed
    <3>3. table' \in [Nets -> Peers \cup {None}]
      BY <1>1, <2>6, <3>2, Changes DEF Index, TypeOK
    <3>4. byName' \in [Names -> Peers \cup {None}] /\ byNetID' \in [Nets -> Peers \cup {None}]
      BY <1>1, <2>6, <3>1 DEF Index, TypeOK
    <3>5. TypeOK' BY <1>1, <2>6, <3>3, <3>4 DEF Index, TypeOK
    <3>6. Asked' BY <1>1, <2>6 DEF Index, TypeOK, Asked, AddSteps
    <3> QED BY <3>5, <3>6 DEF Typed
  <2>7. CASE Last(r)
    <3>1. peers[Len(peers)].id \in Peers
      BY <1>1, <1>2, <2>7, Elements DEF Last, Asked, PeerEntry
    <3>2. peers[Len(peers)].id # None BY <3>1, RegistryAssumption
    <3>3. TypeOK' BY <1>1, <2>7, <3>1, <3>2 DEF Last, TypeOK
    <3>4. Asked' BY <1>1, <2>7 DEF Last, TypeOK, Asked, AddSteps
    <3> QED BY <3>3, <3>4 DEF Typed
  <2>8. CASE Apply4(r) \/ Apply6(r)
    <3>1. target[r] \in Peers BY <1>1, <2>8 DEF Apply4, Apply6, TypeOK
    <3>2. Host4[target[r]] \in Nets /\ Host6[target[r]] \in Nets BY <3>1, RegistryAssumption
    <3>3. TypeOK' BY <1>1, <2>8, <3>2 DEF Apply4, Apply6, ApplyHost, TypeOK
    <3>4. Asked' BY <1>1, <2>8 DEF Apply4, Apply6, TypeOK, Asked, AddSteps
    <3> QED BY <3>3, <3>4 DEF Typed
  <2>9. CASE Rediscover(r) BY <1>1, <2>9 DEF Rediscover, Typed, TypeOK, Asked, AddSteps
  <2>10. CASE Resolve(r)
    <3> DEFINE found == {i \in 1..Len(peers) : Refers(op[r].ref, peers[i])}
               first == CHOOSE i \in found : \A j \in found : i <= j
    <3>1. CASE found = {}
      <4>1. /\ pc[r] = "resolve" /\ Reply(r, "error")
            /\ UNCHANGED <<config, routing, loaded, target>>
        BY <2>10, <3>1 DEF Resolve
      <4>2. TypeOK' BY <1>1, <4>1 DEF TypeOK
      <4>3. Asked' BY <1>1, <4>1, Answered DEF Typed
      <4> QED BY <4>2, <4>3 DEF Typed
    <3>2. CASE found # {}
      <4>1. first \in found BY <1>2, <3>2, Elements, FirstPosition
      <4>2. /\ target' = [target EXCEPT ![r] = peers[first].id]
            /\ pc' = [pc EXCEPT ![r] = "applyRoute"]
            /\ pc[r] = "resolve"
            /\ UNCHANGED <<serial, alive, op, reply, config, routing, setUp, loaded>>
        BY <2>10, <3>2 DEF Resolve
      <4> HIDE DEF first
      <4>3. peers[first].id \in Peers BY <1>2, <4>1 DEF PeerEntry
      <4>4. peers[first].id # None BY <4>3, RegistryAssumption
      <4>5. TypeOK' BY <1>1, <4>2, <4>3 DEF TypeOK
      <4>6. Asked' BY <1>1, <4>2, <4>4 DEF TypeOK, Asked, AddSteps
      <4> QED BY <4>5, <4>6 DEF Typed
    <3> QED BY <3>1, <3>2
  <2>11. CASE ApplyRoute(r)
    <3>1. op[r].net \in Nets BY <1>1, <2>1, <2>11 DEF ApplyRoute, Asked
    <3>2. TypeOK'
      <4>1. pc[r] = "applyRoute" => target[r] # None BY <1>1 DEF Asked
      <4> QED BY <1>1, <2>11, <3>1, <4>1 DEF ApplyRoute, TypeOK
    <3>3. /\ pc[r] = "applyRoute" /\ (Reply(r, "error") \/ Goto(r, "insert"))
          /\ UNCHANGED <<peers, loaded, target>>
      BY <2>11 DEF ApplyRoute
    <3>4. Asked'
      <4>1. CASE Reply(r, "error") BY <1>1, <3>3, <4>1, Answered DEF Typed
      <4>2. CASE Goto(r, "insert") BY <1>1, <3>3, <4>2 DEF TypeOK, Asked, AddSteps
      <4> QED BY <3>3, <4>1, <4>2
    <3> QED BY <3>2, <3>4 DEF Typed
  <2>12. CASE InsertRoute(r)
    <3>1. target[r] \in Peers \cup {None} BY <1>1 DEF TypeOK
    <3> DEFINE new == [table EXCEPT ![op[r].net] = target[r]]
    <3>2. /\ new \in [Nets -> Peers \cup {None}] /\ table' \in Results(r, new)
          /\ table \in [Nets -> Peers \cup {None}]
      BY <1>1, <2>12, <3>1 DEF InsertRoute, TypeOK
    <3> HIDE DEF new
    <3>3. table' \in [Nets -> Peers \cup {None}] BY <3>2, Changes
    <3>4. TypeOK' BY <1>1, <2>12, <3>3 DEF InsertRoute, TypeOK
    <3>5. Asked' BY <1>1, <2>12 DEF InsertRoute, TypeOK, Asked, AddSteps
    <3> QED BY <3>4, <3>5 DEF Typed
  <2>13. CASE Unroute(r)
    <3>1. TypeOK' BY <1>1, <2>13 DEF Unroute, TypeOK
    <3>2. /\ pc[r] = "unroute" /\ (Reply(r, "error") \/ Goto(r, "remove"))
          /\ UNCHANGED <<peers, loaded, target>>
      BY <2>13 DEF Unroute
    <3>3. Asked'
      <4>1. CASE Reply(r, "error") BY <1>1, <3>2, <4>1, Answered DEF Typed
      <4>2. CASE Goto(r, "remove") BY <1>1, <3>2, <4>2 DEF TypeOK, Asked, AddSteps
      <4> QED BY <3>2, <4>1, <4>2
    <3> QED BY <3>1, <3>3 DEF Typed
  <2>14. CASE RemoveRoute(r)
    <3> DEFINE new == [table EXCEPT ![op[r].net] = None]
    <3>1. /\ new \in [Nets -> Peers \cup {None}] /\ table' \in Results(r, new)
          /\ table \in [Nets -> Peers \cup {None}]
      BY <1>1, <2>14 DEF RemoveRoute, TypeOK
    <3> HIDE DEF new
    <3>2. table' \in [Nets -> Peers \cup {None}] BY <3>1, Changes
    <3>3. TypeOK' BY <1>1, <2>14, <3>2 DEF RemoveRoute, TypeOK
    <3>4. Asked' BY <1>1, <2>14 DEF RemoveRoute, TypeOK, Asked, AddSteps
    <3> QED BY <3>3, <3>4 DEF Typed
  <2>15. CASE RemoveFails(r)
    <3>1. op[r].net \in Nets BY <1>1, <2>1, <2>15 DEF RemoveFails, Asked
    <3>2. TypeOK' BY <1>1, <2>15, <3>1 DEF RemoveFails, TypeOK
    <3>3. Asked' BY <1>1, <2>15 DEF RemoveFails, TypeOK, Asked, AddSteps
    <3> QED BY <3>2, <3>3 DEF Typed
  <2> QED BY <1>4, <2>2, <2>3, <2>4, <2>5, <2>6, <2>7, <2>8, <2>9, <2>10, <2>11, <2>12,
            <2>13, <2>14, <2>15 DEF Serve
<1>5. \A r \in Requests : Serve(r) => At(r, pc[r]) /\ pc[r] # "idle"
  BY DEF Serve, At, CheckID, CheckName, LoadPeers, StorePeers, Index, Last, Apply4, Apply6,
         Rediscover, Resolve, ApplyRoute, InsertRoute, Unroute, RemoveRoute, RemoveFails
<1>6. CASE RaceFatal \/ SetUpFails \/ \E a \in Addrs : Forward(a)
  <2>1. alive' = FALSE /\ UNCHANGED <<serial, config, routing, setUp, pc, op, reply, held>>
    BY <1>6 DEF RaceFatal, SetUpFails, Forward
  <2>2. TypeOK' BY <1>1, <2>1 DEF TypeOK, config, routing, setUp, held
  <2>3. Asked' BY <1>1, <2>1 DEF Asked, config, held
  <2> QED BY <2>2, <2>3 DEF Typed
<1>8. CASE ListServices
  <2>1. Service[Self] \in Nets /\ \A i \in 1..Len(peers) : Service[peers[i].id] \in Nets
    BY <1>2, RegistryAssumption DEF PeerEntry
  <2>2. pending' \subseteq Nets BY <1>1, <1>8, <2>1 DEF ListServices, TypeOK
  <2>3. TypeOK' BY <1>1, <1>8, <2>2 DEF ListServices, TypeOK, config, routing, held
  <2>4. Asked' BY <1>1, <1>8 DEF ListServices, Asked, config, held
  <2> QED BY <2>3, <2>4 DEF Typed
<1>9. CASE ApplyNext
  <2>1. NextOption \in pending BY <1>9 DEF ApplyNext, NextOption
  <2>2. TypeOK' BY <1>1, <1>9, <2>1 DEF ApplyNext, TypeOK, config, held
  <2>3. Asked' BY <1>1, <1>9 DEF ApplyNext, Asked, config, held
  <2> QED BY <2>2, <2>3 DEF Typed
<1>7. CASE UNCHANGED vars
  BY <1>1, <1>7 DEF vars, Typed, TypeOK, Asked, config, routing, setUp
<1> QED BY <1>3, <1>4, <1>5, <1>6, <1>7, <1>8, <1>9 DEF Next
-----------------------------------------------------------------------------
(* Where entries come from                                                 *)

\* A step is one request's, or UpRun's, which applies a route at most.
LEMMA Steps ==
  ASSUME [Next]_vars
  PROVE  \/ \E r \in Requests : Start(r) \/ Serve(r)
         \/ /\ UNCHANGED <<serial, config, warned, stranded, pc, op, reply, held>>
            /\ \/ kernel' = kernel /\ UNCHANGED setUp
               \/ kernel' = kernel /\ ListServices
               \/ ApplyNext
BY DEF Next, RaceFatal, Forward, ListServices, ApplyNext, SetUpFails, vars, config, routing,
       setUp, held

\* What is asked and answered stays.
LEMMA Remembered ==
  ASSUME Typed, [Next]_vars, NEW q \in Requests
  PROVE  /\ pc[q] # "idle" => op'[q] = op[q]
         /\ Added(q) => Added(q)'
         /\ pc[q] = "done" => pc'[q] = "done" /\ reply'[q] = reply[q]
<1>1. TypeOK /\ Asked BY DEF Typed
<1> USE DEF At, Goto, Reply
<1>2. CASE \E r \in Requests : Start(r)
  <2>1. PICK r \in Requests : Start(r) BY <1>2
  <2>2. pc[r] = "idle" /\ op[r] = None /\ reply' = reply
    BY <1>1, <2>1 DEF Start, Asked
  <2>3. ASSUME q # r PROVE op'[q] = op[q] /\ pc'[q] = pc[q]
    BY <1>1, <2>1, <2>3 DEF Start, TypeOK
  <2>4. ~Added(r) BY <2>2 DEF Added, Accepted
  <2> QED BY <2>2, <2>3, <2>4 DEF Added, Accepted
<1>3. CASE \E r \in Requests : Serve(r)
  <2>1. PICK r \in Requests : Serve(r) BY <1>3
  <2>2. /\ op' = op /\ pc[r] # "done"
        /\ \E to : pc' = [pc EXCEPT ![r] = to] /\ to # "checkID"
        /\ reply' = reply \/ \E what : reply' = [reply EXCEPT ![r] = what]
    BY <2>1 DEF Serve, CheckID, CheckName, LoadPeers, StorePeers, Index, Last, Apply4, Apply6,
         Rediscover, Resolve, ApplyRoute, InsertRoute, Unroute, RemoveRoute, RemoveFails
  <2>3. Added(r) => reply'[r] # "error" /\ pc'[r] \notin {"checkID", "checkName"}
    BY <1>1, <2>1
    DEF TypeOK, Asked, Added, Accepted,
         Serve, CheckID, CheckName, LoadPeers, StorePeers, Index, Last, Apply4, Apply6,
         Rediscover, Resolve, ApplyRoute, InsertRoute, Unroute, RemoveRoute, RemoveFails
  <2> QED BY <1>1, <2>2, <2>3 DEF TypeOK, Added, Accepted
<1>4. CASE UNCHANGED <<serial, config, warned, stranded, pc, op, reply, held>>
  BY <1>4 DEF Added, Accepted
<1> QED BY <1>2, <1>3, <1>4, Steps

LEMMA StillVouched ==
  ASSUME Typed, [Next]_vars, NEW p, Vouched(p)
  PROVE  Vouched(p)'
<1>1. ASSUME NEW r \in Requests, Added(r), p = Entry(op[r].id, op[r].name)
      PROVE  Added(r)' /\ p = Entry(op'[r].id, op'[r].name)
  <2>1. pc[r] # "idle" BY <1>1 DEF Typed, Asked, Added, Accepted
  <2> QED BY <1>1, <2>1, Remembered
<1> QED BY <1>1 DEF Vouched

LEMMA StillInserted ==
  ASSUME Typed, [Next]_vars, NEW p, NEW net, Inserted(p, net)
  PROVE  Inserted(p, net)'
<1>1. PICK r \in Requests : /\ reply[r] = "ok" /\ op[r].kind = "routeAdd"
                            /\ op[r].net = net /\ Refers(op[r].ref, p)
  BY DEF Inserted
<1>2. pc[r] = "done" BY <1>1 DEF Typed, Asked
<1>3. op'[r] = op[r] /\ reply'[r] = "ok" BY <1>1, <1>2, Remembered
<1> QED BY <1>1, <1>3 DEF Inserted, Refers

\* An entry that a step leaves alone.
LEMMA StillSourced ==
  ASSUME Typed, Sourced, [Next]_vars, NEW net \in Nets,
         table'[net] = table[net], table[net] \notin {None, ConfigRoutes[net]}
  PROVE  \E p \in PeerEntry : /\ Vouched(p)' /\ p.id = table'[net]
                              /\ HasAddr(p.id, net) \/ Inserted(p, net)'
<1>1. PICK p \in PeerEntry : /\ Vouched(p) /\ p.id = table[net]
                             /\ HasAddr(p.id, net) \/ Inserted(p, net)
  BY DEF Sourced
<1> QED BY <1>1, StillVouched, StillInserted

\* Who writes what.
LEMMA Writers ==
  ASSUME [Next]_vars
  PROVE  /\ peers' = peers \/ \E r \in Requests : StorePeers(r)
         /\ loaded' = loaded \/ \E r \in Requests : LoadPeers(r) \/ StorePeers(r)
         /\ table' = table \/ \E r \in Requests : Index(r) \/ InsertRoute(r) \/ RemoveRoute(r)
<1>1. CASE \E r \in Requests : Start(r) BY <1>1 DEF Start, config, held
<1>2. CASE \E r \in Requests : Serve(r)
  BY <1>2 DEF Serve, CheckID, CheckName, Last, Apply4, Apply6, Rediscover, Resolve, ApplyRoute,
         LoadPeers, StorePeers, Index, InsertRoute, RemoveRoute,
         Unroute, RemoveFails, config, held
<1>3. CASE UNCHANGED <<serial, config, warned, stranded, pc, op, reply, held>>
  BY <1>3 DEF config, held
<1> QED BY <1>1, <1>2, <1>3, Steps

LEMMA SourcedStep == ASSUME Typed, Sourced, [Next]_vars PROVE Sourced'
<1>0. \A p : Vouched(p) => Vouched(p)' BY StillVouched
<1>1. TypeOK /\ Asked BY DEF Typed
<1>2. (\A i \in 1..Len(peers) : Vouched(peers[i]))'
  <2>1. CASE peers' = peers
    <3>1. \A i \in 1..Len(peers) : Vouched(peers[i]) BY DEF Sourced
    <3> QED BY <1>0, <2>1, <3>1 DEF Vouched
  <2>2. CASE \E r \in Requests : StorePeers(r)
    <3>1. PICK r \in Requests : StorePeers(r) BY <2>2
    <3> DEFINE e == Entry(op[r].id, op[r].name)
    <3>2. pc[r] = "store" /\ peers' = Append(loaded[r], e) BY <3>1 DEF StorePeers, At
    <3>3. op[r] # None /\ op[r].kind = "addPeer" /\ reply[r] # "error"
      BY <1>1, <3>2 DEF Asked, AddSteps
    <3>4. e \in PeerEntry BY <1>1, <3>3, Asks DEF Entry, PeerEntry
    <3>5. Vouched(e) BY <3>2, <3>3 DEF Vouched, Added, Accepted
    <3>6. \A i \in 1..Len(loaded[r]) : Vouched(loaded[r][i]) BY DEF Sourced
    <3>7. loaded[r] \in Seq(PeerEntry) BY <1>1 DEF Asked
    <3> HIDE DEF e
    <3>8. ASSUME NEW i \in 1..Len(peers') PROVE Vouched(peers'[i])
      <4>1. i \in 1..Len(loaded[r]) \/ i = Len(loaded[r]) + 1
        BY <3>2, <3>4, <3>7, <3>8, Longer
      <4> QED BY <3>2, <3>4, <3>5, <3>6, <3>7, <4>1, Longer
    <3> QED BY <1>0, <3>8 DEF Vouched
  <2> QED BY <2>1, <2>2, Writers
<1>3. ASSUME NEW r \in Requests
      PROVE  (\A i \in 1..Len(loaded[r]) : Vouched(loaded[r][i]))'
  <2>1. CASE loaded'[r] = loaded[r]
    <3>1. \A i \in 1..Len(loaded[r]) : Vouched(loaded[r][i]) BY DEF Sourced
    <3> QED BY <1>0, <2>1, <3>1 DEF Vouched
  <2>2. CASE loaded'[r] = peers
    <3>1. \A i \in 1..Len(peers) : Vouched(peers[i]) BY DEF Sourced
    <3> QED BY <1>0, <2>2, <3>1 DEF Vouched
  <2>3. CASE loaded'[r] = <<>> BY <2>3
  <2>4. loaded'[r] \in {loaded[r], peers, <<>>}
    BY <1>1, Writers DEF Asked, LoadPeers, StorePeers
  <2> QED BY <2>1, <2>2, <2>3, <2>4
<1>4. ASSUME NEW r \in Requests, pc'[r] \in {"applyRoute", "insert"}
      PROVE  \E p \in PeerEntry : Vouched(p)' /\ p.id = target'[r] /\ Refers(op'[r].ref, p)
  <2>1. SUFFICES \E p \in PeerEntry : Vouched(p) /\ p.id = target'[r] /\ Refers(op'[r].ref, p)
    BY StillVouched
  <2>2. \/ pc[r] \in {"applyRoute", "insert"} /\ target'[r] = target[r] /\ op'[r] = op[r]
        \/ Resolve(r)
    <3> USE DEF At, Goto, Reply, config, held
    <3>1. ASSUME NEW q \in Requests, Start(q) PROVE <2>2!1
      <4>1. PICK o \in Ops[serial] :
              pc' = [pc EXCEPT ![q] = CASE o.kind = "addPeer" -> "checkID"
                                        [] o.kind = "routeAdd" -> "resolve"
                                        [] o.kind = "routeDel" -> "unroute"]
        BY <3>1 DEF Start
      <4>2. o.kind \in {"addPeer", "routeAdd", "routeDel"}
        BY <1>1, RegistryAssumption DEF TypeOK
      <4>3. pc'[q] \notin {"applyRoute", "insert"} BY <1>1, <4>1, <4>2 DEF TypeOK
      <4>4. r # q BY <1>4, <4>3
      <4> QED BY <1>1, <1>4, <3>1, <4>1, <4>4 DEF Start, TypeOK
    <3>2. ASSUME NEW q \in Requests, q # r, Serve(q) PROVE <2>2!1
      BY <1>1, <1>4, <3>2
      DEF TypeOK, Serve, CheckID, CheckName, LoadPeers, StorePeers, Index, Last, Apply4, Apply6,
          Rediscover, Resolve, ApplyRoute, InsertRoute, Unroute, RemoveRoute, RemoveFails
    <3>3. ASSUME Serve(r) PROVE <2>2
      BY <1>1, <1>4, <3>3
      DEF TypeOK, Serve, CheckID, CheckName, LoadPeers, StorePeers, Index, Last, Apply4, Apply6,
          Rediscover, ApplyRoute, InsertRoute, Unroute, RemoveRoute, RemoveFails
    <3>4. CASE UNCHANGED <<serial, config, warned, stranded, pc, op, reply, held>> BY <1>4, <3>4
    <3> QED BY <3>1, <3>2, <3>3, <3>4, Steps
  <2>3. CASE Resolve(r)
    <3> DEFINE found == {i \in 1..Len(peers) : Refers(op[r].ref, peers[i])}
               first == CHOOSE i \in found : \A j \in found : i <= j
    <3>1. found # {} BY <1>1, <1>4, <2>3 DEF Resolve, Reply, TypeOK
    <3>2. Len(peers) \in Nat /\ \A i \in 1..Len(peers) : peers[i] \in PeerEntry
      BY <1>1, Elements DEF TypeOK, PeerEntry
    <3>3. first \in found BY <3>1, <3>2, FirstPosition
    <3>4. op' = op /\ target' = [target EXCEPT ![r] = peers[first].id]
      BY <2>3, <3>1 DEF Resolve, Goto
    <3> HIDE DEF first
    <3>5. Vouched(peers[first]) /\ peers[first] \in PeerEntry /\ Refers(op[r].ref, peers[first])
      BY <3>2, <3>3 DEF Sourced
    <3> QED BY <1>1, <3>4, <3>5 DEF TypeOK
  <2> QED BY <2>2, <2>3 DEF Sourced
<1>5. ASSUME NEW net \in Nets, table'[net] \notin {None, ConfigRoutes[net]}
      PROVE  \E p \in PeerEntry : /\ Vouched(p)' /\ p.id = table'[net]
                                  /\ HasAddr(p.id, net) \/ Inserted(p, net)'
  <2>1. CASE table'[net] = table[net] BY <1>5, <2>1, StillSourced
  <2>2. CASE table'[net] # table[net] /\ \E r \in Requests : Index(r)
    <3>1. PICK r \in Requests : Index(r) BY <2>2
    <3> DEFINE new == Routed(table, op[r].id)
               e == Entry(op[r].id, op[r].name)
    <3>2. op[r] # None /\ op[r].kind = "addPeer" /\ reply[r] # "error"
      BY <1>1, <3>1 DEF Index, At, Asked, AddSteps
    <3>3. e \in PeerEntry /\ op[r].id \in Peers BY <1>1, <3>2, Asks DEF Entry, PeerEntry
    <3>4. Vouched(e) BY <3>1, <3>2 DEF Index, At, Vouched, Added, Accepted
    <3>5. new \in [Nets -> Peers \cup {None}] /\ table' \in Results(r, new)
          /\ table \in [Nets -> Peers \cup {None}]
      BY <1>1, <3>1, <3>3, RegistryAssumption DEF TypeOK, Index, Routed
    <3>6. table'[net] = new[net]
      <4> HIDE DEF new
      <4> QED BY <2>2, <3>5, Changes
    <3>7. table'[net] = op[r].id /\ HasAddr(op[r].id, net)
      BY <1>1, <2>2, <3>3, <3>6, RegistryAssumption DEF TypeOK, Routed, HasAddr
    <3> QED BY <3>3, <3>4, <3>7, StillVouched DEF Entry
  <2>3. CASE table'[net] # table[net] /\ \E r \in Requests : InsertRoute(r)
    <3>1. PICK r \in Requests : InsertRoute(r) BY <2>3
    <3> DEFINE new == [table EXCEPT ![op[r].net] = target[r]]
    <3>2. pc[r] = "insert" /\ op[r] # None /\ op[r].kind = "routeAdd" /\ op[r].net \in Nets
      BY <1>1, <3>1, Asks DEF InsertRoute, At, Asked
    <3>3. PICK p \in PeerEntry : Vouched(p) /\ p.id = target[r] /\ Refers(op[r].ref, p)
      BY <3>2 DEF Sourced
    <3>4. new \in [Nets -> Peers \cup {None}] /\ table' \in Results(r, new)
          /\ table \in [Nets -> Peers \cup {None}]
      BY <1>1, <3>1, <3>2 DEF TypeOK, InsertRoute
    <3>5. table'[net] = new[net]
      <4> HIDE DEF new
      <4> QED BY <2>3, <3>4, Changes
    <3>6. net = op[r].net /\ table'[net] = target[r] BY <1>1, <2>3, <3>5 DEF TypeOK
    <3>7. Inserted(p, net)'
      <4>1. op' = op /\ reply'[r] = "ok" BY <1>1, <3>1 DEF InsertRoute, Reply, TypeOK
      <4> QED BY <3>2, <3>3, <3>6, <4>1 DEF Inserted, Refers
    <3> QED BY <3>3, <3>6, <3>7, StillVouched
  <2>4. CASE table'[net] # table[net] /\ \E r \in Requests : RemoveRoute(r)
    <3>1. PICK r \in Requests : RemoveRoute(r) BY <2>4
    <3> DEFINE new == [table EXCEPT ![op[r].net] = None]
    <3>2. new \in [Nets -> Peers \cup {None}] /\ table' \in Results(r, new)
          /\ table \in [Nets -> Peers \cup {None}]
      BY <1>1, <3>1 DEF TypeOK, RemoveRoute
    <3>3. table'[net] = new[net]
      <4> HIDE DEF new
      <4> QED BY <2>4, <3>2, Changes
    <3> QED BY <1>1, <1>5, <2>4, <3>3 DEF TypeOK
  <2> QED BY <2>1, <2>2, <2>3, <2>4, Writers
<1> QED BY <1>2, <1>3, <1>4, <1>5 DEF Sourced
-----------------------------------------------------------------------------
(* When clients wait for each other                                        *)

\* A step of one request while all others are at rest.
Only(r) ==
  /\ Serve(r) /\ op' = op /\ UNCHANGED <<serial, setUp>> /\ pc[r] \notin Resting
  /\ \A q \in Requests \ {r} : /\ pc[q] \in Resting /\ pc'[q] = pc[q]
                               /\ reply'[q] = reply[q] /\ target'[q] = target[q]
                               /\ loaded'[q] = loaded[q]

\* A request that starts while all are at rest.
Opens(r) ==
  /\ \A q \in Requests : pc[q] \in Resting
  /\ \A q \in Requests \ {r} : pc'[q] = pc[q] /\ op'[q] = op[q]
  /\ pc[r] = "idle" /\ pc'[r] \in {"checkID", "resolve", "unroute"}
  /\ UNCHANGED <<serial, config, routing, setUp, reply, held>>

LEMMA OneAtATime ==
  ASSUME Typed, serial, Alone, [Next]_vars
  PROVE  \/ /\ UNCHANGED <<serial, config, warned, stranded, pc, op, reply, held>>
            /\ \/ kernel' = kernel /\ UNCHANGED setUp
               \/ kernel' = kernel /\ ListServices
               \/ ApplyNext
         \/ \E r \in Requests : Opens(r) \/ Only(r)
<1>1. TypeOK /\ Asked BY DEF Typed
<1>2. ASSUME NEW r \in Requests, Start(r) PROVE Opens(r)
  <2>1. \A q \in Requests : pc[q] \in Resting BY <1>2 DEF Start, Resting
  <2>2. PICK o \in Ops[serial] :
          /\ op' = [op EXCEPT ![r] = o]
          /\ pc' = [pc EXCEPT ![r] = CASE o.kind = "addPeer" -> "checkID"
                                       [] o.kind = "routeAdd" -> "resolve"
                                       [] o.kind = "routeDel" -> "unroute"]
    BY <1>2 DEF Start
  <2>3. o.kind \in {"addPeer", "routeAdd", "routeDel"} BY <1>1, RegistryAssumption DEF TypeOK
  <2>4. pc'[r] \in {"checkID", "resolve", "unroute"} BY <1>1, <2>2, <2>3 DEF TypeOK
  <2>5. \A q \in Requests \ {r} : pc'[q] = pc[q] /\ op'[q] = op[q]
    BY <1>1, <2>2 DEF TypeOK
  <2> QED BY <1>2, <2>1, <2>4, <2>5 DEF Opens, Start, At
<1>3. ASSUME NEW r \in Requests, Serve(r) PROVE Only(r)
  <2> USE DEF At, Goto, Reply, held, Serve, CheckID, CheckName, LoadPeers, StorePeers, Index,
         Last, Apply4, Apply6, Rediscover, Resolve, ApplyRoute, InsertRoute, Unroute,
         RemoveRoute, RemoveFails
  <2>1. pc[r] \notin Resting /\ op' = op /\ UNCHANGED <<serial, setUp>> BY <1>3 DEF Resting
  <2>2. \A q \in Requests \ {r} : pc[q] \in Resting BY <2>1 DEF Alone
  <2>3. \A q \in Requests \ {r} : pc'[q] = pc[q] /\ reply'[q] = reply[q]
    BY <1>1, <1>3 DEF TypeOK
  <2>4. target' = target \/ \E id : target' = [target EXCEPT ![r] = id] BY <1>3
  <2>5. loaded' = loaded \/ \E list : loaded' = [loaded EXCEPT ![r] = list] BY <1>3
  <2>6. \A q \in Requests \ {r} : target'[q] = target[q] /\ loaded'[q] = loaded[q]
    BY <1>1, <2>4, <2>5 DEF TypeOK, Asked
  <2> QED BY <1>3, <2>1, <2>2, <2>3, <2>6 DEF Only
<1> QED BY <1>2, <1>3, Steps

LEMMA AloneStep ==
  ASSUME Typed, serial, Alone, [Next]_vars
  PROVE  Alone'
<1>1. CASE UNCHANGED <<serial, config, warned, stranded, pc, op, reply, held>> BY <1>1 DEF Alone
<1>2. CASE \E r \in Requests : Opens(r) \/ Only(r) BY <1>2 DEF Alone, Opens, Only
<1> QED BY <1>1, <1>2, OneAtATime

\* Nobody else changes the table, so no change is lost.
LEMMA NoneLost ==
  ASSUME Typed, NEW r \in Requests, Only(r)
  PROVE  /\ Index(r) => table' = Routed(table, op[r].id)
         /\ InsertRoute(r) => table' = [table EXCEPT ![op[r].net] = target[r]]
         /\ RemoveRoute(r) => table' = [table EXCEPT ![op[r].net] = None]
<1>1. ~Contended(r) BY DEF Only, Contended, Changing, Resting
<1>2. \A new : table' \in Results(r, new) => table' = [net \in Nets |-> new[net]]
  BY <1>1 DEF Results
<1>3. table \in [Nets -> Peers \cup {None}] BY DEF Typed, TypeOK
<1>4. ASSUME Index(r) PROVE table' = Routed(table, op[r].id)
  BY <1>2, <1>3, <1>4 DEF Index, Routed
<1>5. ASSUME InsertRoute(r) PROVE table' = [table EXCEPT ![op[r].net] = target[r]]
  BY <1>2, <1>3, <1>5 DEF InsertRoute
<1>6. ASSUME RemoveRoute(r) PROVE table' = [table EXCEPT ![op[r].net] = None]
  BY <1>2, <1>3, <1>6 DEF RemoveRoute
<1> QED BY <1>4, <1>5, <1>6

LEMMA CheckedStep ==
  ASSUME Typed, serial, Alone, Checked, [Next]_vars
  PROVE  Checked'
<1>1. TypeOK /\ Asked BY DEF Typed
<1>2. CASE UNCHANGED <<serial, config, warned, stranded, pc, op, reply, held>>
  BY <1>2 DEF Checked, Known, Named, config, held
<1>3. ASSUME NEW r \in Requests, Opens(r) PROVE Checked'
  <2>1. \A q \in Requests : pc'[q] \notin {"checkName", "append", "store"}
    BY <1>3 DEF Opens, Resting
  <2> QED BY <1>3, <2>1 DEF Opens, Checked, config
<1>4. ASSUME NEW r \in Requests, Only(r) PROVE Checked'
  <2>1. \A q \in Requests \ {r} : pc'[q] \notin {"checkName", "append", "store"}
    BY <1>4 DEF Only, Resting
  <2> SUFFICES
        /\ \A i \in 1..Len(peers'), j \in (Len(ConfigPeers) + 1)..Len(peers') :
             i # j => peers'[i].id # peers'[j].id /\ peers'[i].name # peers'[j].name
        /\ pc'[r] \in {"checkName", "append", "store"} => ~Known(op[r].id)'
        /\ pc'[r] \in {"append", "store"} => ~Named(op[r].name)'
        /\ pc'[r] = "store" => loaded'[r] = peers'
    BY <2>1 DEF Checked
  <2>2. CASE CheckID(r) \/ CheckName(r)
    <3>1. /\ peers' = peers /\ op' = op /\ pc'[r] # "store"
          /\ pc'[r] \in {"checkName", "append"} => ~Known(op[r].id)
          /\ pc'[r] = "append" => ~Named(op[r].name)
      BY <1>1, <1>4, <2>2
      DEF CheckID, CheckName, At, Goto, Reply, config, TypeOK, Only, Checked
    <3>2. pc'[r] \in {"checkName", "append"} => ~Known(op[r].id)' BY <3>1 DEF Known
    <3>3. pc'[r] = "append" => ~Named(op[r].name)' BY <3>1 DEF Named
    <3> QED BY <3>1, <3>2, <3>3 DEF Checked
  <2>3. CASE LoadPeers(r)
    <3>1. peers' = peers /\ op' = op /\ loaded'[r] = peers /\ pc[r] = "append"
      BY <1>1, <2>3 DEF LoadPeers, At, Goto, config, Asked
    <3> QED BY <3>1 DEF Checked, Known, Named
  <2>4. CASE StorePeers(r)
    <3> DEFINE e == Entry(op[r].id, op[r].name)
    <3>1. pc[r] = "store" /\ peers' = Append(peers, e) /\ pc'[r] = "index"
      BY <1>1, <2>4 DEF StorePeers, At, Goto, TypeOK, Checked
    <3>2. op[r] # None /\ op[r].kind = "addPeer" BY <1>1, <3>1 DEF Asked, AddSteps
    <3>3. e \in PeerEntry BY <1>1, <3>2, Asks DEF Entry, PeerEntry
    <3>4. e.id = op[r].id /\ e.name = op[r].name BY DEF Entry
    <3>5. peers \in Seq(PeerEntry) BY <1>1 DEF TypeOK, PeerEntry
    <3>6. \A i \in 1..Len(peers) : peers[i].id # e.id /\ peers[i].name # e.name
      BY <3>1, <3>4 DEF Checked, Known, Named
    <3> HIDE DEF e
    <3>7. /\ Len(peers') = Len(peers) + 1 /\ Len(peers) \in Nat
          /\ \A i \in 1..Len(peers) : peers'[i] = peers[i]
          /\ peers'[Len(peers) + 1] = e
      BY <3>1, <3>3, <3>5, Longer
    <3>8. ASSUME NEW i \in 1..Len(peers'), NEW j \in (Len(ConfigPeers) + 1)..Len(peers'),
                 i # j
          PROVE  peers'[i].id # peers'[j].id /\ peers'[i].name # peers'[j].name
      <4>0. Len(ConfigPeers) \in Nat BY RegistryAssumption
      <4>1. i \in 1..Len(peers) \/ i = Len(peers) + 1 BY <3>7
      <4>2. j \in (Len(ConfigPeers) + 1)..Len(peers) \/ j = Len(peers) + 1 BY <3>7, <4>0
      <4>3. j \in 1..Len(peers) \/ j = Len(peers) + 1 BY <3>7, <4>0
      <4>4. CASE i \in 1..Len(peers) /\ j \in (Len(ConfigPeers) + 1)..Len(peers)
        BY <3>7, <3>8, <4>3, <4>4 DEF Checked
      <4>5. CASE i = Len(peers) + 1 /\ j \in 1..Len(peers) BY <3>6, <3>7, <4>5
      <4>6. CASE j = Len(peers) + 1 /\ i \in 1..Len(peers) BY <3>6, <3>7, <4>6
      <4> QED BY <3>8, <4>1, <4>2, <4>3, <4>4, <4>5, <4>6
    <3> QED BY <3>1, <3>8
  <2>5. CASE ~(CheckID(r) \/ CheckName(r) \/ LoadPeers(r) \/ StorePeers(r))
    <3>1. peers' = peers /\ pc'[r] \notin {"checkName", "append", "store"}
      BY <1>1, <1>4, <2>5
      DEF Only, Serve, Index, Last, Apply4, Apply6, Rediscover, Resolve, ApplyRoute,
          InsertRoute, Unroute, RemoveRoute, RemoveFails, At, Goto, Reply, config, TypeOK
    <3> QED BY <3>1 DEF Checked
  <2> QED BY <2>2, <2>3, <2>4, <2>5
<1> QED BY <1>2, <1>3, <1>4, OneAtATime

LEMMA StoredStep ==
  ASSUME Typed, serial, Alone, Checked, Stored, [Next]_vars
  PROVE  Stored'
<1>1. TypeOK /\ Asked BY DEF Typed
<1>2. CASE UNCHANGED <<serial, config, warned, stranded, pc, op, reply, held>>
  BY <1>2 DEF Stored, config, held
<1>3. ASSUME NEW r \in Requests, Opens(r) PROVE Stored'
  BY <1>3 DEF Opens, Resting, Stored
<1>4. ASSUME NEW r \in Requests, Only(r) PROVE Stored'
  <2>1. \A q \in Requests \ {r} : pc'[q] \in Resting BY <1>4 DEF Only
  <2>2. op' = op BY <1>4 DEF Only
  <2> SUFFICES
        /\ pc'[r] \in {"index", "last"} => peers'[Len(peers')] = Entry(op[r].id, op[r].name)
        /\ pc'[r] \in {"apply4", "apply6"} => target'[r] = op[r].id
        /\ pc'[r] \in {"last", "apply4", "apply6"} =>
             table'[Host4[op[r].id]] = op[r].id /\ table'[Host6[op[r].id]] = op[r].id
    BY <2>1, <2>2 DEF Stored, Resting
  <2>3. CASE StorePeers(r)
    <3> DEFINE e == Entry(op[r].id, op[r].name)
    <3>1. pc[r] = "store" /\ peers' = Append(peers, e) /\ pc'[r] = "index"
      BY <1>1, <2>3 DEF StorePeers, At, Goto, TypeOK, Checked
    <3>2. op[r] # None /\ op[r].kind = "addPeer" BY <1>1, <3>1 DEF Asked, AddSteps
    <3>3. e \in PeerEntry BY <1>1, <3>2, Asks DEF Entry, PeerEntry
    <3>4. peers \in Seq(PeerEntry) BY <1>1 DEF TypeOK, PeerEntry
    <3>5. peers'[Len(peers')] = e
      <4> HIDE DEF e
      <4> QED BY <3>1, <3>3, <3>4, Longer
    <3> QED BY <3>1, <3>5
  <2>4. CASE Index(r)
    <3>1. pc[r] = "index" /\ peers' = peers /\ pc'[r] = "last"
      BY <1>1, <2>4 DEF Index, At, Goto, TypeOK
    <3>2. op[r] # None /\ op[r].kind = "addPeer" BY <1>1, <3>1 DEF Asked, AddSteps
    <3>3. op[r].id \in Peers BY <1>1, <3>2, Asks
    <3>4. Host4[op[r].id] \in Nets /\ Host6[op[r].id] \in Nets BY <3>3, RegistryAssumption
    <3>5. table' = Routed(table, op[r].id) BY <1>4, <2>4, NoneLost
    <3>6. table'[Host4[op[r].id]] = op[r].id /\ table'[Host6[op[r].id]] = op[r].id
      BY <1>1, <3>4, <3>5 DEF Routed, TypeOK
    <3> QED BY <3>1, <3>6 DEF Stored
  <2>5. CASE Last(r)
    <3>1. pc[r] = "last" /\ table' = table /\ pc'[r] = "apply4"
          /\ target'[r] = peers[Len(peers)].id
      BY <1>1, <2>5 DEF Last, At, Goto, TypeOK, config
    <3>2. peers[Len(peers)] = Entry(op[r].id, op[r].name) BY <3>1 DEF Stored
    <3>3. peers[Len(peers)].id = op[r].id BY <3>2 DEF Entry
    <3> QED BY <3>1, <3>3 DEF Stored
  <2>6. CASE Apply4(r)
    <3>1. pc[r] = "apply4" /\ table' = table /\ pc'[r] = "apply6" /\ target' = target
      BY <1>1, <2>6 DEF Apply4, At, Goto, TypeOK, config, held
    <3> QED BY <3>1 DEF Stored
  <2>7. CASE ~(StorePeers(r) \/ Index(r) \/ Last(r) \/ Apply4(r))
    <3>1. pc'[r] \notin {"index", "last", "apply4", "apply6"}
      BY <1>1, <1>4, <2>7
      DEF Only, Serve, CheckID, CheckName, LoadPeers, Apply6, Rediscover, Resolve, ApplyRoute,
          InsertRoute, Unroute, RemoveRoute, RemoveFails, At, Goto, Reply, TypeOK
    <3> QED BY <3>1
  <2> QED BY <2>3, <2>4, <2>5, <2>6, <2>7
<1> QED BY <1>2, <1>3, <1>4, OneAtATime
\* While one request is under way, nobody else has done half of anything.
LEMMA Halves ==
  ASSUME NEW r \in Requests, \A q \in Requests \ {r} : pc[q] \in Resting
  PROVE  \A q \in Requests \ {r}, net \in Nets :
           ~Added4(q, net) /\ ~Added6(q, net) /\ ~Half(q, "insert", net) /\ ~Half(q, "remove", net)
BY DEF Resting, Added4, Added6, Half

\* What Matched says when r is the request under way.
MatchedFor(r) ==
  /\ \A net \in pending : Option(net)
  /\ \A net \in Nets : ReadTable[net] # None => table[net] # None \/ Deleted(net)
  /\ \A net \in kernel : table[net] # None \/ Given(net) \/ Half(r, "insert", net)
  /\ \A net \in Nets : table[net] # None =>
       net \in Excused \/ Added4(r, net) \/ Added6(r, net) \/ Half(r, "remove", net)
  /\ pc[r] = "insert" => op[r].net \in kernel
  /\ pc[r] = "remove" /\ op[r].net \in kernel => Option(op[r].net)
  /\ pc[r] = "remove" => table[op[r].net] # None \/ Given(op[r].net)

\* The service networks of listed peers stay, and a "del" that succeeded.
LEMMA StillGiven ==
  ASSUME Typed, serial, Alone, Checked, [Next]_vars
  PROVE  /\ Serviced \subseteq Serviced'
         /\ \A net : Deleted(net) => Deleted(net)'
         /\ \A net : Option(net) => Option(net)'
         /\ \A net : Given(net) => Given(net)'
<1>1. TypeOK /\ Asked BY DEF Typed
<1>2. peers \in Seq(PeerEntry) BY <1>1 DEF TypeOK, PeerEntry
<1>3. /\ Len(peers) \in Nat /\ Len(peers) <= Len(peers')
      /\ \A i \in 1..Len(peers) : peers'[i] = peers[i] /\ i \in 1..Len(peers')
  <2>1. CASE peers' = peers BY <1>2, <2>1, Elements
  <2>2. ASSUME NEW r \in Requests, StorePeers(r) PROVE <1>3
    <3> DEFINE e == Entry(op[r].id, op[r].name)
    <3>1. pc[r] = "store" /\ peers' = Append(peers, e) BY <2>2 DEF StorePeers, At, Checked
    <3>2. op[r] # None /\ op[r].kind = "addPeer" BY <1>1, <3>1 DEF Asked, AddSteps
    <3>3. e \in PeerEntry BY <1>1, <3>2, Asks DEF Entry, PeerEntry
    <3> HIDE DEF e
    <3>4. Len(peers) \in Nat /\ Len(peers') = Len(peers) + 1 BY <1>2, <3>1, <3>3, Longer
    <3>5. \A i \in 1..Len(peers) : peers'[i] = peers[i] BY <1>2, <3>1, <3>3, Longer
    <3> QED BY <3>4, <3>5
  <2> QED BY <2>1, <2>2, Writers
<1>4. Serviced \subseteq Serviced' BY <1>3 DEF Serviced
<1>5. ASSUME NEW net, Deleted(net) PROVE Deleted(net)'
  <2>1. PICK r \in Requests : /\ reply[r] = "ok" /\ op[r].kind = "routeDel"
                              /\ op[r].net = net
    BY <1>5 DEF Deleted
  <2>2. pc[r] = "done" BY <1>1, <2>1 DEF Asked
  <2>3. op'[r] = op[r] /\ reply'[r] = "ok" BY <2>1, <2>2, Remembered
  <2> QED BY <2>1, <2>3 DEF Deleted
<1> QED BY <1>4, <1>5 DEF Option, Given

LEMMA MatchedStep ==
  ASSUME Typed, Typed', serial, Alone, Checked, Stored, Matched, [Next]_vars
  PROVE  Matched'
<1>1. TypeOK /\ Asked BY DEF Typed
<1>0. /\ \A net \in pending : Option(net)'
      /\ \A net : Deleted(net) => Deleted(net)'
      /\ \A net : Option(net) => Option(net)'
      /\ \A net : Given(net) => Given(net)'
      /\ Serviced \subseteq Serviced'
  BY StillGiven DEF Matched
<1>2. CASE /\ UNCHANGED <<serial, config, warned, stranded, pc, op, reply, held>>
           /\ \/ kernel' = kernel /\ UNCHANGED setUp
              \/ kernel' = kernel /\ ListServices
              \/ ApplyNext
  <2>1. /\ table' = table /\ warned' = warned /\ stranded' = stranded
        /\ pc' = pc /\ op' = op /\ Serviced' = Serviced
    BY <1>2 DEF config, Serviced
  <2>2. CASE kernel' = kernel /\ UNCHANGED setUp
    BY <1>0, <2>1, <2>2 DEF Matched, Added4, Added6, Half, Excused, setUp
  <2>3. CASE kernel' = kernel /\ ListServices
    <3>1. pending \subseteq pending' /\ pending' \subseteq pending \cup Serviced'
      BY <2>1, <2>3 DEF ListServices, Serviced
    <3>2. \A net \in pending' : Option(net)'
      <4>1. \A net \in Serviced' : Option(net)' BY DEF Option
      <4> QED BY <1>0, <3>1, <4>1
    <3> QED BY <1>0, <2>1, <2>3, <3>1, <3>2 DEF Matched, Added4, Added6, Half, Excused
  <2>4. CASE ApplyNext
    <3>1. PICK new \in pending : kernel' = kernel \cup {new} /\ pending' = pending \ {new}
      <4>1. NextOption \in pending BY <2>4 DEF ApplyNext, NextOption
      <4> QED BY <2>4, <4>1 DEF ApplyNext
    <3>2. Option(new) /\ new \in Nets BY <1>1, <3>1 DEF Matched, TypeOK
    <3>3. table[new] # None \/ Given(new) BY <3>2 DEF Matched, Option, Given
    <3>4. \A net \in kernel' : table[net] # None \/ Given(net)'
                              \/ \E r \in Requests : Half(r, "insert", net)
      BY <1>0, <3>1, <3>3 DEF Matched
    <3>5. Excused' = Excused BY <2>1, <3>1 DEF Excused
    <3>6. \A r \in Requests : pc[r] = "remove" /\ op[r].net \in kernel' => Option(op[r].net)'
      <4>1. \A net : Option(net) => Option(net)' BY <1>0
      <4>2. ASSUME NEW r \in Requests, pc[r] = "remove", op[r].net \in kernel'
            PROVE  Option(op[r].net)
        BY <3>1, <3>2, <4>2 DEF Matched
      <4>3. \A net : Option(net)' <=> (ReadTable[net] # None \/ net \in Serviced') BY DEF Option
      <4>4. op' = op BY <1>2
      <4>5. \A net : Option(net) => ReadTable[net] # None \/ net \in Serviced' BY <4>1, <4>3
      <4> QED BY <4>2, <4>4, <4>5 DEF Option
    <3>7. \A net \in pending' : Option(net)' BY <1>0, <3>1
    <3> QED BY <1>0, <2>1, <3>1, <3>4, <3>5, <3>6, <3>7 DEF Matched, Added4, Added6, Half
  <2> QED BY <1>2, <2>2, <2>3, <2>4
<1>3. ASSUME NEW r \in Requests, Opens(r) PROVE Matched'
  <2>1. \A q \in Requests, net \in Nets :
          ~Added4(q, net) /\ ~Added6(q, net) /\ ~Half(q, "insert", net) /\ ~Half(q, "remove", net)
    BY <1>3 DEF Opens, Resting, Added4, Added6, Half
  <2>2. kernel \subseteq Nets BY <1>1 DEF TypeOK
  <2>3. /\ \A net \in kernel : table[net] # None \/ Given(net)
        /\ \A net \in Nets : table[net] # None => net \in Excused
    BY <2>1, <2>2 DEF Matched
  <2>4. \A q \in Requests : pc'[q] \notin {"insert", "remove"} BY <1>3 DEF Opens, Resting
  <2>5. Excused' = Excused /\ table' = table /\ kernel' = kernel /\ pending' = pending
    BY <1>3 DEF Opens, routing, setUp, config, Excused
  <2> QED BY <1>0, <2>3, <2>4, <2>5 DEF Matched
<1>4. ASSUME NEW r \in Requests, Only(r) PROVE Matched'
  <2>1. /\ op' = op /\ kernel \subseteq Nets /\ kernel' \subseteq Nets
        /\ \A q \in Requests \ {r} : pc[q] \in Resting /\ pc'[q] \in Resting
    BY <1>4 DEF Only, Typed, TypeOK
  <2>2. MatchedFor(r)
    <3>1. \A net \in kernel : table[net] # None \/ Given(net) \/ Half(r, "insert", net)
      BY <2>1, Halves DEF Matched
    <3>2. \A net \in Nets : table[net] # None =>
            net \in Excused \/ Added4(r, net) \/ Added6(r, net) \/ Half(r, "remove", net)
      BY <2>1, Halves DEF Matched
    <3> QED BY <3>1, <3>2 DEF Matched, MatchedFor
  <2>3. SUFFICES MatchedFor(r)'
    <3>1. \A q \in Requests \ {r} : pc'[q] \notin {"insert", "remove"} BY <2>1 DEF Resting
    <3> QED BY <3>1 DEF MatchedFor, Matched
  <2> USE DEF At, Goto, Reply, Added4, Added6, Half, Excused
  <2>0. pending' = pending BY <1>4 DEF Only, setUp
  <2>4. CASE Index(r)
    <3>1. pc[r] = "index" /\ pc'[r] = "last" /\ kernel' = kernel /\ warned' = warned
          /\ stranded' = stranded
      BY <1>1, <2>4 DEF Index, TypeOK, routing
    <3>2. op[r] # None /\ op[r].kind = "addPeer" BY <1>1, <3>1 DEF Asked, AddSteps
    <3>3. op[r].id \in Peers BY <1>1, <3>2, Asks
    <3>4. table' = Routed(table, op[r].id) BY <1>4, <2>4, NoneLost
    <3>5. \A net \in Nets : IF HasAddr(op[r].id, net)
                            THEN table'[net] = op[r].id /\ op[r].id # None
                            ELSE table'[net] = table[net]
      BY <1>1, <3>3, <3>4, RegistryAssumption DEF Routed, TypeOK, HasAddr
    <3> QED BY <1>0, <2>0, <2>1, <2>2, <3>1, <3>5 DEF MatchedFor, HasAddr
  <2>5. CASE Last(r)
    <3>1. /\ pc[r] = "last" /\ pc'[r] = "apply4"
          /\ table' = table /\ kernel' = kernel /\ warned' = warned
          /\ stranded' = stranded
      BY <1>1, <2>5 DEF Last, TypeOK, config, routing
    <3> QED BY <1>0, <2>0, <2>1, <2>2, <3>1 DEF MatchedFor
  <2>6. CASE Apply4(r)
    <3>1. /\ pc[r] = "apply4" /\ pc'[r] = "apply6" /\ table' = table
          /\ target[r] = op[r].id /\ table[Host4[op[r].id]] = op[r].id
      BY <1>1, <2>6 DEF Apply4, TypeOK, config, Stored
    <3>2. op[r].id # None BY <1>1, <3>1 DEF TypeOK
    <3>3. /\ stranded' = stranded
          /\ \/ kernel' = kernel \cup {Host4[op[r].id]} /\ warned' = warned
             \/ warned' = warned \cup {Host4[op[r].id]} /\ kernel' = kernel
      BY <2>6, <3>1 DEF Apply4, ApplyHost
    <3> QED BY <1>0, <2>0, <2>1, <2>2, <3>1, <3>2, <3>3 DEF MatchedFor
  <2>7. CASE Apply6(r)
    <3>1. /\ pc[r] = "apply6" /\ pc'[r] = "rediscover" /\ table' = table
          /\ target[r] = op[r].id /\ table[Host6[op[r].id]] = op[r].id
      BY <1>1, <2>7 DEF Apply6, TypeOK, config, Stored
    <3>2. op[r].id # None BY <1>1, <3>1 DEF TypeOK
    <3>3. /\ stranded' = stranded
          /\ \/ kernel' = kernel \cup {Host6[op[r].id]} /\ warned' = warned
             \/ warned' = warned \cup {Host6[op[r].id]} /\ kernel' = kernel
      BY <2>7, <3>1 DEF Apply6, ApplyHost
    <3> QED BY <1>0, <2>0, <2>1, <2>2, <3>1, <3>2, <3>3 DEF MatchedFor
  <2>8. CASE ApplyRoute(r)
    <3>1. /\ pc[r] = "applyRoute" /\ table' = table /\ warned' = warned /\ stranded' = stranded
          /\ \/ pc'[r] = "insert" /\ kernel' = kernel \cup {op[r].net}
             \/ pc'[r] = "done" /\ kernel' = kernel
      BY <1>1, <2>8 DEF ApplyRoute, TypeOK, config
    <3> QED BY <1>0, <2>0, <2>1, <2>2, <3>1 DEF MatchedFor
  <2>9. CASE InsertRoute(r)
    <3>1. /\ pc[r] = "insert" /\ pc'[r] = "done" /\ kernel' = kernel /\ warned' = warned
          /\ stranded' = stranded
          /\ target[r] # None
      BY <1>1, <2>9 DEF InsertRoute, TypeOK, routing
    <3>2. table' = [table EXCEPT ![op[r].net] = target[r]] BY <1>4, <2>9, NoneLost
    <3>3. \A net \in Nets : table'[net] = IF net = op[r].net THEN target[r] ELSE table[net]
      BY <1>1, <3>2 DEF TypeOK
    <3> QED BY <1>0, <2>0, <2>1, <2>2, <3>1, <3>3 DEF MatchedFor
  <2>10. CASE Unroute(r)
    <3>1. /\ pc[r] = "unroute" /\ table' = table /\ warned' = warned /\ stranded' = stranded
          /\ \/ pc'[r] = "remove" /\ kernel' = kernel \ {op[r].net} /\ op[r].net \in kernel
             \/ pc'[r] = "done" /\ kernel' = kernel
      BY <1>1, <2>10 DEF Unroute, TypeOK, config
    <3> QED BY <1>0, <2>0, <2>1, <2>2, <3>1 DEF MatchedFor
  <2>11. CASE RemoveRoute(r)
    <3>1. pc[r] = "remove" /\ pc'[r] = "done" /\ kernel' = kernel /\ warned' = warned
          /\ stranded' = stranded
      BY <1>1, <2>11 DEF RemoveRoute, TypeOK, routing
    <3>2. table' = [table EXCEPT ![op[r].net] = None] BY <1>4, <2>11, NoneLost
    <3>3. \A net \in Nets : table'[net] = IF net = op[r].net THEN None ELSE table[net]
      BY <1>1, <3>2 DEF TypeOK
    <3>4. Deleted(op[r].net)'
      <4>1. reply'[r] = "ok" BY <1>1, <2>11 DEF RemoveRoute, TypeOK
      <4>2. op[r].kind = "routeDel" BY <1>1, <3>1 DEF Asked
      <4> QED BY <2>1, <4>1, <4>2 DEF Deleted
    <3>5. op[r].net \in kernel => Given(op[r].net)'
      <4>1. ASSUME op[r].net \in kernel PROVE Option(op[r].net)
        BY <2>2, <3>1, <4>1 DEF MatchedFor
      <4>2. ASSUME NEW net, net = op[r].net, Option(net) PROVE Given(net)'
        BY <1>0, <3>4, <2>1, <4>2 DEF Option, Given, Deleted
      <4> QED BY <2>1, <4>1, <4>2 DEF Given, Deleted
    <3> QED BY <1>0, <2>0, <2>1, <2>2, <3>1, <3>3, <3>4, <3>5 DEF MatchedFor
  <2>12. CASE RemoveFails(r)
    <3>1. /\ pc[r] = "remove" /\ pc'[r] = "done" /\ table' = table /\ warned' = warned
          /\ \/ kernel' = kernel \cup {op[r].net} /\ stranded' = stranded
             \/ stranded' = stranded \cup {op[r].net} /\ kernel' = kernel
      BY <1>1, <2>12 DEF RemoveFails, TypeOK, config
    <3> QED BY <1>0, <2>0, <2>1, <2>2, <3>1 DEF MatchedFor
  <2>13. CASE \/ CheckID(r) \/ CheckName(r) \/ LoadPeers(r) \/ StorePeers(r)
              \/ Rediscover(r) \/ Resolve(r)
    <3>1. /\ table' = table /\ kernel' = kernel /\ warned' = warned
          /\ stranded' = stranded
          /\ pc[r] \notin {"last", "apply4", "apply6", "insert", "remove"}
          /\ pc'[r] \notin {"last", "apply4", "apply6", "insert", "remove"}
      BY <1>1, <2>13 DEF CheckID, CheckName, LoadPeers, StorePeers, Rediscover, Resolve,
          TypeOK, config, routing
    <3> QED BY <1>0, <2>0, <2>1, <2>2, <3>1 DEF MatchedFor
  <2> QED BY <1>4, <2>4, <2>5, <2>6, <2>7, <2>8, <2>9, <2>10, <2>11, <2>12, <2>13
          DEF Only, Serve
<1> QED BY <1>2, <1>3, <1>4, OneAtATime
\* What Found says of one peer, when the first n of the list are indexed.
FoundName(i, n) == \/ peers[i].name = NoName
                   \/ \E j \in (i + 1)..n : SameName(i, j)
                   \/ byName[Lower[peers[i].name]] = peers[i].id
FoundNetID(i, n) == \/ \E j \in (i + 1)..n : SameNetID(i, j)
                    \/ byNetID[Host6[peers[i].id]] = peers[i].id

LEMMA FoundStep ==
  ASSUME Typed, serial, Alone, Checked, Stored, Found, [Next]_vars
  PROVE  Found'
<1>1. TypeOK /\ Asked BY DEF Typed
<1>2. peers \in Seq(PeerEntry) /\ Len(peers) \in Nat BY <1>1 DEF TypeOK, PeerEntry
<1>3. \A i \in 1..Indexed : FoundName(i, Indexed) /\ FoundNetID(i, Indexed)
  BY DEF Found, FoundName, FoundNetID
<1>4. SUFFICES (\A i \in 1..Indexed : FoundName(i, Indexed) /\ FoundNetID(i, Indexed))'
  BY DEF Found, FoundName, FoundNetID
<1>5. ASSUME peers' = peers, byName' = byName, byNetID' = byNetID, Indexed' = Indexed
      PROVE  (\A i \in 1..Indexed : FoundName(i, Indexed) /\ FoundNetID(i, Indexed))'
  BY <1>3, <1>5 DEF FoundName, FoundNetID, SameName, SameNetID
<1>6. CASE UNCHANGED <<serial, config, warned, stranded, pc, op, reply, held>>
  BY <1>5, <1>6 DEF config, Indexed
<1>7. ASSUME NEW r \in Requests, Opens(r)
      PROVE  (\A i \in 1..Indexed : FoundName(i, Indexed) /\ FoundNetID(i, Indexed))'
  <2>1. \A q \in Requests : pc[q] # "index" /\ pc'[q] # "index" BY <1>7 DEF Opens, Resting
  <2>2. peers' = peers /\ byName' = byName /\ byNetID' = byNetID BY <1>7 DEF Opens, config
  <2> QED BY <1>5, <2>1, <2>2 DEF Indexed
<1>8. ASSUME NEW r \in Requests, Only(r)
      PROVE  (\A i \in 1..Indexed : FoundName(i, Indexed) /\ FoundNetID(i, Indexed))'
  <2>1. \A q \in Requests \ {r} : pc[q] # "index" /\ pc'[q] # "index"
    BY <1>8 DEF Only, Resting
  <2>2. /\ Indexed = IF pc[r] = "index" THEN Len(peers) - 1 ELSE Len(peers)
        /\ Indexed' = IF pc'[r] = "index" THEN Len(peers') - 1 ELSE Len(peers')
    BY <2>1 DEF Indexed
  <2>3. CASE StorePeers(r)
    <3> DEFINE e == Entry(op[r].id, op[r].name)
    <3>1. /\ pc[r] = "store" /\ peers' = Append(peers, e) /\ pc'[r] = "index"
          /\ byName' = byName /\ byNetID' = byNetID
      BY <1>1, <2>3 DEF StorePeers, At, Goto, TypeOK, Checked
    <3>2. op[r] # None /\ op[r].kind = "addPeer" BY <1>1, <3>1 DEF Asked, AddSteps
    <3>3. e \in PeerEntry BY <1>1, <3>2, Asks DEF Entry, PeerEntry
    <3> HIDE DEF e
    <3>4. Len(peers') = Len(peers) + 1 /\ \A i \in 1..Len(peers) : peers'[i] = peers[i]
      BY <1>2, <3>1, <3>3, Longer
    <3>5. Indexed = Len(peers) /\ Indexed' = Len(peers) BY <1>2, <2>2, <3>1, <3>4
    <3>6. ASSUME NEW i \in 1..Len(peers)
          PROVE  /\ peers'[i] = peers[i]
                 /\ \A j \in (i + 1)..Len(peers) : peers'[j] = peers[j]
      BY <1>2, <3>4
    <3> QED BY <1>3, <3>1, <3>5, <3>6 DEF FoundName, FoundNetID, SameName, SameNetID
  <2>4. CASE Index(r)
    <3> DEFINE n == Len(peers)
    <3>1. /\ pc[r] = "index" /\ pc'[r] = "last" /\ peers' = peers
          /\ byName' = [byName EXCEPT ![Lower[op[r].name]] = op[r].id]
          /\ byNetID' = [byNetID EXCEPT ![Host6[op[r].id]] = op[r].id]
      BY <1>1, <2>4 DEF Index, At, Goto, TypeOK
    <3>2. Indexed = n - 1 /\ Indexed' = n /\ n \in 1..n
      BY <1>1, <1>2, <2>2, <3>1, Elements DEF Asked
    <3>3. peers[n] = Entry(op[r].id, op[r].name) BY <3>1 DEF Stored
    <3>4. peers[n].id = op[r].id /\ peers[n].name = op[r].name BY <3>3 DEF Entry
    <3>5. peers[n] \in PeerEntry BY <1>2, <3>2, Elements
    <3>6. Lower[op[r].name] \in Names /\ Host6[op[r].id] \in Nets
      BY <3>4, <3>5, RegistryAssumption DEF PeerEntry
    <3>7. /\ \A k : k # Lower[op[r].name] => byName'[k] = byName[k]
          /\ byName'[Lower[op[r].name]] = op[r].id
          /\ \A k : k # Host6[op[r].id] => byNetID'[k] = byNetID[k]
          /\ byNetID'[Host6[op[r].id]] = op[r].id
      BY <1>1, <3>1, <3>6 DEF TypeOK
    <3>8. ASSUME NEW i \in 1..n PROVE (FoundName(i, Indexed) /\ FoundNetID(i, Indexed))'
      <4>1. CASE i = n BY <3>1, <3>4, <3>7, <4>1 DEF FoundName, FoundNetID
      <4>2. CASE i # n
        <5>1. i \in 1..Indexed /\ n \in (i + 1)..n /\ (i + 1)..Indexed \subseteq (i + 1)..n
          BY <1>2, <3>2, <4>2
        <5>2. FoundName(i, n)'
          <6>1. CASE Lower[peers[i].name] = Lower[op[r].name]
            BY <3>1, <3>4, <5>1, <6>1 DEF FoundName, SameName
          <6>2. CASE Lower[peers[i].name] # Lower[op[r].name]
            BY <1>3, <3>1, <3>7, <5>1, <6>2 DEF FoundName, SameName
          <6> QED BY <6>1, <6>2
        <5>3. FoundNetID(i, n)'
          <6>1. CASE Host6[peers[i].id] = Host6[op[r].id]
            BY <3>1, <3>4, <5>1, <6>1 DEF FoundNetID, SameNetID
          <6>2. CASE Host6[peers[i].id] # Host6[op[r].id]
            BY <1>3, <3>1, <3>7, <5>1, <6>2 DEF FoundNetID, SameNetID
          <6> QED BY <6>1, <6>2
        <5> QED BY <3>1, <3>2, <5>2, <5>3 DEF FoundName, FoundNetID
      <4> QED BY <4>1, <4>2
    <3> QED BY <3>2, <3>8
  <2>5. CASE ~(StorePeers(r) \/ Index(r))
    <3>1. /\ peers' = peers /\ byName' = byName /\ byNetID' = byNetID
          /\ pc[r] # "index" /\ pc'[r] # "index"
      BY <1>1, <1>8, <2>5
      DEF Only, Serve, CheckID, CheckName, LoadPeers, Last, Apply4, Apply6, Rediscover, Resolve,
          ApplyRoute, InsertRoute, Unroute, RemoveRoute, RemoveFails, At, Goto, Reply, config,
          TypeOK
    <3> QED BY <1>5, <2>2, <3>1
  <2> QED BY <2>3, <2>4, <2>5
<1> QED BY <1>6, <1>7, <1>8, OneAtATime

\* An address that leads to a peer that was added, or was changed on request,
\* stays so.
LEMMA StillReached ==
  ASSUME Typed, serial, Alone, [Next]_vars, NEW net \in Nets, Reached(net)
  PROVE  Reached(net)'
<1>1. TypeOK /\ Asked BY DEF Typed
<1>2. ASSUME NEW q \in Requests, op[q] # None, op[q].kind \in {"routeAdd", "routeDel"},
             op[q].net = net
      PROVE  Reached(net)'
  <2>1. op'[q] = op[q] BY <1>1, <1>2, Remembered DEF Asked
  <2> QED BY <1>2, <2>1 DEF Reached
<1>3. ASSUME NEW q \in Requests, Added(q), table'[net] = op[q].id, HasAddr(op[q].id, net)
      PROVE  Reached(net)'
  <2>1. op'[q] = op[q] /\ Added(q)' BY <1>1, <1>3, Remembered DEF Asked, Added, Accepted
  <2> QED BY <1>3, <2>1 DEF Reached, HasAddr
<1>4. CASE UNCHANGED <<serial, config, warned, stranded, pc, op, reply, held>>
  BY <1>2, <1>3, <1>4 DEF Reached, config
<1>5. ASSUME NEW r \in Requests, Opens(r) PROVE Reached(net)'
  BY <1>2, <1>3, <1>5 DEF Reached, Opens, config
<1>6. ASSUME NEW r \in Requests, Only(r) PROVE Reached(net)'
  <2>1. CASE table'[net] = table[net] BY <1>2, <1>3, <2>1 DEF Reached
  <2>2. CASE Index(r) /\ table'[net] # table[net]
    <3>1. op[r] # None /\ op[r].kind = "addPeer" /\ reply[r] # "error" /\ pc[r] = "index"
      BY <1>1, <2>2 DEF Index, At, Asked, AddSteps
    <3>2. op[r].id \in Peers BY <1>1, <3>1, Asks
    <3>3. table' = Routed(table, op[r].id) BY <1>6, <2>2, NoneLost
    <3>4. table'[net] = op[r].id /\ HasAddr(op[r].id, net)
      BY <1>1, <2>2, <3>2, <3>3, RegistryAssumption DEF Routed, TypeOK, HasAddr
    <3> QED BY <1>3, <3>1, <3>4 DEF Added, Accepted
  <2>3. CASE (InsertRoute(r) \/ RemoveRoute(r)) /\ table'[net] # table[net]
    <3>1. op[r] # None /\ op[r].kind \in {"routeAdd", "routeDel"}
      BY <1>1, <2>3 DEF InsertRoute, RemoveRoute, At, Asked
    <3>2. \/ table' = [table EXCEPT ![op[r].net] = target[r]]
          \/ table' = [table EXCEPT ![op[r].net] = None]
      BY <1>6, <2>3, NoneLost
    <3>3. net = op[r].net BY <1>1, <2>3, <3>2 DEF TypeOK
    <3> QED BY <1>2, <3>1, <3>3
  <2>4. CASE ~(Index(r) \/ InsertRoute(r) \/ RemoveRoute(r))
    <3>1. table' = table
      BY <1>6, <2>4
      DEF Only, Serve, CheckID, CheckName, LoadPeers, StorePeers, Last, Apply4, Apply6,
          Rediscover, Resolve, ApplyRoute, Unroute, RemoveFails, config
    <3> QED BY <2>1, <3>1
  <2> QED BY <2>1, <2>2, <2>3, <2>4
<1> QED BY <1>4, <1>5, <1>6, OneAtATime

LEMMA ReachedStep ==
  ASSUME Typed, serial, Alone, AllReached, [Next]_vars
  PROVE  AllReached'
<1>1. TypeOK /\ Asked BY DEF Typed
<1> DEFINE Past == {"last", "apply4", "apply6", "rediscover", "done"}
<1>2. ASSUME NEW r \in Requests, Accepted(r, "addPeer")', pc'[r] \in Past,
             NEW net \in {Host4[op'[r].id], Host6[op'[r].id]}
      PROVE  Reached(net)'
  <2>1. \/ op'[r] = op[r] /\ Accepted(r, "addPeer") /\ pc[r] \in Past
        \/ Index(r)
    <3>1. CASE UNCHANGED <<serial, config, warned, stranded, pc, op, reply, held>>
      BY <1>2, <3>1 DEF Accepted
    <3>2. ASSUME NEW q \in Requests, Opens(q) PROVE <2>1!1
      BY <1>2, <3>2 DEF Opens, Accepted
    <3>3. ASSUME NEW q \in Requests, Only(q), q # r PROVE <2>1!1
      BY <1>2, <3>3 DEF Only, Accepted
    <3>4. ASSUME Only(r), ~Index(r) PROVE <2>1!1
      <4>1. op'[r] = op[r] /\ op[r] # None /\ op[r].kind = "addPeer" /\ reply'[r] # "error"
        BY <1>2, <3>4 DEF Only, Accepted
      <4>2. pc[r] \in Past
        BY <1>1, <1>2, <3>4, <4>1
        DEF Only, Serve, CheckID, CheckName, LoadPeers, StorePeers, Last, Apply4, Apply6,
            Rediscover, Resolve, ApplyRoute, InsertRoute, Unroute, RemoveRoute, RemoveFails,
            At, Goto, Reply, TypeOK, Asked
      <4>3. reply[r] # "error" BY <1>1, <3>4 DEF Only, Resting, Asked
      <4> QED BY <4>1, <4>2, <4>3 DEF Accepted
    <3> QED BY <3>1, <3>2, <3>3, <3>4, OneAtATime
  <2>2. CASE op'[r] = op[r] /\ Accepted(r, "addPeer") /\ pc[r] \in Past
    <3>1. Reached(net) BY <1>2, <2>2 DEF AllReached
    <3>2. op[r].id \in Peers BY <1>1, <2>2, Asks DEF Accepted
    <3>3. net \in Nets BY <1>2, <2>2, <3>2, RegistryAssumption
    <3> QED BY <3>1, <3>3, StillReached
  <2>3. CASE Index(r)
    <3>1. /\ op[r] # None /\ op[r].kind = "addPeer" /\ reply[r] # "error"
          /\ pc[r] = "index" /\ op' = op
      BY <1>1, <2>3 DEF Index, At, Goto, Asked, AddSteps
    <3>2. op[r].id \in Peers BY <1>1, <3>1, Asks
    <3>3. Only(r)
      <4>1. ~UNCHANGED <<serial, config, warned, stranded, pc, op, reply, held>>
        BY <1>1, <2>3 DEF Index, At, Goto, TypeOK
      <4>2. \A q \in Requests : ~Opens(q) BY <3>1 DEF Opens, Resting
      <4>3. \A q \in Requests : Only(q) => q = r BY <3>1 DEF Only, Resting
      <4> QED BY <4>1, <4>2, <4>3, OneAtATime
    <3>4. table' = Routed(table, op[r].id) BY <2>3, <3>3, NoneLost
    <3>5. table'[net] = op[r].id /\ HasAddr(op[r].id, net)
      BY <1>1, <1>2, <3>1, <3>2, <3>4, RegistryAssumption DEF Routed, TypeOK, HasAddr
    <3>6. Added(r)' BY <3>1, Remembered DEF Added, Accepted
    <3> QED BY <3>1, <3>5, <3>6 DEF Reached, HasAddr
  <2> QED BY <2>1, <2>2, <2>3
<1> QED BY <1>2 DEF AllReached

-----------------------------------------------------------------------------
(* Results                                                                 *)

LEMMA Invariance == Spec => []IInv
<1>1. Init => IInv BY Initially
<1>2. IInv /\ [Next]_vars => IInv'
  <2> SUFFICES ASSUME IInv, [Next]_vars PROVE IInv'
    OBVIOUS
  <2>1. Typed /\ Typed' /\ Sourced' BY TypedStep, SourcedStep DEF IInv
  <2>2. serial' = serial
    <3>1. ASSUME NEW r \in Requests, Start(r) PROVE serial' = serial BY <3>1 DEF Start
    <3>2. ASSUME NEW r \in Requests, Serve(r) PROVE serial' = serial
      BY <3>2
      DEF Serve, CheckID, CheckName, LoadPeers, StorePeers, Index, Last, Apply4, Apply6,
          Rediscover, Resolve, ApplyRoute, InsertRoute, Unroute, RemoveRoute, RemoveFails,
          Goto, Reply
    <3> QED BY <3>1, <3>2, Steps
  <2>3. ASSUME serial PROVE Waiting'
    <3>1. Alone /\ Checked /\ Stored /\ Matched /\ Found /\ AllReached
      BY <2>3 DEF IInv, Waiting
    <3>2. Alone' BY <2>1, <2>3, <3>1, AloneStep
    <3>3. Checked' BY <2>1, <2>3, <3>1, CheckedStep
    <3>4. Stored' BY <2>1, <2>3, <3>1, StoredStep
    <3>5. Matched' BY <2>1, <2>3, <3>1, MatchedStep
    <3>6. Found' BY <2>1, <2>3, <3>1, FoundStep
    <3>7. AllReached' BY <2>1, <2>3, <3>1, ReachedStep
    <3> QED BY <3>2, <3>3, <3>4, <3>5, <3>6, <3>7 DEF Waiting
  <2> QED BY <2>1, <2>2, <2>3 DEF IInv
<1> QED BY <1>1, <1>2, PTL DEF Spec

\* Types.  A request that goes on after a lookup has a peer from it (the checks
\* of the lookups' errors in rpc/server.go).
THEOREM TypeCorrect == Spec => []TypeOK
<1>1. IInv => TypeOK BY DEF IInv, Typed
<1> QED BY <1>1, Invariance, PTL

\* "check whether the peer exists already" (rpc/server.go:216): whatever file
\* and whatever clients ask one after the other, a peer that was added shares
\* neither its ID nor its name with any other of the list.
THEOREM AddedOnce == Spec => []Distinct
<1>1. IInv => Distinct BY DEF IInv, Waiting, Checked, Distinct
<1> QED BY <1>1, Invariance, PTL

\* Whichever step of a request failed (tun.Apply, Insert, Remove, and the
\* restore after it), and however requests meet the set-up of the interface:
\* between requests, once it is set up, what the kernel sends can be forwarded or
\* is a service network's, but for a route of the file deleted early, and what
\* the table can forward is sent, but for what was warned of or stranded.
THEOREM KernelFollows == Spec => []KernelAgrees
<1>1. ASSUME IInv, serial, Quiet, SetUp
      PROVE  LET routes == {net \in Nets : table[net] # None} IN
             /\ \A net \in kernel \ (routes \cup Serviced) :
                  ReadTable[net] # None /\ Deleted(net)
             /\ routes \ kernel \subseteq warned \cup stranded
  <2>1. Matched /\ kernel \subseteq Nets /\ pending = {}
    BY <1>1 DEF IInv, Waiting, Typed, TypeOK, SetUp
  <2>2. \A r \in Requests, net \in Nets :
          ~Added4(r, net) /\ ~Added6(r, net) /\ ~Half(r, "insert", net) /\ ~Half(r, "remove", net)
    BY <1>1 DEF Quiet, Added4, Added6, Half
  <2> QED BY <2>1, <2>2 DEF Matched, Given, Excused
<1>2. IInv => KernelAgrees BY <1>1 DEF KernelAgrees
<1> QED BY <1>2, Invariance, PTL

\* Between requests PeerLookup.ByName and ByNetID hold what config.Read would
\* make of the list, after any number of peers added one after the other.
THEOREM LookupsFollow == Spec => []LookupsAgree
<1>1. ASSUME IInv, serial, Quiet, NEW i \in 1..Len(peers)
      PROVE  LET later == {peers[j] : j \in (i + 1)..Len(peers)} IN
             /\ \/ peers[i].name = NoName
                \/ \E p \in later : Lower[p.name] = Lower[peers[i].name]
                \/ byName[Lower[peers[i].name]] = peers[i].id
             /\ \/ \E p \in later : Host6[p.id] = Host6[peers[i].id]
                \/ byNetID[Host6[peers[i].id]] = peers[i].id
  <2>1. Found BY <1>1 DEF IInv, Waiting
  <2>2. Indexed = Len(peers) BY <1>1 DEF Quiet, Indexed
  <2> QED BY <2>1, <2>2 DEF Found, SameName, SameNetID
<1>2. IInv => LookupsAgree BY <1>1 DEF LookupsAgree
<1> QED BY <1>2, Invariance, PTL

\* Both addresses of a peer for which AddPeer returned no error lead to it, to
\* a peer added since with the same address, or where "route" sent them.
THEOREM AddedReached == Spec => []AddedIsRouted
<1>1. ASSUME IInv, NEW r \in Requests, serial, reply[r] = "ok", op[r].kind = "addPeer",
             NEW net \in {Host4[op[r].id], Host6[op[r].id]}
      PROVE  \/ \E q \in Requests : /\ Accepted(q, "addPeer")
                                    /\ table[net] = op[q].id /\ HasAddr(op[q].id, net)
             \/ \E q \in Requests : /\ op[q] # None
                                    /\ op[q].kind \in {"routeAdd", "routeDel"}
                                    /\ op[q].net = net
  <2>1. AllReached /\ Asked BY <1>1 DEF IInv, Waiting, Typed
  <2>2. pc[r] = "done" BY <1>1, <2>1 DEF Asked
  <2>3. Accepted(r, "addPeer") BY <1>1, <2>1, <2>2 DEF Asked, Accepted
  <2>4. Reached(net) BY <1>1, <2>1, <2>2, <2>3 DEF AllReached
  <2> QED BY <2>4 DEF Reached, Added
<1>2. IInv => AddedIsRouted BY <1>1 DEF AddedIsRouted
<1> QED BY <1>2, Invariance, PTL

\* However requests race, and whichever changes of the trie are lost to others:
\* FindRouteForIP gives a peer that the file names for the network, or a peer
\* of the file or of an AddPeer that was not refused, for its own address or
\* for a Route request that was not refused and refers to it.
THEOREM RoutedAsRequested == Spec => []OnlyRequested
<1>1. ASSUME IInv, NEW net \in Nets, table[net] \notin {None, ConfigRoutes[net]}
      PROVE  \E p \in Announced :
               /\ p.id = table[net]
               /\ \/ HasAddr(p.id, net)
                  \/ \E r \in Requests : /\ Accepted(r, "routeAdd")
                                         /\ op[r].net = net /\ Refers(op[r].ref, p)
  <2>1. PICK p \in PeerEntry : /\ Vouched(p) /\ p.id = table[net]
                               /\ HasAddr(p.id, net) \/ Inserted(p, net)
    BY <1>1 DEF IInv, Sourced
  <2>2. p \in Announced BY <2>1 DEF Vouched, Announced, Added
  <2>3. ASSUME NEW r \in Requests, reply[r] = "ok", op[r].kind = "routeAdd"
        PROVE  Accepted(r, "routeAdd")
    <3>1. pc[r] = "done" BY <1>1, <2>3 DEF IInv, Typed, Asked
    <3> QED BY <1>1, <2>3, <3>1 DEF IInv, Typed, Asked, Accepted
  <2> QED BY <2>1, <2>2, <2>3 DEF Inserted
<1>2. IInv => OnlyRequested BY <1>1 DEF OnlyRequested
<1> QED BY <1>2, Invariance, PTL
-----------------------------------------------------------------------------
(* What the kernel and the lookups hold, however requests race             *)

\* A request for which the kernel has taken a route.
Went(r) == /\ op[r] # None /\ op[r].kind = "routeAdd"
           /\ pc[r] = "insert" \/ reply[r] = "ok"
Meant(net) ==
  \/ ConfigRoutes[net] # None \/ net = Service[Self]
  \/ \E p \in PeerEntry : Vouched(p) /\ (HasAddr(p.id, net) \/ net = Service[p.id])
  \/ \E r \in Requests : Went(r) /\ op[r].net = net

\* What the kernel has, and what UpRun or a request is about to give it, is meant.
GivenMeant ==
  /\ \A net \in kernel \cup pending : Meant(net)
  /\ \A r \in Requests :
       /\ pc[r] = "remove" => Meant(op[r].net)
       /\ pc[r] \in {"apply4", "apply6"} =>
            \E p \in PeerEntry : Vouched(p) /\ p.id = target[r]

\* A key of a lookup leads to a peer that has it.
Keyed ==
  /\ \A n \in Names : byName[n] # None =>
       \E p \in PeerEntry : Vouched(p) /\ p.id = byName[n] /\ Lower[p.name] = n
  /\ \A k \in Nets : byNetID[k] # None =>
       \E p \in PeerEntry : Vouched(p) /\ p.id = byNetID[k] /\ Host6[p.id] = k

LEMMA StillMeant ==
  ASSUME Typed, [Next]_vars, NEW net, Meant(net)
  PROVE  Meant(net)'
<1>1. TypeOK /\ Asked BY DEF Typed
<1>2. ASSUME NEW p \in PeerEntry, Vouched(p), HasAddr(p.id, net) \/ net = Service[p.id]
      PROVE  Meant(net)'
  <2>1. Vouched(p)' BY <1>2, StillVouched
  <2> QED BY <1>2, <2>1 DEF Meant, HasAddr
<1>3. ASSUME NEW r \in Requests, Went(r), op[r].net = net PROVE Meant(net)'
  <2>1. op'[r] = op[r] BY <1>1, <1>3, Remembered DEF Asked, Went
  <2>2. CASE reply[r] = "ok"
    <3>1. reply'[r] = "ok" BY <1>1, <2>2, Remembered DEF Asked
    <3> QED BY <1>3, <2>1, <3>1 DEF Meant, Went
  <2>3. CASE pc[r] = "insert"
    <3>1. pc'[r] = "insert" \/ reply'[r] = "ok"
      <4>1. ASSUME NEW q \in Requests, Start(q) PROVE pc'[r] = pc[r]
        <5>1. q # r BY <2>3, <4>1 DEF Start, At
        <5> QED BY <1>1, <4>1, <5>1 DEF Start, TypeOK
      <4>2. ASSUME NEW q \in Requests, q # r, Serve(q) PROVE pc'[r] = pc[r]
        BY <1>1, <4>2
        DEF TypeOK, Serve, CheckID, CheckName, LoadPeers, StorePeers, Index, Last, Apply4,
            Apply6, Rediscover, Resolve, ApplyRoute, InsertRoute, Unroute, RemoveRoute,
            RemoveFails, At, Goto, Reply
      <4>3. ASSUME Serve(r) PROVE reply'[r] = "ok"
        BY <1>1, <2>3, <4>3
        DEF TypeOK, Serve, CheckID, CheckName, LoadPeers, StorePeers, Index, Last, Apply4,
            Apply6, Rediscover, Resolve, ApplyRoute, InsertRoute, Unroute, RemoveRoute,
            RemoveFails, At, Goto, Reply
      <4> QED BY <2>3, <4>1, <4>2, <4>3, Steps
    <3> QED BY <1>3, <2>1, <3>1 DEF Meant, Went
  <2> QED BY <1>3, <2>2, <2>3 DEF Went
<1> QED BY <1>2, <1>3 DEF Meant

\* Who gives the kernel a route.
LEMMA KernelTakes ==
  ASSUME Typed, [Next]_vars, NEW net \in kernel', net \notin kernel, net \notin pending
  PROVE  \E r \in Requests :
           \/ pc[r] = "apply4" /\ net = Host4[target[r]]
           \/ pc[r] = "apply6" /\ net = Host6[target[r]]
           \/ pc[r] = "applyRoute" /\ pc'[r] = "insert" /\ net = op[r].net
           \/ pc[r] = "remove" /\ net = op[r].net
<1>1. TypeOK BY DEF Typed
<1>2. ASSUME NEW r \in Requests, Start(r) PROVE FALSE BY <1>2 DEF Start, routing
<1>3. ASSUME NEW r \in Requests, Serve(r)
      PROVE  \/ pc[r] = "apply4" /\ net = Host4[target[r]]
             \/ pc[r] = "apply6" /\ net = Host6[target[r]]
             \/ pc[r] = "applyRoute" /\ pc'[r] = "insert" /\ net = op[r].net
             \/ pc[r] = "remove" /\ net = op[r].net
  BY <1>1, <1>3
  DEF TypeOK, Serve, CheckID, CheckName, LoadPeers, StorePeers, Index, Last, Apply4, Apply6,
      Rediscover, Resolve, ApplyRoute, InsertRoute, Unroute, RemoveRoute, RemoveFails,
      ApplyHost, At, Goto, Reply, routing
<1>4. ASSUME ApplyNext PROVE FALSE
  <2>1. NextOption \in pending BY <1>4 DEF ApplyNext, NextOption
  <2> QED BY <1>4, <2>1 DEF ApplyNext
<1> QED BY <1>2, <1>3, <1>4, Steps

LEMMA GivenStep ==
  ASSUME Typed, Sourced, GivenMeant, [Next]_vars
  PROVE  GivenMeant'
<1>1. TypeOK /\ Asked BY DEF Typed
<1>2. ASSUME NEW net \in kernel' PROVE Meant(net)'
  <2>1. CASE net \in kernel \cup pending BY <2>1, StillMeant DEF GivenMeant
  <2>2. CASE net \notin kernel /\ net \notin pending
    <3>1. PICK r \in Requests :
            \/ pc[r] = "apply4" /\ net = Host4[target[r]]
            \/ pc[r] = "apply6" /\ net = Host6[target[r]]
            \/ pc[r] = "applyRoute" /\ pc'[r] = "insert" /\ net = op[r].net
            \/ pc[r] = "remove" /\ net = op[r].net
      BY <2>2, KernelTakes
    <3>2. CASE pc[r] \in {"apply4", "apply6"}
      <4>1. PICK p \in PeerEntry : Vouched(p) /\ p.id = target[r] BY <3>2 DEF GivenMeant
      <4>2. Meant(net) BY <3>1, <3>2, <4>1 DEF Meant, HasAddr
      <4> QED BY <4>2, StillMeant
    <3>3. CASE pc[r] = "applyRoute"
      <4>1. op[r] # None /\ op[r].kind = "routeAdd" BY <1>1, <3>3 DEF Asked
      <4>2. op'[r] = op[r] BY <3>3, Remembered
      <4> QED BY <3>1, <3>3, <4>1, <4>2 DEF Meant, Went
    <3>4. CASE pc[r] = "remove" BY <3>1, <3>4, StillMeant DEF GivenMeant
    <3> QED BY <3>1, <3>2, <3>3, <3>4
  <2> QED BY <2>1, <2>2
<1>3. ASSUME NEW r \in Requests, pc'[r] = "remove" PROVE Meant(op[r].net)'
  <2>1. pc[r] = "remove" \/ Unroute(r)
    <3>1. ASSUME NEW q \in Requests, Start(q) PROVE pc[r] = "remove"
      <4>1. PICK o \in Ops[serial] :
              pc' = [pc EXCEPT ![q] = CASE o.kind = "addPeer" -> "checkID"
                                        [] o.kind = "routeAdd" -> "resolve"
                                        [] o.kind = "routeDel" -> "unroute"]
        BY <3>1 DEF Start
      <4>2. o.kind \in {"addPeer", "routeAdd", "routeDel"}
        BY <1>1, RegistryAssumption DEF TypeOK
      <4> QED BY <1>1, <1>3, <4>1, <4>2 DEF TypeOK
    <3>2. ASSUME NEW q \in Requests, Serve(q), ~Unroute(r) PROVE pc[r] = "remove"
      BY <1>1, <1>3, <3>2
      DEF TypeOK, Serve, CheckID, CheckName, LoadPeers, StorePeers, Index, Last, Apply4,
          Apply6, Rediscover, Resolve, ApplyRoute, InsertRoute, Unroute, RemoveRoute,
          RemoveFails, At, Goto, Reply
    <3> QED BY <1>3, <3>1, <3>2, Steps
  <2>2. pc[r] # "idle" BY <2>1 DEF Unroute, At
  <2>3. op'[r] = op[r] BY <2>2, Remembered
  <2>4. Meant(op[r].net)
    <3>1. CASE Unroute(r)
      <4>1. op[r].net \in kernel BY <1>1, <1>3, <3>1 DEF Unroute, Reply, TypeOK
      <4> QED BY <4>1 DEF GivenMeant
    <3> QED BY <2>1, <3>1 DEF GivenMeant
  <2>5. ASSUME NEW net, net = op[r].net PROVE Meant(net)' BY <2>4, <2>5, StillMeant
  <2> QED BY <2>3, <2>5 DEF Meant
<1>4. ASSUME NEW r \in Requests, pc'[r] \in {"apply4", "apply6"}
      PROVE  \E p \in PeerEntry : Vouched(p)' /\ p.id = target'[r]
  <2>1. SUFFICES \E p \in PeerEntry : Vouched(p) /\ p.id = target'[r] BY StillVouched
  <2>2. (pc[r] \in {"apply4", "apply6"} /\ target'[r] = target[r]) \/ Last(r)
    <3> USE DEF At, Goto, Reply, held
    <3>1. ASSUME NEW q \in Requests, Start(q) PROVE <2>2!1
      <4>1. PICK o \in Ops[serial] :
              pc' = [pc EXCEPT ![q] = CASE o.kind = "addPeer" -> "checkID"
                                        [] o.kind = "routeAdd" -> "resolve"
                                        [] o.kind = "routeDel" -> "unroute"]
        BY <3>1 DEF Start
      <4>2. o.kind \in {"addPeer", "routeAdd", "routeDel"}
        BY <1>1, RegistryAssumption DEF TypeOK
      <4>3. pc'[r] = pc[r] BY <1>1, <1>4, <4>1, <4>2 DEF TypeOK
      <4> QED BY <1>4, <3>1, <4>3 DEF Start
    <3>2. ASSUME NEW q \in Requests, q # r, Serve(q) PROVE <2>2!1
      BY <1>1, <1>4, <3>2
      DEF TypeOK, Serve, CheckID, CheckName, LoadPeers, StorePeers, Index, Last, Apply4, Apply6,
          Rediscover, Resolve, ApplyRoute, InsertRoute, Unroute, RemoveRoute, RemoveFails
    <3>3. ASSUME Serve(r) PROVE <2>2
      BY <1>1, <1>4, <3>3
      DEF TypeOK, Serve, CheckID, CheckName, LoadPeers, StorePeers, Index, Apply4, Apply6,
          Rediscover, Resolve, ApplyRoute, InsertRoute, Unroute, RemoveRoute, RemoveFails
    <3> QED BY <1>4, <3>1, <3>2, <3>3, Steps
  <2>3. CASE Last(r)
    <3>1. pc[r] = "last" /\ target' = [target EXCEPT ![r] = peers[Len(peers)].id]
      BY <2>3 DEF Last, At
    <3>2. Len(peers) \in 1..Len(peers) /\ peers[Len(peers)] \in PeerEntry
      <4>1. peers # <<>> /\ peers \in Seq(PeerEntry)
        BY <1>1, <3>1 DEF Asked, TypeOK, PeerEntry
      <4> QED BY <4>1, Elements
    <3>3. Vouched(peers[Len(peers)]) BY <3>2 DEF Sourced
    <3>4. target'[r] = peers[Len(peers)].id BY <1>1, <3>1 DEF TypeOK
    <3> QED BY <3>2, <3>3, <3>4
  <2> QED BY <2>2, <2>3 DEF GivenMeant
<1>5. ASSUME NEW net \in pending' PROVE Meant(net)'
  <2>1. CASE net \in pending BY <2>1, StillMeant DEF GivenMeant
  <2>2. CASE net \notin pending
    <3>1. ListServices
      <4>1. ASSUME NEW r \in Requests, Start(r) \/ Serve(r) PROVE pending' = pending
        BY <4>1
        DEF Start, Serve, CheckID, CheckName, LoadPeers, StorePeers, Index, Last, Apply4,
            Apply6, Rediscover, Resolve, ApplyRoute, InsertRoute, Unroute, RemoveRoute,
            RemoveFails, Goto, Reply, setUp
      <4>2. ApplyNext => pending' \subseteq pending BY DEF ApplyNext
      <4> QED BY <1>5, <2>2, <4>1, <4>2, Steps DEF setUp
    <3>2. net = Service[Self] \/ \E i \in 1..Len(peers) : net = Service[peers[i].id]
      BY <1>5, <2>2, <3>1 DEF ListServices
    <3>3. \A i \in 1..Len(peers) : peers[i] \in PeerEntry /\ Vouched(peers[i])
      <4>1. peers \in Seq(PeerEntry) BY <1>1 DEF TypeOK, PeerEntry
      <4> QED BY <4>1, Elements DEF Sourced
    <3>4. Meant(net) BY <3>2, <3>3 DEF Meant
    <3> QED BY <3>4, StillMeant
  <2> QED BY <2>1, <2>2
<1> QED BY <1>2, <1>3, <1>4, <1>5 DEF GivenMeant

LEMMA KeyedStep == ASSUME Typed, Keyed, [Next]_vars PROVE Keyed'
<1>1. TypeOK /\ Asked BY DEF Typed
<1>2. \A p : Vouched(p) => Vouched(p)' BY StillVouched
<1>3. CASE UNCHANGED <<byName, byNetID>> BY <1>2, <1>3 DEF Keyed
<1>4. ASSUME NEW r \in Requests, Index(r) PROVE Keyed'
  <2> DEFINE e == Entry(op[r].id, op[r].name)
  <2>1. op[r] # None /\ op[r].kind = "addPeer" /\ reply[r] # "error"
    BY <1>1, <1>4 DEF Index, At, Asked, AddSteps
  <2>2. e \in PeerEntry /\ e.id = op[r].id /\ e.name = op[r].name
    BY <1>1, <2>1, Asks DEF Entry, PeerEntry
  <2>3. Vouched(e) BY <1>4, <2>1 DEF Index, At, Vouched, Added, Accepted
  <2>4. /\ byName' = [byName EXCEPT ![Lower[e.name]] = e.id]
        /\ byNetID' = [byNetID EXCEPT ![Host6[e.id]] = e.id]
    BY <1>4, <2>2 DEF Index
  <2> HIDE DEF e
  <2>5. ASSUME NEW n \in Names, byName'[n] # None
        PROVE  \E p \in PeerEntry : Vouched(p)' /\ p.id = byName'[n] /\ Lower[p.name] = n
    <3>1. CASE n = Lower[e.name]
      <4>1. byName'[n] = e.id BY <1>1, <2>4, <3>1 DEF TypeOK
      <4> QED BY <1>2, <2>2, <2>3, <3>1, <4>1
    <3>2. CASE n # Lower[e.name]
      <4>1. byName'[n] = byName[n] BY <1>1, <2>4, <3>2 DEF TypeOK
      <4> QED BY <1>2, <2>5, <4>1 DEF Keyed
    <3> QED BY <3>1, <3>2
  <2>6. ASSUME NEW k \in Nets, byNetID'[k] # None
        PROVE  \E p \in PeerEntry : Vouched(p)' /\ p.id = byNetID'[k] /\ Host6[p.id] = k
    <3>1. CASE k = Host6[e.id]
      <4>1. byNetID'[k] = e.id BY <1>1, <2>4, <3>1 DEF TypeOK
      <4> QED BY <1>2, <2>2, <2>3, <3>1, <4>1
    <3>2. CASE k # Host6[e.id]
      <4>1. byNetID'[k] = byNetID[k] BY <1>1, <2>4, <3>2 DEF TypeOK
      <4> QED BY <1>2, <2>6, <4>1 DEF Keyed
    <3> QED BY <3>1, <3>2
  <2> QED BY <2>5, <2>6 DEF Keyed
<1>5. UNCHANGED <<byName, byNetID>> \/ \E r \in Requests : Index(r)
  <2>1. ASSUME NEW r \in Requests, Start(r) PROVE UNCHANGED <<byName, byNetID>>
    BY <2>1 DEF Start, config
  <2>2. ASSUME NEW r \in Requests, Serve(r) PROVE UNCHANGED <<byName, byNetID>> \/ Index(r)
    BY <2>2 DEF Serve, CheckID, CheckName, LoadPeers, StorePeers, Last, Apply4, Apply6,
       Rediscover, Resolve, ApplyRoute, InsertRoute, Unroute, RemoveRoute, RemoveFails, config
  <2> QED BY <2>1, <2>2, Steps DEF config
<1> QED BY <1>3, <1>4, <1>5

LEMMA InitialEntries == ASSUME Init PROVE GivenMeant /\ Keyed
<1>1. ConfigPeers \in Seq(PeerEntry) BY RegistryAssumption DEF PeerEntry
<1>2. \A i \in 1..Len(ConfigPeers) : ConfigPeers[i] \in PeerEntry /\ Vouched(ConfigPeers[i])
  BY <1>1, Elements DEF Vouched
<1> DEFINE routed(net) == {i \in 1..Len(ConfigPeers) :
                             LET id == ConfigPeers[i].id
                             IN HasAddr(id, net) \/ ConfigRoutes[net] = id}
           named(n) == {i \in 1..Len(ConfigPeers) : /\ ConfigPeers[i].name # NoName
                                                     /\ Lower[ConfigPeers[i].name] = n}
           numbered(k) == {i \in 1..Len(ConfigPeers) : Host6[ConfigPeers[i].id] = k}
<1>3. ASSUME NEW net \in pending PROVE Meant(net)
  <2>1. net \in Nets /\ LastOf(routed(net)) # None BY <1>3 DEF Init, ReadTable
  <2>2. PICK i \in routed(net) : TRUE
    <3>1. routed(net) # {} BY <2>1 DEF LastOf
    <3> QED BY <3>1
  <2>3. i \in 1..Len(ConfigPeers) /\ ConfigPeers[i].id \in Peers
    BY <1>2, <2>2 DEF PeerEntry
  <2>4. HasAddr(ConfigPeers[i].id, net) \/ ConfigRoutes[net] = ConfigPeers[i].id BY <2>2
  <2> QED BY <1>2, <2>3, <2>4, RegistryAssumption DEF Meant
<1>4. ASSUME NEW n \in Names, byName[n] # None
      PROVE  \E p \in PeerEntry : Vouched(p) /\ p.id = byName[n] /\ Lower[p.name] = n
  <2>1. byName[n] = LastOf(named(n)) BY DEF Init
  <2>2. named(n) # {} BY <1>4, <2>1 DEF LastOf
  <2>3. PICK i \in named(n) : LastOf(named(n)) = ConfigPeers[i].id BY <2>2, LastOfFile
  <2>4. i \in 1..Len(ConfigPeers) /\ Lower[ConfigPeers[i].name] = n OBVIOUS
  <2> QED BY <1>2, <2>1, <2>3, <2>4
<1>5. ASSUME NEW k \in Nets, byNetID[k] # None
      PROVE  \E p \in PeerEntry : Vouched(p) /\ p.id = byNetID[k] /\ Host6[p.id] = k
  <2>1. byNetID[k] = LastOf(numbered(k)) BY DEF Init
  <2>2. numbered(k) # {} BY <1>5, <2>1 DEF LastOf
  <2>3. PICK i \in numbered(k) : LastOf(numbered(k)) = ConfigPeers[i].id BY <2>2, LastOfFile
  <2>4. i \in 1..Len(ConfigPeers) /\ Host6[ConfigPeers[i].id] = k OBVIOUS
  <2> QED BY <1>2, <2>1, <2>3, <2>4
<1> QED BY <1>3, <1>4, <1>5 DEF Init, GivenMeant, Keyed

LEMMA Entered == Spec => [](GivenMeant /\ Keyed)
<1>1. Init => GivenMeant /\ Keyed BY InitialEntries
<1>2. IInv /\ GivenMeant /\ Keyed /\ [Next]_vars => (GivenMeant /\ Keyed)'
  BY GivenStep, KeyedStep DEF IInv
<1> QED BY <1>1, <1>2, Invariance, PTL DEF Spec

\* What OnlyRequested is for the table, for the kernel and for the lookups.
KernelAsRequested ==
  \A net \in kernel :
    \/ ConfigRoutes[net] # None \/ net = Service[Self]
    \/ \E p \in Announced : HasAddr(p.id, net) \/ net = Service[p.id]
    \/ \E r \in Requests : Accepted(r, "routeAdd") /\ op[r].net = net
LookupsAsRequested ==
  /\ \A n \in Names : byName[n] # None =>
       \E p \in Announced : p.id = byName[n] /\ Lower[p.name] = n
  /\ \A k \in Nets : byNetID[k] # None =>
       \E p \in Announced : p.id = byNetID[k] /\ Host6[p.id] = k

\* However requests race with each other and with the set-up of the interface,
\* and whichever of their steps fail: the kernel sends the interface only what
\* the file, an address or the service network of the node or of an announced
\* peer, or a Route request that was not refused asks for.  A Route "del" that
\* fails puts back what was asked for before, AddPeer's routes, made for
\* whichever peer is the last of the list by then, are those of a peer, and so
\* are the service networks UpRun reads from a list that requests add to.
THEOREM KernelRequested == Spec => []KernelAsRequested
<1>1. ASSUME IInv, GivenMeant, NEW net \in kernel
      PROVE  \/ ConfigRoutes[net] # None \/ net = Service[Self]
             \/ \E p \in Announced : HasAddr(p.id, net) \/ net = Service[p.id]
             \/ \E r \in Requests : Accepted(r, "routeAdd") /\ op[r].net = net
  <2>1. Meant(net) BY <1>1 DEF GivenMeant
  <2>2. \A p : Vouched(p) => p \in Announced BY DEF Vouched, Announced, Added
  <2>3. ASSUME NEW r \in Requests, Went(r) PROVE Accepted(r, "routeAdd")
    <3>1. Asked BY <1>1 DEF IInv, Typed
    <3> QED BY <2>3, <3>1 DEF Asked, Went, Accepted
  <2> QED BY <2>1, <2>2, <2>3 DEF Meant
<1>2. IInv /\ GivenMeant => KernelAsRequested BY <1>1 DEF KernelAsRequested
<1> QED BY <1>2, Invariance, Entered, PTL

\* However requests race: Magic DNS and the service network, which look up
\* ByName and ByNetID, get a peer that has the name or the network ID and that
\* the file or an AddPeer that was not refused names.
THEOREM LookupsRequested == Spec => []LookupsAsRequested
<1>1. \A p : Vouched(p) => p \in Announced BY DEF Vouched, Announced, Added
<1>2. Keyed => LookupsAsRequested BY <1>1 DEF Keyed, LookupsAsRequested
<1> QED BY <1>2, Entered, PTL
=============================================================================
