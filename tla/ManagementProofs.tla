-------------------------- MODULE ManagementProofs --------------------------
(***************************************************************************)
(* Proofs about Management, for any clients, operations, tries, daemons    *)
(* and peers: who is told that a peer was added finds it by its name, and  *)
(* in the list unless appends met, and a retry adds nothing twice.         *)
(***************************************************************************)
EXTENDS Management, SequenceTheorems, FiniteSetTheorems, TLAPS

Places == {"none", "check", "load", "store", "index", "rediscover", "status",
           "read", "size", "fill", "route", "address", "answer"}

Who(k) == k[1]
Has(c, ps) == \E i \in DOMAIN ps : ps[i].id = op[c].id

\* The name a client asked for leads to its peer or to a rival's.
Leads(c) == \E p \in {op[c].id} \cup Rivals(c) : byName[Lower[op[c].name]] = {p}

\* Who is in a list because of a client is what that client asked for.
Fits(ps, clients, ops) ==
  \A i \in DOMAIN ps :
    ps[i].by # None => clients[ps[i].by] # "idle" /\ ps[i].id = ops[ps[i].by].id

\* The list is written, and the table of names, for a request that was granted.
Granted(k) == \/ at[k] = "rediscover"
              \/ at[k] = "answer" /\ outcome[k] = "ok" /\ OpOf(k).kind = "addPeer"

\* A client has asked before anything is done for it, and what serves it does
\* what it asked for.
Asked ==
  /\ phase = "off" => rpc = "off" /\ json = "off"
  /\ \A c \in Clients : client[c] # "idle" => op[c] \in Ops[c]
  /\ \A c \in Clients : client[c] = "idle" => told[c].what = "none" /\ op[c] = None
  /\ \A k \in Calls :
       /\ at[k] # "none" => client[Who(k)] # "idle" /\ phase # "off"
       /\ at[k] \in {"check", "load", "store", "index", "rediscover"} => OpOf(k).kind = "addPeer"
       /\ at[k] = "status" => OpOf(k).kind = "status"
       /\ at[k] \in {"read", "size", "fill"} => OpOf(k).kind = "peers"
       /\ at[k] = "route" => OpOf(k).kind = "route"
       /\ at[k] = "address" => OpOf(k).kind = "nodeIp"

\* A client gives up only on a request that waits for discovery.
Attended == \A k \in Calls : at[k] \notin {"none", "rediscover", "answer"} => Waits(k)

\* What a request has added is what its client asked for, and it adds only if
\* an earlier one of that client has not, or appends have met.
Added ==
  /\ Fits(list, client, op) /\ \A k \in Calls : Fits(seen[k], client, op)
  /\ \A k \in Calls :
       at[k] \in {"load", "store"} =>
         lost \/ \A i \in DOMAIN list : list[i].by \in {None} \/ list[i].by # Who(k)

\* After its append a peer is in the list as long as appends do not meet, and
\* after the table of names is written the name leads somewhere.
Done ==
  /\ \A k \in Calls : at[k] = "index" => lost \/ Has(Who(k), list)
  /\ \A k \in Calls : Granted(k) => (lost \/ Has(Who(k), list)) /\ Leads(Who(k))
  /\ \A c \in Clients :
       /\ told[c].daemon <= daemon
       /\ (/\ told[c].what = "done" /\ op[c].kind = "addPeer"
           /\ phase # "off" /\ told[c].daemon = daemon)
            => (lost \/ Has(c, list)) /\ Leads(c)

IInv == TypeOK /\ Asked /\ Attended /\ Added /\ RetryAddsOnce /\ Done

LEMMA CallOf ==
  /\ \A k \in Calls : Who(k) \in Clients /\ k = <<Who(k), k[2]>>
  /\ \A c \in Clients : try[c] \in 1..MaxTries[c] =>
       /\ Current(c) \in Calls /\ Who(Current(c)) = c
BY DEF Calls, Who, Current

\* Where a request begins.
LEMMA FirstStep ==
  ASSUME NEW c \in Clients, NEW o \in Ops[c], platform \in {"unix", "windows"}
  PROVE  /\ o.kind = "addPeer" => First(o) = "check"
         /\ o.kind = "status" => First(o) = "status"
         /\ o.kind = "peers" => First(o) = IF platform = "unix" THEN "read" ELSE "size"
         /\ o.kind = "route" => First(o) = "route"
         /\ o.kind = "nodeIp" => First(o) = "address"
         /\ o.kind \in {"addPeer", "status", "peers", "route", "nodeIp"}
<1>1. o.kind \in {"addPeer", "status", "peers", "route", "nodeIp"}
  BY ManagementAssumption
<1> QED BY <1>1 DEF First

\* "done" is what a client is told of success only.
LEMMA ToldOk ==
  ASSUME NEW k \in Calls, outcome[k] \in {"ok", "refused", "error"}
  PROVE  Told(k) \in {"done", "reason", "failed"} /\ (Told(k) = "done" => outcome[k] = "ok")
BY DEF Told, GobReply, JsonReply

\* A peer behind the others.
LEMMA Grown ==
  ASSUME NEW s \in Seq(Entry), NEW e \in Entry
  PROVE  /\ Append(s, e) \in Seq(Entry)
         /\ DOMAIN s = 1..Len(s) /\ DOMAIN Append(s, e) = 1..(Len(s) + 1)
         /\ Len(Append(s, e)) = Len(s) + 1 /\ Len(s) \in Nat
         /\ \A i \in DOMAIN s : Append(s, e)[i] = s[i]
         /\ Append(s, e)[Len(s) + 1] = e
BY AppendProperties

\* Who added an entry is a client or nobody.
LEMMA Authors ==
  ASSUME NEW s \in Seq(Entry)
  PROVE  \A i \in DOMAIN s : s[i].by \in Clients \cup {None}
<1>1. DOMAIN s = 1..Len(s) OBVIOUS
<1>2. \A i \in DOMAIN s : s[i] \in Entry BY <1>1, ElementOfSeq
<1> QED BY <1>2 DEF Entry

\* Clients that have asked do not ask for something else.
LEMMA StillFits ==
  \A s \in Seq(Entry) : \A clients1, clients2, ops1, ops2 :
    (/\ Fits(s, clients1, ops1)
     /\ \A d \in Clients : clients1[d] # "idle" => clients2[d] # "idle" /\ ops2[d] = ops1[d])
      => Fits(s, clients2, ops2)
BY Authors DEF Fits

\* The lists of the invariant.
LEMMA Lists ==
  ASSUME TypeOK
  PROVE  /\ list \in Seq(Entry) /\ \A k \in Calls : seen[k] \in Seq(Entry)
         /\ \A i \in DOMAIN list : list[i].by \in Clients \cup {None}
BY Authors DEF TypeOK

\* A set of positions has a last one.
LEMMA LastOf ==
  ASSUME NEW n \in Nat, NEW S, S \subseteq 1..n, S # {}
  PROVE  Max(S) \in S
<1> DEFINE behind(i) == {j \in S : j > i}
           T == {behind(i) : i \in S}
<1>1. IsFiniteSet(1..n) BY FS_Interval
<1>2. \A i \in S : behind(i) \in FiniteSubsetsOf(1..n)
  <2> SUFFICES ASSUME NEW i \in S PROVE behind(i) \in FiniteSubsetsOf(1..n)
    OBVIOUS
  <2>1. behind(i) \subseteq 1..n OBVIOUS
  <2> HIDE DEF behind
  <2> QED BY <1>1, <2>1, FS_Subset DEF FiniteSubsetsOf
<1>3. T \subseteq FiniteSubsetsOf(1..n) /\ T # {} BY <1>2
<1>4. PICK t \in T : \A u \in T : <<u, t>> \notin StrictSubsetOrdering(1..n)
  <2> HIDE DEF T
  <2> QED BY <1>3, FS_StrictSubsetOrderingWellFounded, WFMin
<1>5. PICK i \in S : t = behind(i) BY <1>4
<1>6. \A j \in S : i >= j
  <2> SUFFICES ASSUME NEW j \in S, i < j PROVE FALSE
    OBVIOUS
  <2>1. i \in Nat /\ j \in Nat /\ \A m \in S : m \in Nat OBVIOUS
  <2>2. j \in behind(i) /\ j \notin behind(j) /\ behind(i) \subseteq S BY <2>1
  <2>3. behind(j) \subseteq behind(i)
    <3>1. \A m \in S : m > j => m > i BY <2>1
    <3> QED BY <3>1
  <2>4. behind(j) \in T OBVIOUS
  <2> HIDE DEF behind, T
  <2>5. behind(i) \subseteq 1..n /\ behind(j) \subseteq 1..n BY <2>2, <2>3
  <2> QED BY <1>4, <1>5, <2>2, <2>3, <2>4, <2>5 DEF StrictSubsetOrdering
<1>7. \E x \in S : \A y \in S : x >= y BY <1>6
<1> QED BY <1>7 DEF Max

\* The table that config.Read makes, and what AddPeer makes of a table.
LEMMA Tables ==
  /\ \A peers \in Seq([id : Peers, name : Names]) : TableOf(peers) \in [Names -> SUBSET Peers]
  /\ \A table \in [Names -> SUBSET Peers], name \in Names, id \in Peers :
       /\ Put(table, name, id) \in [Names -> SUBSET Peers]
       /\ \A n \in Names : Put(table, name, id)[n] = IF n = Lower[name] THEN {id} ELSE table[n]
<1>1. ASSUME NEW peers \in Seq([id : Peers, name : Names])
      PROVE  TableOf(peers) \in [Names -> SUBSET Peers]
  <2> DEFINE at0(n) == {i \in DOMAIN peers : Lower[peers[i].name] = n}
  <2>1. /\ Len(peers) \in Nat /\ DOMAIN peers = 1..Len(peers)
        /\ \A i \in DOMAIN peers : peers[i] \in [id : Peers, name : Names]
    <3>1. Len(peers) \in Nat /\ DOMAIN peers = 1..Len(peers) OBVIOUS
    <3>2. \A i \in 1..Len(peers) : peers[i] \in [id : Peers, name : Names] BY ElementOfSeq
    <3> QED BY <3>1, <3>2
  <2>2. ASSUME NEW n \in Names, at0(n) # {} PROVE peers[Max(at0(n))].id \in Peers
    <3>1. at0(n) \subseteq 1..Len(peers) BY <2>1
    <3> HIDE DEF at0
    <3>2. Max(at0(n)) \in 1..Len(peers) BY <2>1, <2>2, <3>1, LastOf
    <3> QED BY <2>1, <3>2
  <2>3. \A n \in Names : {peers[Max(is)].id : is \in {at0(n)} \ {{}}} \in SUBSET Peers
    <3> HIDE DEF at0
    <3> QED BY <2>2
  <2> QED BY <2>3 DEF TableOf
<1>2. ASSUME NEW table \in [Names -> SUBSET Peers], NEW name \in Names, NEW id \in Peers
      PROVE  /\ Put(table, name, id) \in [Names -> SUBSET Peers]
             /\ \A n \in Names : Put(table, name, id)[n] = IF n = Lower[name] THEN {id} ELSE table[n]
  BY <1>2, MagicDnsAssumption DEF Put
<1> QED BY <1>1, <1>2

LEMMA Initially == Init => IInv
<1> SUFFICES ASSUME Init PROVE IInv
  OBVIOUS
<1>1. TypeOK
  <2>1. \A c \in Clients : 1 \in 1..MaxTries[c] BY ManagementAssumption
  <2>2. 0 \in 0..MaxStarts /\ 0 \in 0..MaxPasses BY ManagementAssumption
  <2>3. <<>> \in Seq(Entry) OBVIOUS
  <2>4. [what |-> "none", daemon |-> 0]
           \in [what : {"none", "done", "reason", "failed"}, daemon : 0..MaxStarts]
    BY <2>2
  <2>6. /\ client = [c \in Clients |-> "idle"] /\ op = [c \in Clients |-> None]
        /\ try = [c \in Clients |-> 1] /\ url = [c \in Clients |-> 0]
    BY DEF Init
  <2>7. \A c \in Clients : /\ op[c] \in Ops[c] \cup {None} /\ try[c] \in 1..MaxTries[c]
                           /\ client[c] # "wait"
    BY <2>1, <2>6
  <2>8. try \in [Clients -> Nat] BY <2>6
  <2>9. op = [c \in Clients |-> op[c]] BY <2>6
  <2>10. byName \in [Names -> SUBSET Peers] BY DEF Init
  <2>11. seen \in [Calls -> Seq(Entry)] BY <2>3 DEF Init
  <2>12. at \in [Calls -> Places] /\ outcome \in [Calls -> {"ok", "refused", "error"}]
    BY DEF Init, Places
  <2>13. /\ client \in [Clients -> {"idle", "dial", "wait", "told"}]
         /\ url \in [Clients -> 0..MaxStarts]
    BY <2>2, <2>6
  <2>14. told \in [Clients -> [what : {"none", "done", "reason", "failed"}, daemon : 0..MaxStarts]]
    BY <2>4 DEF Init
  <2>15. /\ platform \in {"unix", "windows"}
         /\ phase \in {"off", "on", "cancelled"} /\ daemon \in 0..MaxStarts
         /\ {rpc, json} \subseteq {"off", "listening", "closed"}
         /\ {rpcPort, jsonPort} \subseteq 0..daemon
         /\ loop \in {"free", "busy", "returned"} /\ passes \in 0..MaxPasses
         /\ list \in Seq(Entry) /\ lost \in BOOLEAN
    <3>1. daemon = 0 /\ rpcPort = 0 /\ jsonPort = 0 /\ passes = 0 /\ list = <<>> /\ lost = FALSE
      BY DEF Init
    <3>2. list \in Seq(Entry) BY <2>3, <3>1
    <3>3. {rpcPort, jsonPort} \subseteq 0..daemon BY <3>1
    <3>4. /\ platform \in {"unix", "windows"} /\ phase = "off"
          /\ rpc = "off" /\ json = "off" /\ loop = "free"
      BY DEF Init
    <3> QED BY <2>2, <3>1, <3>2, <3>3, <3>4
  <2> QED BY <2>7, <2>8, <2>9, <2>10, <2>11, <2>12, <2>13, <2>14, <2>15 DEF TypeOK, Places
<1>2. Asked /\ Attended BY CallOf DEF Init, Asked, Attended
<1>3. Added /\ RetryAddsOnce BY DEF Init, Added, Fits, RetryAddsOnce
<1>4. Done BY DEF Init, Done, Granted
<1> QED BY <1>1, <1>2, <1>3, <1>4 DEF IInv

\* The process ends: nothing is served any more.
LEMMA GoneInv == ASSUME IInv, Gone PROVE IInv'
<1> USE DEF IInv, Gone, Nowhere
<1>1. TypeOK'
  <2>1. <<>> \in Seq(Entry) /\ 0 \in 0..MaxStarts /\ 0 \in 0..MaxPasses
    BY ManagementAssumption
  <2>2. client' \in [Clients -> {"idle", "dial", "wait", "told"}]
        /\ \A c \in Clients : client'[c] # "wait"
    BY DEF TypeOK
  <2>3. told' \in [Clients -> [what : {"none", "done", "reason", "failed"}, daemon : 0..MaxStarts]]
    <3>1. [what |-> "failed", daemon |-> 0]
             \in [what : {"none", "done", "reason", "failed"}, daemon : 0..MaxStarts]
      BY <2>1
    <3> QED BY <3>1 DEF TypeOK
  <2>4. at' \in [Calls -> Places]
        /\ seen' \in [Calls -> Seq(Entry)]
        /\ outcome' \in [Calls -> {"ok", "refused", "error"}]
    BY <2>1 DEF Places
  <2>5. list' \in Seq(Entry) /\ byName' \in [Names -> SUBSET Peers] /\ lost' \in BOOLEAN
    BY <2>1
  <2> QED BY <2>1, <2>2, <2>3, <2>4, <2>5 DEF TypeOK, Places
<1>2. Asked' BY DEF TypeOK, Asked
<1>3. Attended' BY DEF Attended
<1>4. Added' /\ RetryAddsOnce' BY DEF Added, Fits, RetryAddsOnce
<1>5. Done' BY DEF TypeOK, Done, Granted
<1> QED BY <1>1, <1>2, <1>3, <1>4, <1>5

\* The daemon's own steps leave list, names and requests alone.
LEMMA LiveInv ==
  ASSUME IInv,
         \/ ListenRpc \/ ListenJson \/ BeginPass \/ EndPass \/ Cancel \/ LoopReturns
         \/ CloseRpc \/ CloseJson
  PROVE  IInv'
<1> USE DEF IInv, process, servers, discovery, config, command, handlers
<1>1. /\ UNCHANGED <<platform, daemon, config, command, handlers>>
      /\ phase # "off" /\ phase' # "off"
  BY DEF ListenRpc, ListenJson, BeginPass, EndPass, Cancel, LoopReturns, CloseRpc, CloseJson, Asked
<1>2. TypeOK'
  <2>1. /\ {rpc', json'} \subseteq {"off", "listening", "closed"}
        /\ {rpcPort', jsonPort'} \subseteq 0..daemon
        /\ loop' \in {"free", "busy", "returned"} /\ passes' \in 0..MaxPasses
        /\ phase' \in {"off", "on", "cancelled"}
    BY ManagementAssumption DEF ListenRpc, ListenJson, BeginPass, EndPass, Cancel, LoopReturns,
       CloseRpc, CloseJson, TypeOK
  <2> QED BY <1>1, <2>1 DEF TypeOK, Current
<1>3. Asked' /\ Attended' BY <1>1 DEF Asked, Attended, Waits, Current, OpOf
<1>4. Added' /\ RetryAddsOnce' BY <1>1 DEF Added, Fits, RetryAddsOnce
<1>5. Done'
  <2>1. UNCHANGED <<list, byName, lost, op, told, daemon, at, outcome>> BY <1>1
  <2>2. \A k \in Calls : Granted(k)' <=> Granted(k) BY <2>1 DEF Granted, OpOf
  <2>3. \A d : (Has(d, list)' <=> Has(d, list)) /\ (Leads(d)' <=> Leads(d))
    BY <2>1 DEF Has, Leads, Rivals
  <2> QED BY <2>1, <2>2, <2>3, <1>1 DEF Done
<1> QED BY <1>2, <1>3, <1>4, <1>5

\* A new daemon reads the file; what an old one told does not count for it.
LEMMA StartInv == ASSUME IInv, StartDaemon PROVE IInv'
<1> USE DEF IInv, StartDaemon, process, servers, discovery, config, command, handlers
<1>1. \A k \in Calls : at[k] = "none" BY DEF Asked, TypeOK
<1>2. FromFile \in Seq(Entry) /\ \A i \in DOMAIN FromFile : FromFile[i].by = None
  <2>1. ConfigPeers \in Seq([id : Peers, name : Names]) BY ManagementAssumption
  <2>2. DOMAIN ConfigPeers = 1..Len(ConfigPeers) /\ Len(ConfigPeers) \in Nat BY <2>1
  <2>3. \A i \in 1..Len(ConfigPeers) : ConfigPeers[i] \in [id : Peers, name : Names]
    BY <2>1, ElementOfSeq
  <2>4. \A i \in 1..Len(ConfigPeers) :
          [id |-> ConfigPeers[i].id, name |-> ConfigPeers[i].name, by |-> None] \in Entry
    BY <2>3 DEF Entry
  <2> QED BY <2>2, <2>4 DEF FromFile
<1>3. TypeOK'
  <2>1. daemon' \in 0..MaxStarts /\ {rpcPort, jsonPort} \subseteq 0..daemon'
        /\ 0 \in 0..MaxPasses
    BY ManagementAssumption DEF TypeOK
  <2>2. byName' \in [Names -> SUBSET Peers] BY Tables, ManagementAssumption
  <2> QED BY <1>2, <2>1, <2>2 DEF TypeOK, Current
<1>4. Asked' /\ Attended' BY <1>1 DEF Asked, Attended
<1>5. Added' /\ RetryAddsOnce' BY <1>1, <1>2 DEF Added, Fits, RetryAddsOnce
<1>6. Done'
  <2>1. daemon \in Nat /\ daemon' = daemon + 1 BY ManagementAssumption DEF TypeOK
  <2>2. \A c \in Clients : told[c].daemon \in Nat BY ManagementAssumption DEF TypeOK
  <2> QED BY <1>1, <2>1, <2>2 DEF Done, Granted
<1> QED BY <1>3, <1>4, <1>5, <1>6

\* The clients.
LEMMA ClientInv ==
  ASSUME IInv, NEW c \in Clients,
         Ask(c) \/ Retry(c) \/ Connect(c) \/ DialFails(c) \/ Timeout(c)
  PROVE  IInv'
<1> USE DEF IInv, process, servers, discovery, config, command, handlers
<1>1. CASE Ask(c)
  <2>1. /\ client[c] = "idle" /\ client' = [client EXCEPT ![c] = "dial"]
        /\ UNCHANGED <<platform, process, servers, discovery, config, try, told, handlers>>
    BY <1>1 DEF Ask
  <2>2. PICK o \in Ops[c] :
          /\ op' = [op EXCEPT ![c] = o]
          /\ url' = [url EXCEPT ![c] = IF o.via = "json" THEN jsonPort ELSE 0]
    BY <1>1 DEF Ask
  <2>3. \A k \in Calls : Who(k) = c => at[k] = "none" BY <2>1, CallOf DEF Asked, TypeOK
  <2>4. \A d \in Clients : d # c => op'[d] = op[d] /\ client'[d] = client[d]
    BY <2>1, <2>2 DEF TypeOK
  <2>5. TypeOK'
    <3>1. url' \in [Clients -> 0..MaxStarts] BY <2>2, ManagementAssumption DEF TypeOK
    <3>2. op' = [d \in Clients |-> op'[d]] BY <2>2 DEF TypeOK
    <3>3. \A d \in Clients : op'[d] \in Ops[d] \cup {None} BY <2>2 DEF TypeOK
    <3> QED BY <2>1, <3>1, <3>2, <3>3 DEF TypeOK, Current
  <2>6. Asked' /\ Attended'
    <3>1. \A d \in Clients : client'[d] # "idle" => op'[d] \in Ops[d]
      BY <2>1, <2>2, <2>4 DEF TypeOK, Asked
    <3>2. \A k \in Calls : at[k] # "none" => Who(k) # c /\ OpOf(k)' = OpOf(k)
      BY <2>3, <2>4, CallOf DEF OpOf, Who
    <3>3. \A k \in Calls : at[k] # "none" => client'[Who(k)] = client[Who(k)]
      BY <2>4, <3>2, CallOf
    <3>4. client' \in [Clients -> {"idle", "dial", "wait", "told"}] /\ client'[c] # "idle"
      BY <2>1 DEF TypeOK
    <3>5. Asked'
      <4>1. \A k \in Calls : at[k] # "none" => client'[Who(k)] # "idle" /\ phase # "off"
        BY <3>3 DEF Asked
      <4>2. \A d \in Clients : client'[d] = "idle" => told[d].what = "none" /\ op'[d] = None
        BY <2>4, <3>4 DEF Asked
      <4> QED BY <2>1, <3>1, <3>2, <4>1, <4>2 DEF Asked
    <3>6. Attended'
      BY <2>1, <3>2, <3>3 DEF Attended, Waits, Current, Who
    <3> QED BY <3>5, <3>6
  <2>7. Added' /\ RetryAddsOnce'
    <3>1. \A d \in Clients : client[d] # "idle" => client'[d] # "idle" /\ op'[d] = op[d]
      BY <2>1, <2>4
    <3>2. Fits(list, client', op') /\ \A k \in Calls : Fits(seen[k], client', op')
      BY <3>1, StillFits, Lists DEF Added
    <3> QED BY <2>1, <3>2 DEF Added, RetryAddsOnce
  <2>8. Done'
    <3>1. \A d \in Clients : d # c => (Has(d, list)' <=> Has(d, list))
      BY <2>1, <2>4 DEF Has
    <3>2. \A d \in Clients : d # c => (Leads(d) => Leads(d)')
      <4>1. op[c] = None BY <2>1 DEF Asked
      <4>2. \A d \in Clients : d # c => Rivals(d) \subseteq Rivals(d)'
        BY <2>4, <4>1 DEF Rivals
      <4>3. byName' = byName BY <2>1
      <4> QED BY <2>4, <4>2, <4>3 DEF Leads
    <3>3. told[c].what = "none" BY <2>1 DEF Asked
    <3>4. \A k \in Calls : at[k] # "none" => /\ Who(k) \in Clients /\ Who(k) # c
                                             /\ OpOf(k)' = OpOf(k)
      BY <2>3, <2>4, CallOf DEF OpOf, Who
    <3>5. \A k \in Calls : Granted(k)' => Granted(k) /\ at[k] # "none"
      BY <2>1, <3>4 DEF Granted
    <3>6. at' = at /\ lost' = lost /\ told' = told /\ daemon' = daemon /\ phase' = phase
      BY <2>1
    <3>7. \A k \in Calls : at'[k] = "index" => lost' \/ Has(Who(k), list)'
      BY <3>1, <3>4, <3>6 DEF Done
    <3>8. \A k \in Calls : Granted(k)' => (lost' \/ Has(Who(k), list)') /\ Leads(Who(k))'
      BY <3>1, <3>2, <3>4, <3>5, <3>6 DEF Done
    <3>9. \A d \in Clients :
            /\ told[d].daemon <= daemon
            /\ (/\ told[d].what = "done" /\ op'[d].kind = "addPeer"
                /\ phase # "off" /\ told[d].daemon = daemon)
                 => (lost \/ Has(d, list)') /\ Leads(d)'
      BY <2>4, <3>1, <3>2, <3>3 DEF Done
    <3> QED BY <3>6, <3>7, <3>8, <3>9 DEF Done
  <2> QED BY <2>5, <2>6, <2>7, <2>8
<1>2. CASE Retry(c)
  <2>1. /\ client[c] = "told" /\ told[c].what # "done" /\ try[c] < MaxTries[c]
        /\ client' = [client EXCEPT ![c] = "dial"] /\ try' = [try EXCEPT ![c] = @ + 1]
        /\ url' = [url EXCEPT ![c] = IF op[c].via = "json" THEN jsonPort ELSE 0]
        /\ UNCHANGED <<platform, process, servers, discovery, config, op, told, handlers>>
    BY <1>2 DEF Retry
  <2>2. \A d \in Clients : d # c => try'[d] = try[d] /\ client'[d] = client[d]
    BY <2>1 DEF TypeOK
  <2>3. \A d \in Clients : client'[d] # "idle" <=> client[d] # "idle"
    BY <2>1 DEF TypeOK
  <2>4. TypeOK'
    <3>1. url' \in [Clients -> 0..MaxStarts] BY <2>1, ManagementAssumption DEF TypeOK
    <3>2. try' \in [Clients -> Nat] /\ \A d \in Clients : try'[d] \in 1..MaxTries[d]
      <4>1. /\ MaxTries[c] \in Nat /\ try[c] \in 1..MaxTries[c]
            /\ \A d \in Clients : try[d] \in 1..MaxTries[d] /\ try[d] \in Nat
        BY ManagementAssumption DEF TypeOK
      <4>2. try' = [try EXCEPT ![c] = try[c] + 1] /\ try[c] < MaxTries[c] BY <2>1
      <4>3. try[c] + 1 \in 1..MaxTries[c] /\ try[c] + 1 \in Nat BY <4>1, <4>2
      <4>4. try \in [Clients -> Nat] BY DEF TypeOK
      <4> QED BY <4>1, <4>2, <4>3, <4>4
    <3>3. \A d \in Clients : client'[d] = "wait" => d # c BY <2>1 DEF TypeOK
    <3>4. \A d \in Clients : client'[d] = "wait" => at'[Current(d)'] # "none"
      BY <2>1, <2>2, <3>3 DEF TypeOK, Current
    <3>5. client' \in [Clients -> {"idle", "dial", "wait", "told"}] BY <2>1 DEF TypeOK
    <3> QED BY <2>1, <3>1, <3>2, <3>4, <3>5 DEF TypeOK, Current
  <2>5. Asked' BY <2>1, <2>3, CallOf DEF Asked, OpOf
  <2>6. Attended'
    <3>1. \A k \in Calls : Waits(k) => Who(k) # c BY <2>1 DEF Waits, Who
    <3> QED BY <2>1, <2>2, <3>1, CallOf DEF Attended, Waits, Current, Who
  <2>7. Added' /\ RetryAddsOnce'
    <3>1. \A d \in Clients : client[d] # "idle" => client'[d] # "idle" /\ op'[d] = op[d]
      BY <2>1, <2>3
    <3>2. Fits(list, client', op') /\ \A k \in Calls : Fits(seen[k], client', op')
      BY <3>1, StillFits, Lists DEF Added
    <3> QED BY <2>1, <3>2 DEF Added, RetryAddsOnce
  <2>8. Done'
    <3>1. UNCHANGED <<list, byName, lost, op, told, daemon, at, outcome>> BY <2>1
    <3>2. \A k \in Calls : Granted(k)' <=> Granted(k) BY <3>1 DEF Granted, OpOf
    <3>3. \A d : (Has(d, list)' <=> Has(d, list)) /\ (Leads(d)' <=> Leads(d))
      BY <3>1 DEF Has, Leads, Rivals
    <3> QED BY <3>1, <3>2, <3>3, <2>1 DEF Done
  <2> QED BY <2>4, <2>5, <2>6, <2>7, <2>8
<1>3. CASE Connect(c)
  <2>1. /\ client[c] = "dial" /\ client' = [client EXCEPT ![c] = "wait"]
        /\ at' = [at EXCEPT ![Current(c)] = First(op[c])]
        /\ UNCHANGED <<platform, process, servers, discovery, config, op, url, try, told,
                       seen, outcome>>
    BY <1>3 DEF Connect
  <2> DEFINE now == First(op[c])
  <2>2. Current(c) \in Calls /\ Who(Current(c)) = c BY CallOf DEF TypeOK
  <2>3. op[c] \in Ops[c] BY <2>1 DEF Asked
  <2>4. /\ now \in {"check", "status", "read", "size", "route", "address"}
        /\ now = "check" => op[c].kind = "addPeer"
        /\ now = "status" => op[c].kind = "status"
        /\ now \in {"read", "size"} => op[c].kind = "peers"
        /\ now = "route" => op[c].kind = "route"
        /\ now = "address" => op[c].kind = "nodeIp"
    BY <2>3, FirstStep DEF TypeOK
  <2> HIDE DEF now
  <2>5. at' = [at EXCEPT ![Current(c)] = now] BY <2>1 DEF now
  <2>6. OpOf(Current(c)) = op[c] /\ \A k \in Calls : OpOf(k)' = OpOf(k)
    BY <2>1, <2>2 DEF OpOf, Who
  <2>7. TypeOK'
    <3>1. client' \in [Clients -> {"idle", "dial", "wait", "told"}] BY <2>1 DEF TypeOK
    <3>2. at' \in [Calls -> Places]
      BY <2>2, <2>4, <2>5 DEF TypeOK, Places
    <3>3. \A d \in Clients : Current(d)' = Current(d) /\ Current(d) \in Calls
      BY <2>1, CallOf DEF TypeOK, Current
    <3>4. \A d \in Clients : client'[d] = "wait" => at'[Current(d)] # "none"
      BY <2>1, <2>2, <2>4, <2>5, <3>3 DEF TypeOK
    <3> QED BY <2>1, <3>1, <3>2, <3>3, <3>4 DEF TypeOK, Places
  <2>8. Asked'
    <3>1. phase # "off"
      BY <1>3 DEF Connect, Reachable, ReachableUnix, ReachableWindows, ReachableJson, Asked
    <3>2. \A k \in Calls : at'[k] = IF k = Current(c) THEN now ELSE at[k]
      BY <2>5 DEF TypeOK
    <3>3. \A d \in Clients : client'[d] # "idle" <=> client[d] # "idle"
      BY <2>1 DEF TypeOK
    <3>4. \A k \in Calls : /\ at'[k] # "none" => client'[Who(k)] # "idle" /\ phase' # "off"
      BY <2>1, <2>2, <3>1, <3>2, <3>3, CallOf DEF Asked
    <3>5. \A k \in Calls :
       /\ at'[k] \in {"check", "load", "store", "index", "rediscover"} => OpOf(k).kind = "addPeer"
       /\ at'[k] = "status" => OpOf(k).kind = "status"
       /\ at'[k] \in {"read", "size", "fill"} => OpOf(k).kind = "peers"
       /\ at'[k] = "route" => OpOf(k).kind = "route"
       /\ at'[k] = "address" => OpOf(k).kind = "nodeIp"
      BY <2>4, <2>6, <3>2 DEF Asked
    <3>6. \A d \in Clients : /\ client'[d] # "idle" => op'[d] \in Ops[d]
                             /\ client'[d] = "idle" => told'[d].what = "none" /\ op'[d] = None
      BY <2>1, <3>3 DEF Asked
    <3> QED BY <2>1, <2>6, <3>1, <3>4, <3>5, <3>6 DEF Asked
  <2>9. Attended'
    <3>1. \A k \in Calls : at'[k] = IF k = Current(c) THEN now ELSE at[k]
      BY <2>5 DEF TypeOK
    <3>2. client'[c] = "wait" /\ \A d \in Clients : client[d] = "wait" => client'[d] = "wait"
      BY <2>1 DEF TypeOK
    <3>3. \A k \in Calls : Who(k) \in Clients BY CallOf
    <3>4. Waits(Current(c))' BY <2>1, <3>2 DEF Waits, Current
    <3>5. \A k \in Calls : Waits(k) => Waits(k)'
      BY <2>1, <3>2, <3>3 DEF Waits, Current, Who
    <3>6. Current(c)' = Current(c) BY <2>1 DEF Current
    <3> QED BY <3>1, <3>4, <3>5, <3>6 DEF Attended
  <2>10. Added' /\ RetryAddsOnce'
    <3>1. \A k \in Calls : at'[k] \in {"load", "store"} => at'[k] = at[k]
      BY <2>4, <2>5 DEF TypeOK
    <3>2. \A d \in Clients : client[d] # "idle" => client'[d] # "idle" /\ op'[d] = op[d]
      BY <2>1 DEF TypeOK
    <3>3. Fits(list, client', op') /\ \A k \in Calls : Fits(seen[k], client', op')
      BY <3>2, StillFits, Lists DEF Added
    <3> QED BY <2>1, <3>1, <3>3 DEF Added, RetryAddsOnce
  <2>11. Done'
    <3>1. \A k \in Calls : at'[k] \in {"index", "rediscover", "answer"} => at'[k] = at[k]
      BY <2>4, <2>5 DEF TypeOK
    <3>2. /\ UNCHANGED <<list, byName, lost, op, told, daemon, phase, outcome>>
      BY <2>1
    <3>3. \A k \in Calls : Granted(k)' => Granted(k) BY <2>6, <3>1, <3>2 DEF Granted
    <3>4. \A d : (Has(d, list)' <=> Has(d, list)) /\ (Leads(d)' <=> Leads(d))
      BY <3>2 DEF Has, Leads, Rivals
    <3> QED BY <3>1, <3>2, <3>3, <3>4 DEF Done
  <2> QED BY <2>7, <2>8, <2>9, <2>10, <2>11
<1>4. CASE DialFails(c) \/ Timeout(c)
  <2>1. /\ Returns(c, "failed") /\ client[c] \in {"dial", "wait"}
        /\ client[c] = "wait" => at[Current(c)] = "rediscover"
        /\ UNCHANGED <<platform, process, servers, discovery, config, op, url, try, handlers>>
    BY <1>4 DEF DialFails, Timeout
  <2>2. /\ client' = [client EXCEPT ![c] = "told"]
        /\ told' = [told EXCEPT ![c] = [what |-> "failed", daemon |-> 0]]
    BY <2>1 DEF Returns
  <2>3. \A d \in Clients : client'[d] # "idle" <=> client[d] # "idle"
    BY <2>1, <2>2 DEF TypeOK
  <2>4. TypeOK'
    <3>1. [what |-> "failed", daemon |-> 0]
             \in [what : {"none", "done", "reason", "failed"}, daemon : 0..MaxStarts]
      BY ManagementAssumption
    <3>2. client' \in [Clients -> {"idle", "dial", "wait", "told"}] BY <2>2 DEF TypeOK
    <3>3. told' \in [Clients -> [what : {"none", "done", "reason", "failed"}, daemon : 0..MaxStarts]]
      BY <2>2, <3>1 DEF TypeOK
    <3>4. \A d \in Clients : client'[d] = "wait" => client[d] = "wait" BY <2>2 DEF TypeOK
    <3> QED BY <2>1, <3>2, <3>3, <3>4 DEF TypeOK, Current
  <2>5. Asked'
    <3>1. \A d \in Clients : client'[d] = "idle" => told'[d] = told[d]
      BY <2>1, <2>2 DEF TypeOK
    <3> QED BY <2>1, <2>3, <3>1, CallOf DEF Asked, OpOf
  <2>6. Attended'
    <3>1. \A k \in Calls : Waits(k) /\ at[k] # "rediscover" => Who(k) # c
      BY <2>1 DEF Waits, Who
    <3>2. \A k \in Calls : Who(k) \in Clients BY CallOf
    <3>3. \A d \in Clients : d # c => client'[d] = client[d] BY <2>2 DEF TypeOK
    <3> QED BY <2>1, <3>1, <3>2, <3>3 DEF Attended, Waits, Current, Who
  <2>7. Added' /\ RetryAddsOnce'
    <3>1. \A d \in Clients : client[d] # "idle" => client'[d] # "idle" /\ op'[d] = op[d]
      BY <2>1, <2>3
    <3>2. Fits(list, client', op') /\ \A k \in Calls : Fits(seen[k], client', op')
      BY <3>1, StillFits, Lists DEF Added
    <3> QED BY <2>1, <3>2 DEF Added, RetryAddsOnce
  <2>8. Done'
    <3>1. /\ \A d \in Clients : d # c => told'[d] = told[d]
          /\ told'[c] = [what |-> "failed", daemon |-> 0]
      BY <2>2 DEF TypeOK
    <3>2. daemon \in Nat BY ManagementAssumption DEF TypeOK
    <3>3. UNCHANGED <<list, byName, lost, op, daemon, phase, at, outcome>> BY <2>1
    <3>4. \A k \in Calls : Granted(k)' <=> Granted(k) BY <3>3 DEF Granted, OpOf
    <3>5. \A d : (Has(d, list)' <=> Has(d, list)) /\ (Leads(d)' <=> Leads(d))
      BY <3>3 DEF Has, Leads, Rivals
    <3> QED BY <3>1, <3>2, <3>3, <3>4, <3>5 DEF Done
  <2> QED BY <2>4, <2>5, <2>6, <2>7, <2>8
<1> QED BY <1>1, <1>2, <1>3, <1>4


\* A step of a method that leaves list, names and clients alone.
LEMMA QuietInv ==
  ASSUME IInv, NEW k \in Calls, NEW to \in {"load", "store", "fill", "answer"},
         at[k] # "none", at' = [at EXCEPT ![k] = to],
         UNCHANGED <<same, discovery, config>>,
         \A j \in Calls : seen'[j] \in {seen[j], list}, seen' \in [Calls -> Seq(Entry)],
         outcome' \in [Calls -> {"ok", "refused", "error"}],
         \A j \in Calls : j # k => outcome'[j] = outcome[j],
         to = "load" => at[k] = "check" /\ ~Known(list, k),
         to = "store" => at[k] = "load",
         to = "fill" => at[k] = "size",
         to = "answer" /\ OpOf(k).kind = "addPeer" /\ outcome'[k] = "ok" => at[k] = "rediscover"
  PROVE  IInv'
<1> USE DEF IInv, same, process, servers, discovery, config, command
<1>1. \A j \in Calls : at'[j] = IF j = k THEN to ELSE at[j]
  BY DEF TypeOK
<1>2. \A j \in Calls : OpOf(j)' = OpOf(j) /\ (Waits(j)' <=> Waits(j))
  BY DEF OpOf, Waits, Current
<1>3. TypeOK'
  <2>1. at' \in [Calls -> Places] BY DEF TypeOK, Places
  <2>2. \A c \in Clients : client[c] = "wait" => at'[Current(c)] # "none"
    <3>1. \A c \in Clients : Current(c) \in Calls BY CallOf DEF TypeOK
    <3> QED BY <1>1, <3>1 DEF TypeOK
  <2> QED BY <2>1, <2>2 DEF TypeOK, Places, Current
<1>4. Asked'
  <2>1. \A j \in Calls : at'[j] # "none" => at[j] # "none" BY <1>1
  <2>2. to \in {"load", "store"} => OpOf(k).kind = "addPeer" BY DEF Asked
  <2>3. to = "fill" => OpOf(k).kind = "peers" BY DEF Asked
  <2> QED BY <1>1, <1>2, <2>1, <2>2, <2>3 DEF Asked
<1>5. Attended' BY <1>1, <1>2 DEF Attended
<1>6. Added' /\ RetryAddsOnce'
  <2>1. \A j \in Calls : Fits(seen'[j], client, op) BY DEF Added
  <2>2. Who(k) \in Clients /\ OpOf(k) = op[Who(k)] BY CallOf DEF OpOf, Who
  <2>3. to = "load" => \A i \in DOMAIN list : list[i].by \in {None} \/ list[i].by # Who(k)
    BY <2>2 DEF Added, Fits, Known
  <2>4. to = "store" =>
          lost \/ \A i \in DOMAIN list : list[i].by \in {None} \/ list[i].by # Who(k)
    BY DEF Added
  <2> QED BY <1>1, <2>1, <2>3, <2>4 DEF Added, RetryAddsOnce
<1>7. Done'
  <2>1. UNCHANGED <<op, list, byName, lost, told, daemon, phase>> OBVIOUS
  <2>2. \A c : (Has(c, list)' <=> Has(c, list)) /\ (Leads(c)' <=> Leads(c))
    BY <2>1 DEF Has, Leads, Rivals
  <2>3. \A j \in Calls : Granted(j)' => Granted(j) BY <1>1, <1>2 DEF Granted
  <2>4. \A j \in Calls : at'[j] = "index" => at[j] = "index" BY <1>1
  <2> QED BY <2>1, <2>2, <2>3, <2>4 DEF Done
<1> QED BY <1>3, <1>4, <1>5, <1>6, <1>7

\* The check passes only if no peer has the ID the client asks for: so none that
\* the client has added.
LEMMA CheckInv == ASSUME IInv, NEW k \in Calls, Check(k) PROVE IInv'
<1>1. /\ at[k] = "check" /\ UNCHANGED <<same, discovery, config, seen>>
      /\ outcome \in [Calls -> {"ok", "refused", "error"}] /\ seen \in [Calls -> Seq(Entry)]
  BY DEF Check, Step, IInv, TypeOK
<1>2. CASE at' = [at EXCEPT ![k] = "answer"] /\ outcome' = [outcome EXCEPT ![k] = "refused"]
  <2>1. /\ outcome' \in [Calls -> {"ok", "refused", "error"}] /\ outcome'[k] = "refused"
        /\ \A j \in Calls : j # k => outcome'[j] = outcome[j]
    BY <1>1, <1>2
  <2> QED BY <1>1, <1>2, <2>1, QuietInv
<1>3. CASE at' = [at EXCEPT ![k] = "load"] /\ ~Known(list, k) /\ UNCHANGED outcome
  BY <1>1, <1>3, QuietInv
<1> QED BY <1>2, <1>3 DEF Check, Step

\* A write of the list over what another has written loses that; if none is lost
\* the list grows by a peer that its client had not added.
LEMMA StoreInv == ASSUME IInv, NEW k \in Calls, StorePeers(k) PROVE IInv'
<1> USE DEF IInv, same, process, servers, discovery, command
<1> DEFINE e == [id |-> OpOf(k).id, name |-> OpOf(k).name, by |-> k[1]]
<1>1. /\ at[k] = "store" /\ at' = [at EXCEPT ![k] = "index"]
      /\ list' = Append(seen[k], e) /\ lost' = (lost \/ seen[k] # list)
      /\ seen' = [seen EXCEPT ![k] = <<>>]
      /\ UNCHANGED <<same, discovery, byName, outcome>>
  BY DEF StorePeers, Step
<1>2. \A j \in Calls : at'[j] = IF j = k THEN "index" ELSE at[j]
  BY <1>1 DEF TypeOK
<1>3. \A j \in Calls : OpOf(j)' = OpOf(j) /\ (Waits(j)' <=> Waits(j))
  BY <1>1 DEF OpOf, Waits, Current
<1>4. /\ Who(k) \in Clients /\ OpOf(k) = op[Who(k)] /\ e.by = Who(k)
      /\ e.id = op[Who(k)].id /\ client[Who(k)] # "idle" /\ OpOf(k).kind = "addPeer"
  BY <1>1, CallOf DEF OpOf, Who, Asked
<1>5. e \in Entry
  <2>1. OpOf(k) \in Ops[Who(k)] BY <1>4 DEF Asked
  <2> QED BY <1>4, <2>1, ManagementAssumption DEF Entry, Who
<1> HIDE DEF e
<1> DEFINE s == seen[k]
<1>6. /\ s \in Seq(Entry) /\ list' \in Seq(Entry) /\ Len(s) \in Nat
      /\ DOMAIN s = 1..Len(s) /\ DOMAIN list' = 1..(Len(s) + 1)
      /\ \A i \in DOMAIN s : list'[i] = s[i]
      /\ list'[Len(s) + 1] = e
  <2>1. s \in Seq(Entry) BY Lists
  <2> HIDE DEF s
  <2>2. list' = Append(s, e) BY <1>1 DEF s
  <2> QED BY <1>5, <2>1, <2>2, Grown
<1>7. \A i \in DOMAIN list' : i \in DOMAIN s \/ i = Len(s) + 1 BY <1>6
<1>8. ~lost' => ~lost /\ s = list BY <1>1
<1>9. Fits(s, client, op) BY DEF Added
<1> HIDE DEF s
<1>10. TypeOK'
  <2>1. at' \in [Calls -> Places] BY <1>1 DEF TypeOK, Places
  <2>2. \A c \in Clients : client[c] = "wait" => at'[Current(c)] # "none"
    <3>1. \A c \in Clients : Current(c) \in Calls BY CallOf DEF TypeOK
    <3> QED BY <1>2, <3>1 DEF TypeOK
  <2>3. seen' \in [Calls -> Seq(Entry)] BY <1>1 DEF TypeOK
  <2>4. lost' \in BOOLEAN BY <1>1
  <2> QED BY <1>1, <1>6, <2>1, <2>2, <2>3, <2>4 DEF TypeOK, Places, Current
<1>11. Asked'
  <2>1. \A j \in Calls : at'[j] # "none" => at[j] # "none" BY <1>1, <1>2
  <2> QED BY <1>1, <1>2, <1>3, <1>4, <2>1 DEF Asked
<1>12. Attended' BY <1>1, <1>2, <1>3 DEF Attended
<1>13. Added'
  <2>1. Fits(list', client, op)
    BY <1>4, <1>6, <1>7, <1>9 DEF Fits
  <2>2. \A j \in Calls : Fits(seen'[j], client, op)
    <3>1. \A j \in Calls : seen'[j] = IF j = k THEN <<>> ELSE seen[j] BY <1>1 DEF TypeOK
    <3> QED BY <3>1 DEF Added, Fits
  <2>3. \A j \in Calls : at'[j] \in {"load", "store"} =>
          /\ at[j] \in {"load", "store"} /\ Who(j) # Who(k)
    <3>1. Waits(k) BY <1>1 DEF Attended
    <3>2. \A j \in Calls : at[j] \in {"load", "store"} => Waits(j) BY DEF Attended
    <3>3. \A j \in Calls : at'[j] \in {"load", "store"} => j # k /\ at[j] \in {"load", "store"}
      BY <1>2
    <3> QED BY <3>1, <3>2, <3>3 DEF Waits, Current, Who
  <2>4. \A j \in Calls : at'[j] \in {"load", "store"} =>
          lost' \/ \A i \in DOMAIN list' : list'[i].by \in {None} \/ list'[i].by # Who(j)
    BY <1>4, <1>6, <1>7, <1>8, <2>3 DEF Added
  <2> QED BY <1>1, <2>1, <2>2, <2>4 DEF Added
<1>14. RetryAddsOnce'
  <2>1. ~lost' => \A i \in DOMAIN s : s[i].by \in {None} \/ s[i].by # Who(k)
    BY <1>1, <1>8 DEF Added
  <2>2. ~lost' => \A i, j \in DOMAIN s : s[i].by # None /\ s[i].by = s[j].by => i = j
    BY <1>8 DEF RetryAddsOnce
  <2> QED BY <1>4, <1>6, <1>7, <2>1, <2>2 DEF RetryAddsOnce
<1>15. Done'
  <2>1. \A c : Has(c, list) => lost' \/ Has(c, list)'
    <3> SUFFICES ASSUME NEW c, Has(c, list), ~lost' PROVE Has(c, list)'
      OBVIOUS
    <3>1. PICK i \in DOMAIN s : s[i].id = op[c].id BY <1>8 DEF Has
    <3>2. i \in DOMAIN list' /\ list'[i] = s[i] BY <1>6, <3>1
    <3> QED BY <1>1, <3>1, <3>2 DEF Has
  <2>2. Has(Who(k), list)'
    <3>1. Len(s) + 1 \in DOMAIN list' BY <1>6
    <3> QED BY <1>1, <1>4, <1>6, <3>1 DEF Has
  <2>3. lost => lost' BY <1>1
  <2>4. \A c : Leads(c)' <=> Leads(c) BY <1>1 DEF Leads, Rivals
  <2>5. \A j \in Calls : Granted(j)' => Granted(j) BY <1>1, <1>2, <1>3 DEF Granted
  <2>6. \A j \in Calls : at'[j] = "index" => j = k \/ at[j] = "index" BY <1>2
  <2>7. UNCHANGED <<op, told, daemon, phase>> BY <1>1
  <2> QED BY <2>1, <2>2, <2>3, <2>4, <2>5, <2>6, <2>7 DEF Done
<1> QED BY <1>10, <1>11, <1>12, <1>13, <1>14, <1>15

\* Who writes the table takes a name from another only if both asked for it.
LEMMA IndexInv == ASSUME IInv, NEW k \in Calls, IndexName(k) PROVE IInv'
<1> USE DEF IInv, same, process, servers, discovery, command
<1>1. /\ at[k] = "index" /\ at' = [at EXCEPT ![k] = "rediscover"]
      /\ byName' = Put(byName, OpOf(k).name, OpOf(k).id)
      /\ UNCHANGED <<same, discovery, list, lost, seen, outcome>>
  BY DEF IndexName, Step
<1>2. \A j \in Calls : at'[j] = IF j = k THEN "rediscover" ELSE at[j]
  BY <1>1 DEF TypeOK
<1>3. \A j \in Calls : OpOf(j)' = OpOf(j) /\ (Waits(j)' <=> Waits(j))
  BY <1>1 DEF OpOf, Waits, Current
<1>4. /\ Who(k) \in Clients /\ OpOf(k) = op[Who(k)] /\ OpOf(k).kind = "addPeer"
      /\ op[Who(k)] \in Ops[Who(k)] /\ op[Who(k)] # None
      /\ op[Who(k)].id \in Peers /\ op[Who(k)].name \in Names
  <2>1. Who(k) \in Clients /\ OpOf(k) = op[Who(k)] /\ OpOf(k).kind = "addPeer"
    BY <1>1, CallOf DEF OpOf, Who, Asked
  <2>2. op[Who(k)] \in Ops[Who(k)] BY <1>1, <2>1 DEF Asked
  <2> QED BY <2>1, <2>2, ManagementAssumption
<1> DEFINE key == Lower[op[Who(k)].name]
<1>5. /\ byName' \in [Names -> SUBSET Peers]
      /\ \A n \in Names : byName'[n] = IF n = key THEN {op[Who(k)].id} ELSE byName[n]
  <2>1. byName \in [Names -> SUBSET Peers] BY DEF TypeOK
  <2>2. byName' = Put(byName, op[Who(k)].name, op[Who(k)].id) BY <1>1, <1>4
  <2>3. \A name \in Names, id \in Peers :
          /\ Put(byName, name, id) \in [Names -> SUBSET Peers]
          /\ \A n \in Names : Put(byName, name, id)[n] = IF n = Lower[name] THEN {id} ELSE byName[n]
    BY <2>1, Tables
  <2>4. /\ Put(byName, op[Who(k)].name, op[Who(k)].id) \in [Names -> SUBSET Peers]
        /\ \A n \in Names : Put(byName, op[Who(k)].name, op[Who(k)].id)[n]
                              = IF n = key THEN {op[Who(k)].id} ELSE byName[n]
    <3> DEFINE name == op[Who(k)].name
               id == op[Who(k)].id
    <3>1. name \in Names /\ id \in Peers BY <1>4
    <3> HIDE DEF name, id
    <3>2. /\ Put(byName, name, id) \in [Names -> SUBSET Peers]
          /\ \A n \in Names : Put(byName, name, id)[n] = IF n = Lower[name] THEN {id} ELSE byName[n]
      BY <2>3, <3>1
    <3> QED BY <3>2 DEF name, id
  <2> HIDE DEF key
  <2> QED BY <2>2, <2>4
<1>6. TypeOK'
  <2>1. at' \in [Calls -> Places] BY <1>1 DEF TypeOK, Places
  <2>2. \A c \in Clients : client[c] = "wait" => at'[Current(c)] # "none"
    <3>1. \A c \in Clients : Current(c) \in Calls BY CallOf DEF TypeOK
    <3> QED BY <1>2, <3>1 DEF TypeOK
  <2> QED BY <1>1, <1>5, <2>1, <2>2 DEF TypeOK, Places, Current
<1>7. Asked'
  <2>1. \A j \in Calls : at'[j] # "none" => at[j] # "none" BY <1>1, <1>2
  <2> QED BY <1>1, <1>2, <1>3, <1>4, <2>1 DEF Asked
<1>8. Attended' BY <1>2, <1>3 DEF Attended
<1>9. Added' /\ RetryAddsOnce'
  <2>1. \A j \in Calls : at'[j] \in {"load", "store"} => at[j] = at'[j] BY <1>2
  <2> QED BY <1>1, <2>1 DEF Added, RetryAddsOnce
<1>10. Done'
  <2>1. UNCHANGED <<op, list, lost, told, daemon, phase>> BY <1>1
  <2>2. \A c : (Has(c, list)' <=> Has(c, list)) /\ Rivals(c)' = Rivals(c)
    BY <2>1 DEF Has, Rivals
  <2>3. ASSUME NEW c \in Clients, op[c] \in Ops[c], op[c].kind = "addPeer", c = Who(k) \/ Leads(c)
        PROVE  Leads(c)'
    <3> DEFINE mine == Lower[op[c].name]
    <3>1. mine \in Names BY <2>3, ManagementAssumption, MagicDnsAssumption
    <3>2. CASE mine = key
      <4>1. op[Who(k)].id \in {op[c].id} \cup Rivals(c) BY <1>4, <3>2 DEF Rivals
      <4>2. byName'[mine] = {op[Who(k)].id} BY <1>5, <3>1, <3>2
      <4> HIDE DEF key
      <4> QED BY <2>1, <2>2, <4>1, <4>2 DEF Leads
    <3>3. CASE mine # key
      <4>1. byName'[mine] = byName[mine] /\ c # Who(k) BY <1>5, <3>1, <3>3
      <4> QED BY <2>1, <2>2, <2>3, <4>1 DEF Leads
    <3> QED BY <3>2, <3>3
  <2>4. \A j \in Calls : Granted(j)' => j = k \/ Granted(j) BY <1>1, <1>2, <1>3 DEF Granted
  <2>5. \A j \in Calls : Granted(j) =>
          Who(j) \in Clients /\ op[Who(j)] \in Ops[Who(j)] /\ op[Who(j)].kind = "addPeer"
    <3>1. \A j \in Calls : Granted(j) => at[j] # "none" /\ OpOf(j).kind = "addPeer"
      BY DEF Granted, Asked
    <3> QED BY <3>1, CallOf DEF Asked, OpOf, Who
  <2>6. \A j \in Calls : Granted(j)' => (lost \/ Has(Who(j), list)) /\ Leads(Who(j))'
    BY <1>1, <1>4, <2>3, <2>4, <2>5 DEF Done
  <2>7. \A c \in Clients : told[c].what = "done" => op[c] \in Ops[c] BY DEF Asked
  <2>8. \A c \in Clients :
          /\ told[c].daemon <= daemon
          /\ (/\ told[c].what = "done" /\ op[c].kind = "addPeer"
              /\ phase # "off" /\ told[c].daemon = daemon)
               => (lost \/ Has(c, list)) /\ Leads(c)'
    BY <2>3, <2>7 DEF Done
  <2>9. \A j \in Calls : at'[j] = "index" => at[j] = "index" BY <1>2
  <2>10. \A j \in Calls : at'[j] = "index" => lost' \/ Has(Who(j), list)'
    BY <2>1, <2>2, <2>9 DEF Done
  <2> QED BY <2>1, <2>2, <2>6, <2>8, <2>10 DEF Done
<1> QED BY <1>6, <1>7, <1>8, <1>9, <1>10

\* Who is told of success by this daemon has asked it, and the peer is there.
LEMMA AnswerInv == ASSUME IInv, NEW k \in Calls, Answer(k) PROVE IInv'
<1> USE DEF IInv, process, servers, discovery, config, command
<1>1. /\ at[k] = "answer" /\ at' = [at EXCEPT ![k] = "none"]
      /\ IF Waits(k) THEN Returns(k[1], Told(k)) ELSE UNCHANGED <<client, told>>
      /\ seen' = [seen EXCEPT ![k] = <<>>] /\ outcome' = [outcome EXCEPT ![k] = "ok"]
      /\ UNCHANGED <<platform, process, servers, discovery, config, op, url, try>>
  BY DEF Answer, Step
<1>2. \A j \in Calls : /\ at'[j] = IF j = k THEN "none" ELSE at[j]
                       /\ j # k => seen'[j] = seen[j] /\ outcome'[j] = outcome[j]
  BY <1>1 DEF TypeOK
<1>3. /\ Who(k) \in Clients /\ OpOf(k) = op[Who(k)] /\ \A j \in Calls : OpOf(j)' = OpOf(j)
      /\ client[Who(k)] # "idle" /\ phase # "off"
  BY <1>1, CallOf DEF OpOf, Who, Asked
<1>4. Told(k) \in {"done", "reason", "failed"} /\ (Told(k) = "done" => outcome[k] = "ok")
  BY ToldOk DEF TypeOK
<1> DEFINE what == Told(k)
           word == [what |-> what, daemon |-> IF what = "done" THEN daemon ELSE 0]
<1>5. \/ Waits(k) /\ client' = [client EXCEPT ![Who(k)] = "told"]
                 /\ told' = [told EXCEPT ![Who(k)] = word]
      \/ ~Waits(k) /\ client' = client /\ told' = told
  BY <1>1 DEF Returns, Who
<1> HIDE DEF what
<1>6. /\ what \in {"done", "reason", "failed"} /\ what = "done" => outcome[k] = "ok"
      /\ word.what = what /\ word.daemon = IF what = "done" THEN daemon ELSE 0
      /\ word \in [what : {"none", "done", "reason", "failed"}, daemon : 0..MaxStarts]
  BY <1>4, ManagementAssumption DEF what, TypeOK
<1> HIDE DEF word
<1>7. \A d \in Clients : /\ client'[d] = client[d] \/ (d = Who(k) /\ Waits(k) /\ client'[d] = "told")
                         /\ told'[d] = told[d] \/ (d = Who(k) /\ told'[d] = word)
                         /\ client'[d] # "idle" <=> client[d] # "idle"
  BY <1>3, <1>5 DEF TypeOK
<1>8. \A j \in Calls : Waits(j) /\ j # k => Waits(j)'
  <2>1. \A j \in Calls : Waits(j) /\ j # k /\ Waits(k) => Who(j) # Who(k) BY DEF Waits, Who
  <2>2. \A j \in Calls : Waits(j) /\ j # k => client'[Who(j)] = client[Who(j)]
    BY <1>7, <2>1, CallOf
  <2> QED BY <1>1, <2>2 DEF Waits, Who, Current
<1>9. TypeOK'
  <2>1. /\ at' \in [Calls -> Places] /\ seen' \in [Calls -> Seq(Entry)]
        /\ outcome' \in [Calls -> {"ok", "refused", "error"}]
    BY <1>1 DEF TypeOK, Places
  <2>2. client' \in [Clients -> {"idle", "dial", "wait", "told"}] BY <1>5 DEF TypeOK
  <2>4. told' \in [Clients -> [what : {"none", "done", "reason", "failed"}, daemon : 0..MaxStarts]]
    <3>1. told \in [Clients -> [what : {"none", "done", "reason", "failed"}, daemon : 0..MaxStarts]]
      BY DEF TypeOK
    <3> QED BY <1>5, <1>6, <3>1
  <2>3. \A c \in Clients : client'[c] = "wait" => at'[Current(c)] # "none"
    <3>1. \A c \in Clients : Current(c) \in Calls /\ Who(Current(c)) = c BY CallOf DEF TypeOK
    <3>2. \A c \in Clients : client'[c] = "wait" => client[c] = "wait" /\ Current(c) # k
      <4> SUFFICES ASSUME NEW c \in Clients, client'[c] = "wait"
                   PROVE  client[c] = "wait" /\ Current(c) # k
        OBVIOUS
      <4>1. client[c] = "wait" BY <1>7
      <4>2. Current(c) = k => Waits(k) /\ c = Who(k) BY <3>1, <4>1 DEF Waits, Who
      <4>3. Waits(k) => client'[Who(k)] = "told" BY <1>3, <1>5 DEF TypeOK
      <4> QED BY <4>1, <4>2, <4>3
    <3>3. \A c \in Clients : client[c] = "wait" => at[Current(c)] # "none" BY DEF TypeOK
    <3> HIDE DEF IInv
    <3> QED BY <1>2, <3>1, <3>2, <3>3
  <2>5. \A c \in Clients : client'[c] = "wait" => at'[Current(c)'] # "none"
    BY <1>1, <2>3 DEF Current
  <2>6. /\ UNCHANGED <<platform, phase, daemon, rpc, json, rpcPort, jsonPort, loop, passes,
                       list, byName, lost, op, url, try>>
        /\ TypeOK
    BY <1>1
  <2> HIDE DEF IInv, process, servers, discovery, config, command
  <2> QED BY <2>1, <2>2, <2>4, <2>5, <2>6 DEF TypeOK, Places
<1>10. Asked'
  <2>1. \A j \in Calls : at'[j] # "none" => at'[j] = at[j] BY <1>2
  <2>2. \A d \in Clients : client'[d] = "idle" => told'[d] = told[d] BY <1>3, <1>7
  <2> QED BY <1>1, <1>3, <1>7, <2>1, <2>2, CallOf DEF Asked
<1>11. Attended' BY <1>2, <1>8 DEF Attended
<1>12. Added' /\ RetryAddsOnce'
  <2>1. \A j \in Calls : at'[j] \in {"load", "store"} => at[j] = at'[j] BY <1>2
  <2>2. \A d \in Clients : client[d] # "idle" => client'[d] # "idle" /\ op'[d] = op[d]
    BY <1>1, <1>7
  <2>3. \A j \in Calls : Fits(seen[j], client', op')
    BY <2>2, StillFits, Lists DEF Added
  <2>4. Fits(list, client', op') BY <2>2, StillFits, Lists DEF Added
  <2>5. \A j \in Calls : seen'[j] = IF j = k THEN <<>> ELSE seen[j] BY <1>1 DEF TypeOK
  <2>6. \A j \in Calls : Fits(seen'[j], client', op') BY <2>3, <2>5 DEF Fits
  <2> QED BY <1>1, <2>1, <2>4, <2>6 DEF Added, RetryAddsOnce
<1>13. Done'
  <2>1. UNCHANGED <<op, list, byName, lost, daemon, phase>> BY <1>1
  <2>2. \A c : (Has(c, list)' <=> Has(c, list)) /\ (Leads(c)' <=> Leads(c))
    BY <2>1 DEF Has, Leads, Rivals
  <2>3. \A j \in Calls : Granted(j)' => Granted(j) BY <1>2, <1>3 DEF Granted
  <2>4. \A j \in Calls : at'[j] = "index" => at[j] = "index" BY <1>2
  <2>5. what = "done" /\ op[Who(k)].kind = "addPeer"
          => (lost \/ Has(Who(k), list)) /\ Leads(Who(k))
    BY <1>1, <1>3, <1>6 DEF Done, Granted
  <2>6. daemon \in Nat /\ word.daemon <= daemon BY <1>6, ManagementAssumption DEF TypeOK
  <2>7. \A c \in Clients :
         /\ told'[c].daemon <= daemon
         /\ (/\ told'[c].what = "done" /\ op[c].kind = "addPeer"
             /\ phase # "off" /\ told'[c].daemon = daemon)
              => (lost \/ Has(c, list)) /\ Leads(c)
    BY <1>6, <1>7, <2>5, <2>6 DEF Done
  <2> QED BY <2>1, <2>2, <2>3, <2>4, <2>7 DEF Done
<1> QED BY <1>9, <1>10, <1>11, <1>12, <1>13

\* The other steps of a method.
LEMMA ServeInv == ASSUME IInv, NEW k \in Calls, Serve(k) PROVE IInv'
<1>1. CASE Check(k) BY <1>1, CheckInv
<1>2. CASE StorePeers(k) BY <1>2, StoreInv
<1>3. CASE IndexName(k) BY <1>3, IndexInv
<1>4. CASE Answer(k) BY <1>4, AnswerInv
<1>5. CASE FillPanics(k) /\ OpOf(k).via = "gob" BY <1>5, GoneInv DEF FillPanics
<1>6. CASE \/ LoadPeers(k) \/ Rediscover(k) \/ Status(k) \/ ReadPeers(k)
           \/ SizeReply(k) \/ FillReply(k) \/ RouteUnix(k) \/ RouteWindows(k) \/ NodeIp(k)
           \/ FillPanics(k) /\ OpOf(k).via # "gob"
  <2> DEFINE to == IF at[k] = "load" THEN "store" ELSE IF at[k] = "size" THEN "fill" ELSE "answer"
  <2>1. /\ at[k] \in {"load", "rediscover", "status", "read", "size", "fill", "route", "address"}
        /\ at' = [at EXCEPT ![k] = to] /\ UNCHANGED <<same, discovery, config>>
    BY <1>6 DEF LoadPeers, Rediscover, Status, ReadPeers, SizeReply,
       FillReply, FillPanics, RouteUnix, RouteWindows, NodeIp, Step
  <2>2. seen' \in [Calls -> Seq(Entry)] /\ \A j \in Calls : seen'[j] \in {seen[j], list}
    <3>1. seen \in [Calls -> Seq(Entry)] /\ list \in Seq(Entry) BY DEF IInv, TypeOK
    <3>2. seen' = seen \/ seen' = [seen EXCEPT ![k] = list]
      BY <1>6 DEF LoadPeers, Rediscover, Status, ReadPeers, SizeReply,
         FillReply, FillPanics, RouteUnix, RouteWindows, NodeIp
    <3> QED BY <3>1, <3>2
  <2>3. /\ outcome' \in [Calls -> {"ok", "refused", "error"}]
        /\ \A j \in Calls : j # k => outcome'[j] = outcome[j]
    <3>1. outcome \in [Calls -> {"ok", "refused", "error"}] BY DEF IInv, TypeOK
    <3>2. outcome' = outcome \/ \E r \in {"ok", "refused", "error"} : outcome' = [outcome EXCEPT ![k] = r]
      BY <1>6 DEF LoadPeers, Rediscover, Status, ReadPeers, SizeReply,
         FillReply, FillPanics, RouteUnix, RouteWindows, NodeIp
    <3> QED BY <3>1, <3>2
  <2>4. to = "answer" /\ OpOf(k).kind = "addPeer" => at[k] = "rediscover"
    BY <2>1 DEF IInv, Asked
  <2>5. /\ to \in {"store", "fill", "answer"} /\ (to = "fill" => at[k] = "size")
        /\ (to = "store" => at[k] = "load")
    OBVIOUS
  <2> HIDE DEF to
  <2> QED BY <2>1, <2>2, <2>3, <2>4, <2>5, QuietInv
<1> QED BY <1>1, <1>2, <1>3, <1>4, <1>5, <1>6 DEF Serve

LEMMA Stutters == ASSUME IInv, UNCHANGED vars PROVE IInv'
<1> USE DEF IInv, vars, process, servers, discovery, config, command, handlers
<1>1. TypeOK' BY DEF TypeOK, Current
<1>2. Asked' /\ Attended' BY DEF Asked, Attended, Waits, Current, OpOf
<1>3. Added' /\ RetryAddsOnce' BY DEF Added, RetryAddsOnce
<1>4. Done'
  <2>1. UNCHANGED <<list, byName, lost, op, told, daemon, phase, at, outcome>> OBVIOUS
  <2>2. \A k \in Calls : Granted(k)' <=> Granted(k) BY <2>1 DEF Granted, OpOf
  <2>3. \A d : (Has(d, list)' <=> Has(d, list)) /\ (Leads(d)' <=> Leads(d))
    BY <2>1 DEF Has, Leads, Rivals
  <2> QED BY <2>1, <2>2, <2>3 DEF Done
<1> QED BY <1>1, <1>2, <1>3, <1>4

LEMMA Inductive == IInv /\ [Next]_vars => IInv'
<1> SUFFICES ASSUME IInv, [Next]_vars PROVE IInv'
  OBVIOUS
<1>1. ASSUME NEW c \in Clients, Ask(c) \/ Retry(c) \/ Connect(c) \/ DialFails(c) \/ Timeout(c)
      PROVE  IInv'
  BY <1>1, ClientInv
<1>2. ASSUME NEW k \in Calls, Serve(k) PROVE IInv' BY <1>2, ServeInv
<1>3. CASE Live \/ StartDaemon \/ BeginPass \/ Cancel \/ Kill
  BY <1>3, LiveInv, StartInv, GoneInv DEF Live, EndDaemon, Kill
<1> QED BY <1>1, <1>2, <1>3, Stutters DEF Next, Internal, External

LEMMA Invariance == Spec => []IInv
BY Initially, Inductive, PTL DEF Spec

\* The variables keep their types.
THEOREM TypeCorrect == Spec => []TypeOK
<1>1. IInv => TypeOK BY DEF IInv
<1> QED BY <1>1, Invariance, PTL

\* rpc/server.go: a command that is tried again while its first try is served
\* adds its peer once.
THEOREM AddsOnce == Spec => []RetryAddsOnce
<1>1. IInv => RetryAddsOnce BY DEF IInv
<1> QED BY <1>1, Invariance, PTL

\* rpc/server.go, jsonrpc_server.go, dns/server.go: who was told that a peer was
\* added finds it by its name, or a peer that somebody else asked to add under the
\* name, for as long as that daemon runs, whatever appends meet; and finds it in
\* the list as long as none has.
THEOREM Kept == Spec => []DoneIsDone
<1>1. IInv => DoneIsDone
  <2> SUFFICES ASSUME IInv, NEW c \in Clients, told[c].what = "done", op[c].kind = "addPeer",
                      phase # "off", told[c].daemon = daemon
               PROVE  /\ lost \/ Has(c, list)
                      /\ \E p \in {op[c].id} \cup Rivals(c) : ResolvesTo(Lower[op[c].name], p)
    BY DEF DoneIsDone, Has
  <2> DEFINE name == Lower[op[c].name]
  <2>1. (lost \/ Has(c, list)) /\ Leads(c) BY DEF IInv, Done
  <2>2. PICK p \in {op[c].id} \cup Rivals(c) : byName[name] = {p} BY <2>1 DEF Leads
  <2>3. op[c] \in Ops[c] BY DEF IInv, Asked
  <2>4. name \in Names /\ Lower[name] = name BY <2>3, ManagementAssumption, MagicDnsAssumption
  <2> HIDE DEF name
  <2>5. \A service \in BOOLEAN : Records(p, service) \subseteq AnswerOnWindows(name, service, byName)
    BY <2>2 DEF AnswerOnWindows
  <2>6. \A service \in BOOLEAN :
          name = Hostname \/ Records(p, service) \subseteq AnswerOnUnix(name, service, byName)
    BY <2>2, <2>4 DEF AnswerOnUnix
  <2>7. ResolvesTo(name, p) BY <2>5, <2>6 DEF ResolvesTo, IInv, TypeOK
  <2> QED BY <2>1, <2>2, <2>7 DEF name
<1> QED BY <1>1, Invariance, PTL
=============================================================================
