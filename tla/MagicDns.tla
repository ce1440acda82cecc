----------------------------- MODULE MagicDns ------------------------------
(***************************************************************************)
(* What the Magic DNS server (dns/server.go, server_windows.go) answers    *)
(* to a question for a name.  The server is given a copy of the            *)
(* configuration: the table ByName, a map, is still the one that AddPeer   *)
(* writes to, and is all that is asked for a name.  The list of peers,     *)
(* used for questions by peer ID, stays that of the start and is left out  *)
(* here.  A record is of a peer, for the node or for a service of it.      *)
(***************************************************************************)
EXTENDS Naturals, Sequences, FiniteSetsExt

CONSTANTS Names, Lower,    \* the names, and strings.ToLower on them
          Self, Hostname   \* this node's ID; the host's name in lower case

ASSUME MagicDnsAssumption ==
  /\ Lower \in [Names -> Names] /\ \A n \in Names : Lower[Lower[n]] = Lower[n]
  /\ Hostname \in Names

\* The table: no peer or one for each key.  config.Read fills it in the order of
\* the file, so that the last peer with a key has it.
TableOf(peers) ==
  [n \in Names |->
     {peers[Max(is)].id : is \in {{i \in DOMAIN peers : Lower[peers[i].name] = n}} \ {{}}}]

\* Mutant: the key is the name as it was written.
PutAsWritten(table, name, id) == [table EXCEPT ![name] = {id}]

\* AddPeer's write, whoever had the key before.
Put(table, name, id) == [table EXCEPT ![Lower[name]] = {id}]

Records(p, service) ==
  {[type |-> "AAAA", of |-> p, service |-> service]}
    \cup (IF service THEN {} ELSE {[type |-> "A", of |-> p, service |-> FALSE]})
Alias(p, service) == {[type |-> "CNAME", of |-> p, service |-> service]}

\* The host's own name, or a name of the table.
AnswerOnUnix(n, service, table) ==
  LET found == IF Lower[n] = Hostname THEN {Self} ELSE table[Lower[n]]
  IN UNION {Alias(p, service) \cup Records(p, service) : p \in found}

\* On Windows the label is looked up as it was asked, and there is no alias.
AnswerOnWindows(n, service, table) == UNION {Records(p, service) : p \in table[n]}
=============================================================================
