---------------------------- MODULE ServerTable ----------------------------
(***************************************************************************)
(* The naming server's table of storage servers (storage_servers and       *)
(* server_count of naming_server/naming_server.c).  Every thread reads and *)
(* writes it and nothing keeps them apart.  An entry is found by the       *)
(* address of its server, and where an address has two entries the first   *)
(* counts.                                                                 *)
(***************************************************************************)
EXTENDS Integers, Sequences, FiniteSets

CONSTANTS
  Server,      \* the addresses (ip and ports) of storage servers
  NoServer,    \* the empty address
  MaxServers   \* MAX_CONNECTIONS

ASSUME TableAssumption ==
  /\ NoServer \notin Server
  /\ MaxServers \in Nat \ {0}

VARIABLES
  storage_servers,  \* the entries, those beyond server_count included
  server_count

table == <<storage_servers, server_count>>

Address == Server \cup {NoServer}
Entry   == [address : Address, is_active : BOOLEAN, backup : [1..2 -> Address]]

NoBackups == [n \in 1..2 |-> NoServer]

\* What a storage server sends of itself: not active, without backups.
Info(s) == [address |-> s, is_active |-> FALSE, backup |-> NoBackups]

TableInit ==
  /\ storage_servers = [i \in 1..MaxServers |-> Info(NoServer)]
  /\ server_count = 0

Matches(s) == {i \in 1..server_count : storage_servers[i].address = s}
First(s)   == CHOOSE i \in Matches(s) : \A j \in Matches(s) : i <= j
Known(s)   == Matches(s) # {}

check_active_server(s) == Known(s) /\ storage_servers[First(s)].is_active

SetActive(i, value) ==
  storage_servers' = [storage_servers EXCEPT ![i].is_active = value]

TableOK ==
  /\ storage_servers \in [1..MaxServers -> Entry]
  /\ server_count \in 0..MaxServers
=============================================================================
