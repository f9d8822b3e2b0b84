----------------------------- MODULE KeyServer -----------------------------
(***************************************************************************)
(* The key servers of a cluster of login servers, src/src/keyserver.c, and *)
(* the keyclient runs that talk to them, src/src/keyclient.c.  Every login *)
(* server and every client keeps key files in its own directory.  A server *)
(* that makes a key pushes it to the others, one after the other, by a     *)
(* keyclient of its own, and then hands it to whoever asked.  There are no *)
(* locks and no retries; a process may die, a push may fail.               *)
(***************************************************************************)
EXTENDS Integers, FiniteSets

CONSTANTS
    Servers,        \* login_servers; the order of the list does not matter
    Clients,        \* machines that run keyclient
    Hosts,          \* names keys are kept for: hosts, and domains
    Parent,         \* Parent[h]: the domain of h (h itself if it has none)
    Cert,           \* Cert[c]: the hosts client c's certificate speaks for
    AccessList,     \* keyserver_client_list
    KeymgtPeers,    \* keymgt_peers: hosts that manage the keys of other clusters too
    Managed,        \* the hosts of those other clusters, whose keys they have
    Requests,       \* what clients ever ask for
    Jobs,           \* runs of keyclient that may go on at one time
    NoFile, Short,  \* a file that is not there; one that is not complete
    MaxKeys         \* bound: keys ever made

VARIABLES
    disk,       \* the files of every machine
    job,        \* the runs of keyclient, each with the server it talks to
    made,       \* how many different keys were made (RAND_bytes)
    admitted,   \* history: hosts that somebody on the access list permitted,
                \* or whose key somebody on keymgt_peers brought from elsewhere
    agreed      \* history: machines whose copies of a file should be the same

vars == <<disk, job, made, admitted, agreed>>

ASSUME MachineAssumption == Servers \cap Clients = {}
ASSUME HostAssumption == Parent \in [Hosts -> Hosts] /\ Cert \in [Clients -> SUBSET Hosts]
ASSUME ListAssumption == AccessList \subseteq Clients /\ KeymgtPeers \subseteq Clients
                         /\ Managed \subseteq Hosts
Ops == {"permit", "genkey", "fetch", "put", "setpkey"}
ASSUME RequestAssumption == Requests \subseteq [op : Ops, peer : Clients, host : Hosts]
ASSUME KeyAssumption == NoFile \notin Nat /\ Short \notin Nat /\ NoFile # Short /\ MaxKeys \in Nat

Machines == Servers \cup Clients
Foreign  == 0               \* a key that another cluster made
Keys     == {Foreign} \cup 1 .. MaxKeys
Content  == {NoFile, Short} \cup Keys

\* make_crypt_keyfile: the key of a host, or the certificate of one.
Files      == [host : Hosts, kind : {"key", "crt"}]
KeyFile(h) == [host |-> h, kind |-> "key"]

Idle == [pc |-> "idle"]
Running(j) == job[j].pc # "idle"

\* Whether another run than j has to do with file f.
Busy(j, f) == \E i \in Jobs \ {j} : Running(i) /\ job[i].file = f

Init ==
    /\ disk = [m \in Machines |-> [f \in Files |->
                 IF m \in KeymgtPeers /\ f.kind = "key" /\ f.host \in Managed
                 THEN Foreign ELSE NoFile]]
    /\ job = [j \in Jobs |-> Idle]
    /\ made = 0
    /\ admitted = {}
    /\ agreed = [f \in Files |-> {}]

Write(m, f, x) == disk' = [disk EXCEPT ![m][f] = x]
Becomes(j, s)  == job' = [job EXCEPT ![j] = s]

\* (Fault: nobody notices a file that is too short.)
AnyFile(x) == x # NoFile

\* libpbc_get_crypt_key fails on a file that is not there or too short.
Complete(x) == x \in Keys

\* libpbc_test_crypt_key: a host may have a key of its own, or its domain's.
test_crypt_key(s, h) ==
    disk[s][KeyFile(h)] # NoFile \/ disk[s][KeyFile(Parent[h])] # NoFile

(***************************************************************************)
(* A keyclient of machine c contacts server s about host h; doit checks    *)
(* what it may do.  A run that is refused changes nothing.                 *)
(***************************************************************************)
\* Who, of the clients, may set a key that it has (keyclient -u): SETKEY asks
\* for no permission of the host.  (The login servers are let in, too: Push.)
SetsKeys(c) == c \in KeymgtPeers

\* (Fault: a key is generated for any host of the certificate.)
AdmitsUntested(op, c, s, h) ==
    CASE op = "permit"  -> c \in AccessList /\ ~test_crypt_key(s, h)
      [] op \in {"genkey", "fetch"} -> h \in Cert[c]
      [] op = "put"     -> SetsKeys(c) /\ Complete(disk[c][KeyFile(h)])
      [] op = "setpkey" -> c \in AccessList

Admits(op, c, s, h) ==
    CASE op = "permit"  -> c \in AccessList /\ ~test_crypt_key(s, h)
      [] op = "genkey"  -> h \in Cert[c] /\ test_crypt_key(s, h)
      [] op = "fetch"   -> h \in Cert[c]
      [] op = "put"     -> SetsKeys(c) /\ Complete(disk[c][KeyFile(h)])
      [] op = "setpkey" -> c \in AccessList

FirstStep(op) == IF op = "fetch" THEN "reply" ELSE IF op = "put" THEN "put" ELSE "open"

FileOf(q) == [host |-> q.host, kind |-> IF q.op = "setpkey" THEN "crt" ELSE "key"]

Contact(j, q, s) ==
    LET f == FileOf(q)
    IN /\ ~Running(j)
       /\ Admits(q.op, q.peer, s, q.host)
       /\ job' = [i \in Jobs |->
             IF i = j THEN
                [pc |-> FirstStep(q.op), op |-> q.op, peer |-> q.peer, srv |-> s, file |-> f,
                 todo |-> {}, to |-> s,
                 key |-> IF q.op = "put" THEN disk[q.peer][f] ELSE NoFile,
                 alone |-> ~Busy(j, f), missed |-> {}]
             ELSE IF Running(i) /\ job[i].file = f THEN [job[i] EXCEPT !.alone = FALSE]
             ELSE job[i]]
       /\ admitted' = admitted \cup (CASE q.op = "permit" -> {q.host}
                                        [] q.op = "put" -> {q.host} \cap Managed
                                        [] OTHER -> {})
       /\ agreed' = [agreed EXCEPT ![f] = IF q.op = "fetch" THEN @ \ {q.peer} ELSE {}]
       /\ UNCHANGED <<disk, made>>

(***************************************************************************)
(* libpbc_generate_crypt_key, or the fputs of SETPKEY: opening the file    *)
(* empties it.                                                             *)
(***************************************************************************)
OpenFile(j) ==
    /\ job[j].pc = "open"
    /\ Write(job[j].srv, job[j].file, Short)
    /\ Becomes(j, [job[j] EXCEPT !.pc = "write"])
    /\ UNCHANGED <<made, admitted, agreed>>

\* (Faults: no pushes; the reply before the pushes.)
StartNoPushes(s)  == [s EXCEPT !.pc = "push"]
StartWithReply(s) ==
    [s EXCEPT !.pc = IF s.op = "genkey" THEN "reply" ELSE "push", !.todo = Servers \ {s.srv}]

StartPushes(s) == [s EXCEPT !.pc = "push", !.todo = Servers \ {s.srv}]
NextPush(s)    == [s EXCEPT !.pc = "push", !.to = s.srv, !.key = NoFile]

WriteFile(j) ==
    /\ job[j].pc = "write"
    /\ made < MaxKeys
    /\ made' = made + 1
    /\ Write(job[j].srv, job[j].file, made')
    /\ Becomes(j, StartPushes(job[j]))
    /\ UNCHANGED <<admitted, agreed>>

\* The file cannot be opened.  GENKEY takes PBC_FAIL for success and goes on.
OpenFails(j) ==
    /\ job[j].pc = "open"
    /\ Becomes(j, IF job[j].op = "genkey" THEN StartPushes(job[j]) ELSE Idle)
    /\ UNCHANGED <<disk, made, admitted, agreed>>

\* The file is not written in full, which only SETPKEY notices.
WriteFails(j) ==
    /\ job[j].pc = "write"
    /\ Becomes(j, IF job[j].op = "setpkey" THEN Idle
                  ELSE [StartPushes(job[j]) EXCEPT !.missed = {job[j].srv}])
    /\ UNCHANGED <<disk, made, admitted, agreed>>

(***************************************************************************)
(* pushkey: for each of the other servers, a keyclient reads the file and  *)
(* has the server store it (SETKEY, SETPKEY).  Failures are ignored.       *)
(***************************************************************************)
\* SETPKEY calls pushkey without the name of a peer: the command line of the
\* keyclient ends with "-H", and it prints its usage.
KeyclientStarts(j) == job[j].op # "setpkey"

PushRead(j) ==
    /\ job[j].pc = "push" /\ KeyclientStarts(j)
    /\ Complete(disk[job[j].srv][job[j].file])
    /\ \E r \in job[j].todo :
          Becomes(j, [job[j] EXCEPT !.pc = "put", !.to = r, !.todo = @ \ {r},
                                    !.key = disk[job[j].srv][job[j].file]])
    /\ UNCHANGED <<disk, made, admitted, agreed>>

PushFails(j) ==
    /\ job[j].pc = "push"
    /\ \E r \in job[j].todo :
          Becomes(j, [job[j] EXCEPT !.todo = @ \ {r},
                                    !.missed = IF KeyclientStarts(j) THEN @ \cup {r} ELSE @])
    /\ UNCHANGED <<disk, made, admitted, agreed>>

\* libpbc_set_crypt_key at the other server.
SetOpen(j) ==
    /\ job[j].pc = "put"
    /\ Write(job[j].to, job[j].file, Short)
    /\ Becomes(j, [job[j] EXCEPT !.pc = "set"])
    /\ UNCHANGED <<made, admitted, agreed>>

SetWrite(j) ==
    /\ job[j].pc = "set"
    /\ Write(job[j].to, job[j].file, job[j].key)
    /\ Becomes(j, NextPush(job[j]))
    /\ UNCHANGED <<made, admitted, agreed>>

\* The other server cannot be reached, refuses, or does not get it written.
SetFails(j) ==
    /\ job[j].pc \in {"put", "set"}
    /\ Becomes(j, [NextPush(job[j]) EXCEPT !.missed = @ \cup {job[j].to}])
    /\ UNCHANGED <<disk, made, admitted, agreed>>

(***************************************************************************)
(* The end of doit: GENKEY and FETCHKEY read the key from the file again.  *)
(***************************************************************************)
\* The servers where the run did not fail to write the key.
Reached(j) == Servers \ job[j].missed

PushesDone(j) == job[j].pc = "push" /\ job[j].todo = {}

Return(j) ==
    /\ PushesDone(j)
    /\ job[j].op = "genkey"
    /\ Becomes(j, [job[j] EXCEPT !.pc = "reply"])
    /\ UNCHANGED <<disk, made, admitted, agreed>>

ReturnNothing(j) ==
    /\ PushesDone(j)
    /\ job[j].op # "genkey"
    /\ Becomes(j, Idle)
    /\ agreed' = IF job[j].op \in {"permit", "setpkey"} /\ job[j].alone
                 THEN [agreed EXCEPT ![job[j].file] = Reached(j)] ELSE agreed
    /\ UNCHANGED <<disk, made, admitted>>

Reply(j) ==
    /\ job[j].pc = "reply"
    /\ LET x == disk[job[j].srv][job[j].file]
       IN Becomes(j, IF Complete(x) THEN [job[j] EXCEPT !.pc = "save", !.key = x] ELSE Idle)
    /\ UNCHANGED <<disk, made, admitted, agreed>>

\* The keyclient stores the key it was given.
Save(j) ==
    /\ job[j].pc = "save"
    /\ Write(job[j].peer, job[j].file, job[j].key)
    /\ Becomes(j, Idle)
    /\ agreed' = [agreed EXCEPT ![job[j].file] =
          IF ~job[j].alone THEN @
          ELSE IF job[j].op = "genkey" THEN Reached(j) \cup {job[j].peer}
          ELSE IF job[j].srv \in @ THEN @ \cup {job[j].peer}
          ELSE @]
    /\ UNCHANGED <<made, admitted>>

SaveFails(j) ==
    /\ job[j].pc = "save"
    /\ Write(job[j].peer, job[j].file, Short)
    /\ Becomes(j, Idle)
    /\ UNCHANGED <<made, admitted, agreed>>

\* The server's process, or the keyclient, dies; a push that is under way
\* goes on without it.
Die(j) ==
    /\ Running(j)
    /\ Becomes(j, IF job[j].pc \in {"put", "set"}
                  THEN [job[j] EXCEPT !.op = "put", !.todo = {}, !.alone = FALSE]
                  ELSE Idle)
    /\ UNCHANGED <<disk, made, admitted, agreed>>

Next ==
    \E j \in Jobs :
        \/ \E q \in Requests, s \in Servers : Contact(j, q, s)
        \/ OpenFile(j) \/ OpenFails(j)
        \/ WriteFile(j) \/ WriteFails(j)
        \/ PushRead(j) \/ PushFails(j)
        \/ SetOpen(j) \/ SetWrite(j) \/ SetFails(j)
        \/ Return(j) \/ ReturnNothing(j)
        \/ Reply(j) \/ Save(j) \/ SaveFails(j)
        \/ Die(j)

Spec == Init /\ [][Next]_vars

(***************************************************************************)
(* Properties.                                                             *)
(***************************************************************************)
JobState ==
    [ pc : {"open", "write", "push", "put", "set", "reply", "save"}, op : Ops,
      peer : Clients, srv : Servers, file : Files, todo : SUBSET Servers, to : Servers,
      key : Content, alone : BOOLEAN, missed : SUBSET Servers ]

\* Files hold keys or parts of them, and a key that is on its way to a
\* machine is a whole one.
TypeOK ==
    /\ disk \in [Machines -> [Files -> Content]]
    /\ job \in [Jobs -> JobState \cup {Idle}]
    /\ \A j \in Jobs : job[j].pc \in {"put", "set", "save"} => job[j].key \in Keys
    /\ made \in 0 .. MaxKeys
    /\ admitted \subseteq Hosts
    /\ agreed \in [Files -> SUBSET Machines]

\* Host h, or a domain it belongs to, is in set S.
Below(h, S) ==
    \A P \in SUBSET Hosts : (S \subseteq P /\ \A g \in Hosts : Parent[g] \in P => g \in P) => h \in P

\* No machine has a key for a host, not even a part of one, unless somebody
\* on the access list permitted the host or a domain above it (PERMIT), or
\* somebody on keymgt_peers brought a key for the one or the other from his
\* own cluster (SETKEY, which does not ask whether the host is permitted):
\* GENKEY, FETCHKEY and the pushes of the servers let no other host in, and
\* SETKEY no host but those the peer had a key of to begin with.
OnlyPermittedHosts ==
    \A m \in Machines, h \in Hosts :
        disk[m][KeyFile(h)] # NoFile =>
            Below(h, admitted) \/ (m \in KeymgtPeers /\ h \in Managed)

\* Copies of one file that are there, and the same.
SameCopies(f, machines) ==
    \A a, b \in machines : disk[a][f] \in Keys /\ disk[a][f] = disk[b][f]

\* A run that is alone (no other run for the host goes on at the same time)
\* leaves one key on its client and on all the login servers where no push
\* failed, whatever earlier runs have left behind, and the copies stay the
\* same until the next run.  So a generation whose pushes all arrive repairs
\* what failed or was overtaken before.
KeysAgree == \A f \in Files : f.kind = "key" => SameCopies(f, agreed[f])

\* When a client is handed a key that was generated, the pushes are over: the
\* key is on all the login servers but those where its push failed, which
\* GENKEY does not look at (keyserver.c:587).  A server that does not have it
\* could not read what the client's server encrypts with it.
ServersFirst ==
    \A j \in Jobs : job[j].pc = "save" /\ job[j].op = "genkey" /\ job[j].alone
        => \A s \in Reached(j) \cup {job[j].srv} : disk[s][job[j].file] = job[j].key

\* "push the pkey to the other login servers": so does a certificate that is
\* set at one login server become known to all.
CertsAgree == \A f \in Files : f.kind = "crt" => SameCopies(f, agreed[f])
=============================================================================
