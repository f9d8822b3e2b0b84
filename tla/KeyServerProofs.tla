-------------------------- MODULE KeyServerProofs --------------------------
(***************************************************************************)
(* Theorems about KeyServer, for any number of login servers, clients,     *)
(* hosts and runs, whatever fails.                                         *)
(***************************************************************************)
EXTENDS KeyServer, TLAPS

USE MachineAssumption, HostAssumption, ListAssumption, RequestAssumption, KeyAssumption

\* One step of run j.
Step(j) ==
    \/ \E q \in Requests, s \in Servers : Contact(j, q, s)
    \/ OpenFile(j) \/ OpenFails(j)
    \/ WriteFile(j) \/ WriteFails(j)
    \/ PushRead(j) \/ PushFails(j)
    \/ SetOpen(j) \/ SetWrite(j) \/ SetFails(j)
    \/ Return(j) \/ ReturnNothing(j)
    \/ Reply(j) \/ Save(j) \/ SaveFails(j)
    \/ Die(j)

\* What is in job[j] while the run goes on.
LEMMA RunningType ==
    ASSUME TypeOK, NEW j \in Jobs, Running(j)
    PROVE  job[j] \in JobState
BY DEF TypeOK, Running, Idle

LEMMA WriteType ==
    ASSUME TypeOK, NEW m \in Machines, NEW f \in Files, NEW x \in Content, Write(m, f, x)
    PROVE  disk' \in [Machines -> [Files -> Content]]
BY DEF TypeOK, Write

LEMMA InitType == Init => TypeOK
BY DEF Init, TypeOK, Content, Keys, Foreign, Idle

LEMMA ContactType ==
    ASSUME TypeOK, NEW j \in Jobs, NEW q \in Requests, NEW s \in Servers, Contact(j, q, s)
    PROVE  TypeOK'
<1> DEFINE f == FileOf(q)
<1> q \in [op : Ops, peer : Clients, host : Hosts]
  OBVIOUS
<1>1. f \in Files
  BY DEF FileOf, Files
<1>2. q.op = "put" => disk[q.peer][f] \in Keys
  BY DEF Contact, Admits, Complete, FileOf, KeyFile
<1>3. job' \in [Jobs -> JobState \cup {Idle}]
  <2>1. \A i \in Jobs : Running(i) => [job[i] EXCEPT !.alone = FALSE] \in JobState
    BY RunningType DEF JobState
  <2>2. [pc |-> FirstStep(q.op), op |-> q.op, peer |-> q.peer, srv |-> s, file |-> f,
         todo |-> {}, to |-> s, key |-> IF q.op = "put" THEN disk[q.peer][f] ELSE NoFile,
         alone |-> ~Busy(j, f), missed |-> {}] \in JobState
    <3>1. FirstStep(q.op) \in {"open", "put", "reply"}
      BY DEF FirstStep
    <3>2. (IF q.op = "put" THEN disk[q.peer][f] ELSE NoFile) \in Content
      BY <1>2 DEF Content
    <3> QED
      BY <1>1, <3>1, <3>2 DEF JobState
  <2> QED
    BY <2>1, <2>2 DEF Contact, TypeOK
<1>4. \A i \in Jobs : job'[i].pc \in {"put", "set", "save"} => job'[i].key \in Keys
  <2> TAKE i \in Jobs
  <2>1. CASE i = j
    BY <1>2, <2>1 DEF Contact, FirstStep, Ops
  <2>2. CASE i # j /\ Running(i) /\ job[i].file = f
    <3>1. job'[i] = [job[i] EXCEPT !.alone = FALSE]
      BY <2>2 DEF Contact
    <3> QED
      BY <2>2, <3>1, RunningType DEF TypeOK, JobState
  <2>3. CASE i # j /\ ~(Running(i) /\ job[i].file = f)
    BY <2>3 DEF Contact, TypeOK
  <2> QED
    BY <2>1, <2>2, <2>3
<1>5. agreed' \in [Files -> SUBSET Machines]
  BY <1>1 DEF Contact, TypeOK
<1>6. admitted' \subseteq Hosts
  BY DEF Contact, TypeOK
<1> QED
  BY <1>3, <1>4, <1>5, <1>6 DEF Contact, TypeOK

LEMMA StepType ==
    ASSUME TypeOK, NEW j \in Jobs, Step(j)
    PROVE  TypeOK'
<1> USE DEF Becomes, Running
<1>1. CASE \E q \in Requests, s \in Servers : Contact(j, q, s)
  BY <1>1, ContactType
<1>2. job[j] # Idle => job[j] \in JobState
  BY DEF TypeOK
<1>3. CASE OpenFile(j)
  <2>1. job[j] \in JobState
    BY <1>2, <1>3 DEF OpenFile, Idle
  <2>2. disk' \in [Machines -> [Files -> Content]]
    BY <1>3, <2>1, WriteType DEF OpenFile, JobState, Machines, Content
  <2> QED
    BY <1>3, <2>1, <2>2 DEF OpenFile, TypeOK, JobState
<1>4. CASE OpenFails(j)
  <2>1. job[j] \in JobState
    BY <1>2, <1>4 DEF OpenFails, Idle
  <2> QED
    BY <1>4, <2>1 DEF OpenFails, TypeOK, JobState, StartPushes, Idle
<1>5. CASE WriteFile(j)
  <2>1. job[j] \in JobState
    BY <1>2, <1>5 DEF WriteFile, Idle
  <2>2. made' \in Keys
    BY <1>5 DEF WriteFile, TypeOK, Keys, Foreign
  <2>3. disk' \in [Machines -> [Files -> Content]]
    BY <1>5, <2>1, <2>2, WriteType DEF WriteFile, JobState, Machines, Content
  <2>4. StartPushes(job[j]) \in JobState /\ StartPushes(job[j]).pc = "push"
    BY <2>1 DEF StartPushes, JobState
  <2> QED
    BY <1>5, <2>2, <2>3, <2>4 DEF WriteFile, TypeOK, Keys
<1>6. CASE WriteFails(j)
  <2>1. job[j] \in JobState
    BY <1>2, <1>6 DEF WriteFails, Idle
  <2> QED
    BY <1>6, <2>1 DEF WriteFails, TypeOK, JobState, StartPushes, Idle
<1>7. CASE PushRead(j)
  <2>1. job[j] \in JobState
    BY <1>2, <1>7 DEF PushRead, Idle
  <2> DEFINE x == disk[job[j].srv][job[j].file]
  <2>2. x \in Keys
    BY <1>7 DEF PushRead, Complete
  <2>3. PICK r \in job[j].todo :
          job' = [job EXCEPT ![j] = [job[j] EXCEPT !.pc = "put", !.to = r, !.todo = @ \ {r},
                                                   !.key = x]]
    BY <1>7 DEF PushRead
  <2>4. job'[j] \in JobState /\ job'[j].key = x
    BY <2>1, <2>2, <2>3 DEF TypeOK, JobState, Content
  <2> QED
    BY <1>7, <2>2, <2>3, <2>4 DEF PushRead, TypeOK
<1>8. CASE PushFails(j)
  <2>1. job[j] \in JobState
    BY <1>2, <1>8 DEF PushFails, Idle
  <2>2. PICK r \in job[j].todo :
          job' = [job EXCEPT ![j] =
                    [job[j] EXCEPT !.todo = @ \ {r},
                                   !.missed = IF KeyclientStarts(j) THEN @ \cup {r} ELSE @]]
    BY <1>8 DEF PushFails
  <2>3. job'[j] \in JobState /\ job'[j].pc = "push"
    <3>1. (IF KeyclientStarts(j) THEN job[j].missed \cup {r} ELSE job[j].missed)
            \in SUBSET Servers
      BY <2>1 DEF JobState
    <3> QED
      BY <1>8, <2>1, <2>2, <3>1 DEF PushFails, TypeOK, JobState
  <2> QED
    BY <1>8, <2>2, <2>3 DEF PushFails, TypeOK
<1>9. CASE SetOpen(j)
  <2>1. job[j] \in JobState
    BY <1>2, <1>9 DEF SetOpen, Idle
  <2>2. disk' \in [Machines -> [Files -> Content]]
    BY <1>9, <2>1, WriteType DEF SetOpen, JobState, Machines, Content
  <2> QED
    BY <1>9, <2>1, <2>2 DEF SetOpen, TypeOK, JobState
<1>10. CASE SetWrite(j)
  <2>1. job[j] \in JobState
    BY <1>2, <1>10 DEF SetWrite, Idle
  <2>2. disk' \in [Machines -> [Files -> Content]]
    BY <1>10, <2>1, WriteType DEF SetWrite, JobState, Machines, Content, TypeOK
  <2> QED
    BY <1>10, <2>1, <2>2 DEF SetWrite, TypeOK, JobState, NextPush, Content
<1>11. CASE SetFails(j)
  <2>1. job[j] \in JobState
    BY <1>2, <1>11 DEF SetFails, Idle
  <2> QED
    BY <1>11, <2>1 DEF SetFails, TypeOK, JobState, NextPush, Content
<1>12. CASE Return(j)
  <2>1. job[j] \in JobState
    BY <1>2, <1>12 DEF Return, PushesDone, Idle
  <2> QED
    BY <1>12, <2>1 DEF Return, TypeOK, JobState
<1>13. CASE ReturnNothing(j)
  <2>1. job[j] \in JobState
    BY <1>2, <1>13 DEF ReturnNothing, PushesDone, Idle
  <2> QED
    BY <1>13, <2>1 DEF ReturnNothing, TypeOK, JobState, Idle, Machines, Reached
<1>14. CASE Reply(j)
  <2>1. job[j] \in JobState
    BY <1>2, <1>14 DEF Reply, Idle
  <2> QED
    BY <1>14, <2>1 DEF Reply, TypeOK, JobState, Idle, Complete, Content
<1>15. CASE Save(j)
  <2>1. job[j] \in JobState
    BY <1>2, <1>15 DEF Save, Idle
  <2>2. disk' \in [Machines -> [Files -> Content]]
    BY <1>15, <2>1, WriteType DEF Save, JobState, Machines, Content, TypeOK
  <2>3. agreed' \in [Files -> SUBSET Machines]
    BY <1>15, <2>1 DEF Save, JobState, Machines, TypeOK, Reached
  <2> QED
    BY <1>15, <2>1, <2>2, <2>3 DEF Save, TypeOK, Idle
<1>16. CASE SaveFails(j)
  <2>1. job[j] \in JobState
    BY <1>2, <1>16 DEF SaveFails, Idle
  <2>2. disk' \in [Machines -> [Files -> Content]]
    BY <1>16, <2>1, WriteType DEF SaveFails, JobState, Machines, Content, TypeOK
  <2> QED
    BY <1>16, <2>1, <2>2 DEF SaveFails, TypeOK, Idle
<1>17. CASE Die(j)
  <2>1. job[j] \in JobState
    BY <1>2, <1>17 DEF Die, Idle
  <2> QED
    BY <1>17, <2>1 DEF Die, TypeOK, JobState, Idle, Ops
<1> QED
  BY <1>1, <1>3, <1>4, <1>5, <1>6, <1>7, <1>8, <1>9, <1>10, <1>11, <1>12, <1>13, <1>14,
     <1>15, <1>16, <1>17 DEF Step

\* Next is a step of some run.
LEMMA NextSteps == Next => \E j \in Jobs : Step(j)
BY DEF Next, Step

\* Files hold keys or parts of them, and a key on its way is a whole one,
\* whatever the processes of keyserver.c and keyclient.c fail to do.
THEOREM TypeCorrect == Spec => []TypeOK
<1>1. Init => TypeOK
  BY InitType
<1>2. TypeOK /\ [Next]_vars => TypeOK'
  <2> SUFFICES ASSUME TypeOK, [Next]_vars PROVE TypeOK'
    OBVIOUS
  <2>1. CASE Next
    BY <2>1, NextSteps, StepType
  <2>2. CASE UNCHANGED vars
    BY <2>2 DEF vars, TypeOK
  <2> QED
    BY <2>1, <2>2
<1> QED
  BY <1>1, <1>2, PTL DEF Spec

(***************************************************************************)
(* Only admitted hosts have keys on the login servers.  A run that makes,  *)
(* carries or hands out a key is about such a host; only a fetch may ask   *)
(* about any other.                                                        *)
(***************************************************************************)
RunsPermitted ==
    \A j \in Jobs : Running(j) /\ job[j].file.kind = "key" /\ job[j].pc # "reply"
        => Below(job[j].file.host, admitted)

PermitInv == TypeOK /\ OnlyPermittedHosts /\ RunsPermitted

LEMMA BelowGrows ==
    ASSUME NEW S, NEW T, S \subseteq T, NEW h \in Hosts, Below(h, S)
    PROVE  Below(h, T)
BY DEF Below

LEMMA BelowParent ==
    ASSUME NEW S, NEW h \in Hosts, Below(Parent[h], S)
    PROVE  Below(h, S)
BY DEF Below

LEMMA BelowSelf ==
    ASSUME NEW S, NEW h \in S
    PROVE  Below(h, S)
BY DEF Below

\* A write to the file of an admitted host keeps the invariant.
LEMMA WritePermitted ==
    ASSUME TypeOK, OnlyPermittedHosts, NEW m, NEW f \in Files, NEW x, Write(m, f, x),
           f.kind = "key" => Below(f.host, admitted), admitted' = admitted
    PROVE  OnlyPermittedHosts'
<1> SUFFICES ASSUME NEW n \in Machines, NEW h \in Hosts, disk'[n][KeyFile(h)] # NoFile
             PROVE  Below(h, admitted) \/ (n \in KeymgtPeers /\ h \in Managed)
  BY DEF OnlyPermittedHosts, Below
<1>1. KeyFile(h) \in Files
  BY DEF KeyFile, Files
<1>2. CASE f = KeyFile(h)
  BY <1>2 DEF KeyFile
<1>3. CASE f # KeyFile(h)
  BY <1>1, <1>3 DEF Write, TypeOK, OnlyPermittedHosts
<1> QED
  BY <1>2, <1>3

LEMMA ContactPermitted ==
    ASSUME PermitInv, NEW j \in Jobs, NEW q \in Requests, NEW s \in Servers, Contact(j, q, s)
    PROVE  OnlyPermittedHosts' /\ RunsPermitted'
<1> q \in [op : Ops, peer : Clients, host : Hosts]
  OBVIOUS
<1>1. admitted \subseteq admitted' /\ admitted' \subseteq Hosts /\ disk' = disk
  BY DEF Contact, PermitInv, TypeOK
<1>2. OnlyPermittedHosts'
  BY <1>1, BelowGrows DEF PermitInv, OnlyPermittedHosts
<1>3. ASSUME NEW i \in Jobs, Running(i)', job'[i].file.kind = "key", job'[i].pc # "reply"
      PROVE  Below(job'[i].file.host, admitted')
  <2>1. CASE i = j
    <3>1. job'[j].file = FileOf(q) /\ job'[j].pc = FirstStep(q.op)
      BY DEF Contact
    <3>2. q.op \in {"permit", "genkey", "put"} /\ job'[j].file.host = q.host
      BY <1>3, <2>1, <3>1 DEF FileOf, FirstStep, Ops
    <3>3. CASE q.op = "permit"
      <4>1. q.host \in admitted'
        BY <3>3 DEF Contact
      <4> QED
        BY <2>1, <3>2, <4>1, BelowSelf
    <3>4. CASE q.op = "put"
      <4>1. disk[q.peer][KeyFile(q.host)] # NoFile
        BY <3>4 DEF Contact, Admits, Complete, Keys, Foreign
      <4>2. Below(q.host, admitted) \/ q.host \in Managed
        BY <4>1 DEF PermitInv, OnlyPermittedHosts, Machines
      <4>3. q.host \in Managed => q.host \in admitted'
        BY <3>4 DEF Contact
      <4>4. Below(q.host, admitted')
        BY <1>1, <4>2, <4>3, BelowGrows, BelowSelf
      <4> QED
        BY <2>1, <3>2, <4>4
    <3>5. CASE q.op = "genkey"
      <4>1. test_crypt_key(s, q.host)
        BY <3>5 DEF Contact, Admits
      <4>2. Below(q.host, admitted) \/ Below(Parent[q.host], admitted)
        BY <4>1 DEF PermitInv, OnlyPermittedHosts, Machines, test_crypt_key
      <4> QED
        BY <1>1, <2>1, <3>2, <4>2, BelowParent, BelowGrows
    <3> QED
      BY <3>2, <3>3, <3>4, <3>5
  <2>2. CASE i # j
    <3>1. job'[i] = job[i] \/ (Running(i) /\ job'[i] = [job[i] EXCEPT !.alone = FALSE])
      BY <2>2 DEF Contact
    <3>2. Running(i) /\ job[i] \in JobState
      BY <1>3, <3>1, RunningType DEF Running, PermitInv
    <3>3. job'[i].file = job[i].file /\ job'[i].pc = job[i].pc
      BY <3>1, <3>2 DEF JobState
    <3>4. Below(job[i].file.host, admitted)
      BY <1>3, <3>2, <3>3 DEF PermitInv, RunsPermitted
    <3> QED
      BY <1>1, <3>2, <3>3, <3>4, BelowGrows DEF JobState, Files
  <2> QED
    BY <2>1, <2>2
<1> QED
  BY <1>2, <1>3 DEF RunsPermitted

\* A later step of a run stays with its host.
LEMMA StepPermitted ==
    ASSUME PermitInv, NEW j \in Jobs, Step(j)
    PROVE  OnlyPermittedHosts' /\ RunsPermitted'
<1>1. CASE \E q \in Requests, s \in Servers : Contact(j, q, s)
  BY <1>1, ContactPermitted
<1>2. CASE ~\E q \in Requests, s \in Servers : Contact(j, q, s)
  <2>1. Running(j)
    BY <1>2 DEF Step, OpenFile, OpenFails, WriteFile, WriteFails, PushRead, PushFails, SetOpen,
                SetWrite, SetFails, Return, ReturnNothing, PushesDone, Reply, Save, SaveFails, Die,
                Running
  <2>2. job[j] \in JobState
    BY <2>1, RunningType DEF PermitInv
  <2>3. PICK s : job' = [job EXCEPT ![j] = s] /\ s \in {Idle} \cup JobState
                 /\ (s = Idle \/ s.file = job[j].file)
    <3>1. job' = [job EXCEPT ![j] = job'[j]]
      BY <1>2, <2>1 DEF PermitInv, TypeOK, Becomes, Step, OpenFile, OpenFails, WriteFile, WriteFails, PushRead, PushFails, SetOpen,
                SetWrite, SetFails, Return, ReturnNothing, PushesDone, Reply, Save, SaveFails, Die
    <3>2. job'[j] \in {Idle} \cup JobState
      BY StepType DEF PermitInv, TypeOK
    <3>3. job'[j] = Idle \/ job'[j].file = job[j].file
      <4>0. job \in [Jobs -> JobState \cup {Idle}]
        BY DEF PermitInv, TypeOK
      <4> USE <2>2, <4>0 DEF JobState, Becomes
      <4>1. CASE OpenFile(j)
        BY <4>1 DEF OpenFile
      <4>2. CASE OpenFails(j)
        BY <4>2 DEF OpenFails, StartPushes
      <4>3. CASE WriteFile(j)
        BY <4>3 DEF WriteFile, StartPushes
      <4>4. CASE WriteFails(j)
        BY <4>4 DEF WriteFails, StartPushes
      <4>5. CASE PushRead(j)
        BY <4>5 DEF PushRead
      <4>6. CASE PushFails(j)
        BY <4>6 DEF PushFails
      <4>7. CASE SetOpen(j)
        BY <4>7 DEF SetOpen
      <4>8. CASE SetWrite(j)
        BY <4>8 DEF SetWrite, NextPush
      <4>9. CASE SetFails(j)
        BY <4>9 DEF SetFails, NextPush
      <4>10. CASE Return(j)
        BY <4>10 DEF Return
      <4>11. CASE ReturnNothing(j)
        BY <4>11 DEF ReturnNothing
      <4>12. CASE Reply(j)
        BY <4>12 DEF Reply
      <4>13. CASE Save(j)
        BY <4>13 DEF Save
      <4>14. CASE SaveFails(j)
        BY <4>14 DEF SaveFails
      <4>15. CASE Die(j)
        BY <4>15 DEF Die
      <4> QED
        BY <1>2, <4>1, <4>2, <4>3, <4>4, <4>5, <4>6, <4>7, <4>8, <4>9, <4>10, <4>11, <4>12, <4>13, <4>14, <4>15 DEF Step
    <3> QED
      BY <3>1, <3>2, <3>3
  <2>4. admitted' = admitted
    BY <1>2 DEF Step, OpenFile, OpenFails, WriteFile, WriteFails, PushRead, PushFails, SetOpen,
                SetWrite, SetFails, Return, ReturnNothing, Reply, Save, SaveFails, Die
  <2>5. job[j].pc # "reply" /\ job[j].file.kind = "key" => Below(job[j].file.host, admitted)
    BY <2>1 DEF PermitInv, RunsPermitted
  <2>6. CASE job[j].pc = "reply"
    <3>1. disk' = disk
      BY <1>2, <2>6 DEF Step, OpenFile, OpenFails, WriteFile, WriteFails, PushRead, PushFails, SetOpen,
                SetWrite, SetFails, Return, ReturnNothing, PushesDone, Reply, Save, SaveFails, Die
    <3>2. job'[j] # Idle => disk[job[j].srv][job[j].file] # NoFile
      BY <1>2, <2>2, <2>6 DEF Step, OpenFile, OpenFails, WriteFile, WriteFails, PushRead, PushFails, SetOpen,
                SetWrite, SetFails, Return, ReturnNothing, PushesDone, Reply, Save, SaveFails, Die,
                Becomes, PermitInv, TypeOK, Complete, Keys, Foreign
    <3>3. OnlyPermittedHosts'
      BY <2>4, <3>1 DEF PermitInv, OnlyPermittedHosts
    <3>4. job'[j] # Idle /\ job[j].file.kind = "key" => Below(job[j].file.host, admitted)
      <4> HAVE job'[j] # Idle /\ job[j].file.kind = "key"
      <4>1. job[j].file = KeyFile(job[j].file.host) /\ job[j].file.host \in Hosts
        BY <2>2 DEF KeyFile, JobState, Files
      <4> QED
        BY <2>2, <3>2, <4>1 DEF PermitInv, OnlyPermittedHosts, JobState, Machines
    <3>5. RunsPermitted'
      BY <2>3, <2>4, <3>4 DEF PermitInv, RunsPermitted, Running, Idle, TypeOK
    <3> QED
      BY <3>3, <3>5
  <2>7. CASE job[j].pc # "reply"
    <3>1. disk' = disk \/ \E m, x : Write(m, job[j].file, x)
      BY <1>2 DEF Step, OpenFile, OpenFails, WriteFile, WriteFails, PushRead, PushFails, SetOpen,
                SetWrite, SetFails, Return, ReturnNothing, Reply, Save, SaveFails, Die
    <3>2. OnlyPermittedHosts'
      <4>1. CASE disk' = disk
        BY <2>4, <4>1 DEF PermitInv, OnlyPermittedHosts
      <4>2. CASE \E m, x : Write(m, job[j].file, x)
        BY <2>2, <2>4, <2>5, <2>7, <4>2, WritePermitted DEF PermitInv, JobState
      <4> QED
        BY <3>1, <4>1, <4>2
    <3>3. RunsPermitted'
      BY <2>3, <2>4, <2>5, <2>7 DEF PermitInv, RunsPermitted, Running, Idle, TypeOK
    <3> QED
      BY <3>2, <3>3
  <2> QED
    BY <2>6, <2>7
<1> QED
  BY <1>1, <1>2

\* A host is let into the key directories of any number of servers and
\* clients only by PERMIT, or by the SETKEY of a key management peer that came
\* with a key of it; whatever the other operations, pushes and failures do.
THEOREM PermittedOnly == Spec => []OnlyPermittedHosts
<1>1. Init => PermitInv
  BY InitType DEF Init, PermitInv, OnlyPermittedHosts, RunsPermitted, Running, Idle, KeyFile, Files
<1>2. PermitInv /\ [Next]_vars => PermitInv'
  <2> SUFFICES ASSUME PermitInv, [Next]_vars PROVE PermitInv'
    OBVIOUS
  <2>1. CASE Next
    BY <2>1, NextSteps, StepType, StepPermitted DEF PermitInv
  <2>2. CASE UNCHANGED vars
    BY <2>2 DEF vars, PermitInv, TypeOK, OnlyPermittedHosts, RunsPermitted, Running
  <2> QED
    BY <2>1, <2>2
<1>3. PermitInv => OnlyPermittedHosts
  BY DEF PermitInv
<1> QED
  BY <1>1, <1>2, <1>3, PTL DEF Spec
=============================================================================
