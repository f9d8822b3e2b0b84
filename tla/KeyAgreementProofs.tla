------------------------ MODULE KeyAgreementProofs ------------------------
(***************************************************************************)
(* KeyServer keeps the copies of a key the same: the theorems about runs   *)
(* that are alone with their host, for any number of servers, clients and  *)
(* runs, whichever pushes fail.                                            *)
(***************************************************************************)
EXTENDS KeyServerProofs

Copy(j, s) == disk[s][job[j].file]

\* No other run has to do with the file of a run that is alone.
Alone(j) == job[j].alone => ~Busy(j, job[j].file)

\* The machines a run may make differ are not among those that agree.
Unsettled(j) ==
    IF job[j].op = "fetch" THEN job[j].peer \notin agreed[job[j].file]
    ELSE agreed[job[j].file] = {}

\* Which operations reach which steps.
Stage(j) ==
    /\ job[j].op = "fetch" => job[j].pc \in {"reply", "save"}
    /\ job[j].pc \in {"reply", "save"} => job[j].op \in {"fetch", "genkey"}
    /\ job[j].pc \in {"put", "set"} => job[j].op # "setpkey"
    /\ job[j].op = "setpkey" <=> job[j].file.kind = "crt"
    /\ job[j].srv \notin job[j].todo

\* How far a run that is alone has come with making the copies the same: all
\* that it is done with, and did not fail to write, are.
Progress(j) ==
    /\ job[j].pc = "push" =>
          \A s \in Reached(j) \ job[j].todo :
              /\ Copy(j, s) = Copy(j, job[j].srv)
              /\ job[j].op = "permit" => Copy(j, s) \in Keys
    /\ job[j].pc \in {"put", "set"} =>
          /\ job[j].to # job[j].srv
          /\ Copy(j, job[j].srv) = job[j].key
          /\ \A s \in Reached(j) \ (job[j].todo \cup {job[j].to}) : Copy(j, s) = job[j].key
    /\ job[j].op = "genkey" /\ job[j].pc = "reply" =>
          \A s \in Reached(j) : Copy(j, s) = Copy(j, job[j].srv)
    /\ job[j].op = "genkey" /\ job[j].pc = "save" =>
          \A s \in Reached(j) \cup {job[j].srv} : Copy(j, s) = job[j].key
    /\ job[j].op = "fetch" /\ job[j].pc = "save" /\ job[j].srv \in agreed[job[j].file] =>
          Copy(j, job[j].srv) = job[j].key

\* A run that is alone with the key it makes or fetches.
Makes(j) == job[j].alone /\ job[j].file.kind = "key" /\ job[j].op # "put"

RunOK(j) ==
    Running(j) =>
        /\ Alone(j)
        /\ Unsettled(j)
        /\ Stage(j)
        /\ Makes(j) => Progress(j)

Inv == TypeOK /\ KeysAgree /\ \A j \in Jobs : RunOK(j)

\* What the steps of run j after its first have in common: they change its
\* file only, and the agreement about it only if no other run has to do with
\* it.
Stays(j) ==
    /\ Running(j)
    /\ \E s : job' = [job EXCEPT ![j] = s] /\ (s = Idle \/ s.file = job[j].file)
                                        /\ (s # Idle /\ s.alone => job[j].alone)
    /\ \A m \in Machines, f \in Files : f # job[j].file => disk'[m][f] = disk[m][f]
    /\ \A f \in Files : f # job[j].file => agreed'[f] = agreed[f]
    /\ agreed' = agreed \/ job[j].alone

\* After the step, the machines said to agree about the file do.
AgreesAfter(j) ==
    LET f == job[j].file IN
    \A a, b \in agreed'[f] : disk'[a][f] \in Keys /\ disk'[a][f] = disk'[b][f]

LEMMA OthersOK ==
    ASSUME Inv, TypeOK', NEW j \in Jobs, Stays(j), NEW i \in Jobs \ {j}
    PROVE  RunOK(i)'
<1> SUFFICES ASSUME Running(i)' PROVE (Alone(i) /\ Unsettled(i) /\ Stage(i)
                 /\ (Makes(i) => Progress(i)))'
  BY DEF RunOK
<1>0. job \in [Jobs -> JobState \cup {Idle}]
  BY DEF Inv, TypeOK
<1>1. job'[i] = job[i] /\ Running(i) /\ job[i] \in JobState /\ job[j] \in JobState
  BY RunningType DEF Inv, TypeOK, Stays, Running
<1>2. RunOK(i) /\ RunOK(j)
  BY DEF Inv
<1>3. \A k \in Jobs : Running(k)' => Running(k) /\ job'[k].file = job[k].file
  BY <1>0 DEF Stays, Running, Idle
<1>4. Alone(i)'
  BY <1>1, <1>2, <1>3 DEF RunOK, Alone, Busy
<1>5. CASE job[i].file = job[j].file
  <2>1. ~job[j].alone /\ ~job[i].alone
    BY <1>1, <1>2, <1>5 DEF RunOK, Alone, Busy, Stays
  <2>2. agreed' = agreed
    BY <2>1 DEF Stays
  <2>3. Unsettled(i)' /\ Stage(i)'
    BY <1>1, <1>2, <2>2 DEF RunOK, Unsettled, Stage
  <2> QED
    BY <1>1, <1>4, <2>1, <2>3 DEF Makes
<1>6. CASE job[i].file # job[j].file
  <2>1. agreed'[job[i].file] = agreed[job[i].file]
    BY <1>1, <1>6 DEF Stays, JobState
  <2>2. Unsettled(i)' /\ Stage(i)'
    BY <1>1, <1>2, <2>1 DEF RunOK, Unsettled, Stage
  <2>3. \A s \in Servers : Copy(i, s)' = Copy(i, s)
    BY <1>1, <1>6 DEF Stays, JobState, Copy, Machines
  <2>4. ASSUME Makes(i) PROVE Progress(i)'
    <3>1. Progress(i)
      BY <1>1, <1>2, <2>4 DEF RunOK
    <3> QED
      BY <1>1, <2>1, <2>3, <3>1 DEF Progress, JobState, Reached
  <2> QED
    BY <1>1, <1>4, <2>2, <2>4 DEF Makes
<1> QED
  BY <1>5, <1>6

\* The same for the agreement about all other files.
LEMMA OtherFilesAgree ==
    ASSUME Inv, TypeOK', NEW j \in Jobs, Stays(j), NEW f \in Files, f # job[j].file,
           f.kind = "key"
    PROVE  SameCopies(f, agreed[f])'
BY DEF Inv, TypeOK, Stays, KeysAgree, SameCopies

\* A run stays alone.
LEMMA StaysAlone ==
    ASSUME Inv, NEW j \in Jobs, Stays(j), Running(j)'
    PROVE  Alone(j)'
<1>0. job \in [Jobs -> JobState \cup {Idle}]
  BY DEF Inv, TypeOK
<1>1. RunOK(j)
  BY DEF Inv
<1> QED
  BY <1>0, <1>1 DEF Stays, RunOK, Alone, Busy, Running, Idle

\* What is left to show of a step.
LEMMA StepKeeps ==
    ASSUME Inv, TypeOK', NEW j \in Jobs, Stays(j),
           Running(j)' => Unsettled(j)' /\ Stage(j)',
           Running(j)' /\ Makes(j)' => Progress(j)',
           job[j].file.kind = "key" => AgreesAfter(j)
    PROVE  Inv'
<1>0. job \in [Jobs -> JobState \cup {Idle}]
  BY DEF Inv, TypeOK
<1>1. RunOK(j)'
  <2> SUFFICES ASSUME Running(j)' PROVE RunOK(j)'
    BY DEF RunOK
  <2>1. job'[j].file = job[j].file
    BY <1>0 DEF Stays, Running, Idle
  <2> QED
    BY <2>1, StaysAlone DEF RunOK
<1>2. \A i \in Jobs : RunOK(i)'
  BY <1>1, OthersOK
<1>3. \A f \in Files : f # job[j].file /\ f.kind = "key" => SameCopies(f, agreed[f])'
  BY OtherFilesAgree
<1>4. KeysAgree'
  <2> SUFFICES ASSUME NEW f \in Files, f.kind = "key" PROVE SameCopies(f, agreed[f])'
    BY DEF KeysAgree
  <2>1. CASE f # job[j].file
    BY <1>3, <2>1
  <2>2. CASE f = job[j].file
    BY <2>2 DEF SameCopies, AgreesAfter
  <2> QED
    BY <2>1, <2>2
<1> QED
  BY <1>2, <1>4 DEF Inv

\* While the copies are made nothing is said to agree.
LEMMA NothingAgreed ==
    ASSUME Inv, TypeOK', NEW j \in Jobs, Running(j), job[j].op # "fetch", agreed' = agreed
    PROVE  /\ AgreesAfter(j)
           /\ Running(j)' /\ job'[j].file = job[j].file /\ job'[j].op # "fetch" => Unsettled(j)'
<1>1. agreed[job[j].file] = {}
  BY DEF Inv, RunOK, Unsettled
<1> QED
  BY <1>1 DEF AgreesAfter, Unsettled

\* A write changes one file of one machine.
LEMMA WriteElsewhere ==
    ASSUME TypeOK, NEW m \in Machines, NEW f \in Files, NEW x, Write(m, f, x)
    PROVE  /\ disk'[m][f] = x
           /\ \A n \in Machines : n # m => disk'[n][f] = disk[n][f]
           /\ \A n \in Machines, g \in Files : g # f => disk'[n][g] = disk[n][g]
BY DEF TypeOK, Write

LEMMA OpenFileKeeps ==
    ASSUME Inv, TypeOK', NEW j \in Jobs, OpenFile(j)
    PROVE  Inv'
<1>0. Running(j) /\ job[j] \in JobState /\ job \in [Jobs -> JobState \cup {Idle}] /\ RunOK(j)
  BY RunningType DEF Inv, OpenFile, Running, TypeOK
<1>1. job'[j] = [job[j] EXCEPT !.pc = "write"]
  BY <1>0 DEF OpenFile, Becomes
<1>2. job[j].op # "fetch"
  BY <1>0 DEF OpenFile, RunOK, Stage
<1>3. Stays(j)
  <2> DEFINE s == [job[j] EXCEPT !.pc = "write"]
  <2>1. \A m \in Machines, f \in Files : f # job[j].file => disk'[m][f] = disk[m][f]
    BY <1>0, WriteElsewhere DEF OpenFile, JobState, Machines, Inv
  <2>2. s.file = job[j].file /\ (s.alone => job[j].alone)
    BY <1>0 DEF JobState
  <2>3. job' = [job EXCEPT ![j] = s] /\ agreed' = agreed
    BY DEF OpenFile, Becomes
  <2> HIDE DEF s
  <2> QED
    BY <1>0, <2>1, <2>2, <2>3 DEF Stays
<1>4. Unsettled(j)' /\ AgreesAfter(j)
  BY <1>0, <1>1, <1>2, NothingAgreed DEF OpenFile, Running, JobState
<1>5. Stage(j)'
  BY <1>0, <1>1 DEF RunOK, Stage, JobState, OpenFile
<1>6. Progress(j)'
  BY <1>0, <1>1 DEF Progress, JobState
<1> QED
  BY <1>3, <1>4, <1>5, <1>6, StepKeeps

LEMMA OpenFailsKeeps ==
    ASSUME Inv, TypeOK', NEW j \in Jobs, OpenFails(j)
    PROVE  Inv'
<1>0. Running(j) /\ job[j] \in JobState /\ job \in [Jobs -> JobState \cup {Idle}] /\ RunOK(j)
  BY RunningType DEF Inv, OpenFails, Running, TypeOK
<1>1. \/ job'[j] = Idle
      \/ job'[j] = StartPushes(job[j]) /\ job[j].op = "genkey"
  BY <1>0 DEF OpenFails, Becomes
<1>2. job[j].op # "fetch"
  BY <1>0 DEF OpenFails, RunOK, Stage
<1>3. Stays(j)
  <2>1. job' = [job EXCEPT ![j] = job'[j]]
    BY <1>0 DEF OpenFails, Becomes
  <2> QED
    BY <1>0, <1>1, <2>1 DEF Stays, OpenFails, JobState, StartPushes
<1>4. AgreesAfter(j)
  BY <1>0, <1>2, NothingAgreed DEF OpenFails
<1>5. Running(j)' => Unsettled(j)' /\ Stage(j)' /\ (Makes(j)' => Progress(j)')
  <2> SUFFICES ASSUME Running(j)' PROVE Unsettled(j)' /\ Stage(j)' /\ (Makes(j)' => Progress(j)')
    OBVIOUS
  <2>1. job'[j] = StartPushes(job[j]) /\ job[j].op = "genkey"
    BY <1>1 DEF Running, Idle
  <2>2. Unsettled(j)'
    BY <1>0, <1>2, <2>1, NothingAgreed DEF OpenFails, JobState, StartPushes
  <2>3. Stage(j)'
    BY <1>0, <2>1 DEF RunOK, Stage, JobState, StartPushes
  <2>4. Progress(j)'
    BY <1>0, <2>1 DEF Progress, Reached, JobState, StartPushes
  <2> QED
    BY <2>2, <2>3, <2>4
<1> QED
  BY <1>3, <1>4, <1>5, StepKeeps

LEMMA WriteFileKeeps ==
    ASSUME Inv, TypeOK', NEW j \in Jobs, WriteFile(j)
    PROVE  Inv'
<1>0. Running(j) /\ job[j] \in JobState /\ job \in [Jobs -> JobState \cup {Idle}] /\ RunOK(j)
  BY RunningType DEF Inv, WriteFile, Running, TypeOK
<1>1. job'[j] = [job[j] EXCEPT !.pc = "push", !.todo = Servers \ {job[j].srv}]
  BY <1>0 DEF WriteFile, Becomes, StartPushes
<1>2. job[j].op # "fetch"
  BY <1>0 DEF WriteFile, RunOK, Stage
<1>3. Stays(j)
  <2> DEFINE s == StartPushes(job[j])
  <2>1. \A m \in Machines, f \in Files : f # job[j].file => disk'[m][f] = disk[m][f]
    BY <1>0, WriteElsewhere DEF WriteFile, JobState, Machines, Inv
  <2>2. s.file = job[j].file /\ (s.alone => job[j].alone)
    BY <1>0 DEF JobState, StartPushes
  <2>3. job' = [job EXCEPT ![j] = s] /\ agreed' = agreed
    BY DEF WriteFile, Becomes
  <2> HIDE DEF s
  <2> QED
    BY <1>0, <2>1, <2>2, <2>3 DEF Stays
<1>4. Unsettled(j)' /\ AgreesAfter(j)
  BY <1>0, <1>1, <1>2, NothingAgreed DEF WriteFile, Running, JobState
<1>5. Stage(j)'
  BY <1>0, <1>1 DEF RunOK, Stage, JobState, WriteFile
<1>6. Progress(j)'
  <2>1. made' \in Keys
    BY DEF WriteFile, TypeOK, Inv, Keys
  <2>2. disk'[job[j].srv][job[j].file] = made'
    BY <1>0, WriteElsewhere DEF WriteFile, JobState, Machines, Inv
  <2> QED
    BY <1>0, <1>1, <2>1, <2>2 DEF Progress, JobState, Copy, Reached
<1> QED
  BY <1>3, <1>4, <1>5, <1>6, StepKeeps

LEMMA WriteFailsKeeps ==
    ASSUME Inv, TypeOK', NEW j \in Jobs, WriteFails(j)
    PROVE  Inv'
<1>0. Running(j) /\ job[j] \in JobState /\ job \in [Jobs -> JobState \cup {Idle}] /\ RunOK(j)
  BY RunningType DEF Inv, WriteFails, Running, TypeOK
<1>1. job'[j] = Idle \/ job'[j] = [StartPushes(job[j]) EXCEPT !.missed = {job[j].srv}]
  BY <1>0 DEF WriteFails, Becomes
<1>2. job[j].op # "fetch"
  BY <1>0 DEF WriteFails, RunOK, Stage
<1>3. Stays(j)
  <2>1. job' = [job EXCEPT ![j] = job'[j]]
    BY <1>0 DEF WriteFails, Becomes
  <2> QED
    BY <1>0, <1>1, <2>1 DEF Stays, WriteFails, JobState, StartPushes
<1>4. AgreesAfter(j)
  BY <1>0, <1>2, NothingAgreed DEF WriteFails
<1>5. Running(j)' => Unsettled(j)' /\ Stage(j)' /\ (Makes(j)' => Progress(j)')
  <2> SUFFICES ASSUME Running(j)' PROVE Unsettled(j)' /\ Stage(j)' /\ (Makes(j)' => Progress(j)')
    OBVIOUS
  <2>1. job'[j] = [StartPushes(job[j]) EXCEPT !.missed = {job[j].srv}]
    BY <1>1 DEF Running, Idle
  <2>2. Unsettled(j)'
    BY <1>0, <1>2, <2>1, NothingAgreed DEF WriteFails, JobState, StartPushes
  <2>3. Stage(j)'
    BY <1>0, <2>1 DEF RunOK, Stage, JobState, StartPushes, WriteFails
  <2>4. Progress(j)'
    BY <1>0, <2>1 DEF Progress, Reached, JobState, StartPushes
  <2> QED
    BY <2>2, <2>3, <2>4
<1> QED
  BY <1>3, <1>4, <1>5, StepKeeps

LEMMA PushReadKeeps ==
    ASSUME Inv, TypeOK', NEW j \in Jobs, PushRead(j)
    PROVE  Inv'
<1>0. Running(j) /\ job[j] \in JobState /\ job \in [Jobs -> JobState \cup {Idle}] /\ RunOK(j)
  BY RunningType DEF Inv, PushRead, Running, TypeOK
<1>1. PICK r \in job[j].todo :
        job' = [job EXCEPT ![j] = [job[j] EXCEPT !.pc = "put", !.to = r, !.todo = @ \ {r},
                                                 !.key = Copy(j, job[j].srv)]]
  BY DEF PushRead, Becomes, Copy
<1>2. job'[j] = [job[j] EXCEPT !.pc = "put", !.to = r, !.todo = @ \ {r},
                               !.key = Copy(j, job[j].srv)]
  BY <1>0, <1>1
<1>3. job[j].op # "fetch"
  BY <1>0 DEF PushRead, RunOK, Stage
<1>4. Stays(j)
  BY <1>0, <1>1, <1>2 DEF Stays, PushRead, JobState
<1>5. Unsettled(j)' /\ AgreesAfter(j)
  BY <1>0, <1>2, <1>3, NothingAgreed DEF PushRead, Running, JobState
<1>6. Stage(j)'
  BY <1>0, <1>2 DEF RunOK, Stage, JobState, PushRead, KeyclientStarts
<1>7. ASSUME Makes(j)' PROVE Progress(j)'
  <2>1. Progress(j) /\ job[j].srv \notin job[j].todo
    BY <1>0, <1>2, <1>7 DEF RunOK, JobState, Stage, Makes
  <2>2. \A s \in Servers : Copy(j, s)' = Copy(j, s)
    BY <1>0, <1>2 DEF Copy, PushRead, JobState
  <2> QED
    BY <1>0, <1>2, <2>1, <2>2 DEF Progress, JobState, PushRead, Reached
<1> QED
  BY <1>4, <1>5, <1>6, <1>7, StepKeeps

LEMMA PushFailsKeeps ==
    ASSUME Inv, TypeOK', NEW j \in Jobs, PushFails(j)
    PROVE  Inv'
<1>0. Running(j) /\ job[j] \in JobState /\ job \in [Jobs -> JobState \cup {Idle}] /\ RunOK(j)
  BY RunningType DEF Inv, PushFails, Running, TypeOK
<1> DEFINE M(r) == IF KeyclientStarts(j) THEN job[j].missed \cup {r} ELSE job[j].missed
<1>1. PICK r \in job[j].todo :
        job' = [job EXCEPT ![j] = [job[j] EXCEPT !.todo = @ \ {r}, !.missed = M(r)]]
  BY DEF PushFails, Becomes
<1>2. job'[j] = [job[j] EXCEPT !.todo = @ \ {r}, !.missed = M(r)]
  BY <1>0, <1>1
<1>3. job[j].op # "fetch"
  BY <1>0 DEF PushFails, RunOK, Stage
<1>4. /\ job'[j].alone = job[j].alone /\ job'[j].file = job[j].file /\ job'[j].op = job[j].op
      /\ job'[j].pc = job[j].pc /\ job'[j].srv = job[j].srv
      /\ job'[j].todo = job[j].todo \ {r} /\ job'[j].missed = M(r)
  BY <1>0, <1>2 DEF JobState
<1>5. Stays(j)
  BY <1>0, <1>1, <1>4 DEF Stays, PushFails, JobState
<1>6. Unsettled(j)' /\ AgreesAfter(j)
  BY <1>0, <1>3, <1>4, NothingAgreed DEF PushFails, Running
<1>7. Stage(j)'
  BY <1>0, <1>4 DEF RunOK, Stage, PushFails
<1>8. ASSUME Makes(j)' PROVE Progress(j)'
  <2>1. Progress(j) /\ KeyclientStarts(j)
    BY <1>0, <1>4, <1>8 DEF RunOK, Makes, Stage, KeyclientStarts
  <2>2. Reached(j)' \ job'[j].todo = Reached(j) \ job[j].todo
    BY <1>4, <2>1 DEF Reached
  <2>3. \A s \in Servers : Copy(j, s)' = Copy(j, s)
    BY <1>4 DEF Copy, PushFails
  <2> QED
    BY <1>0, <1>4, <2>1, <2>2, <2>3 DEF Progress, PushFails, Reached, JobState
<1> QED
  BY <1>5, <1>6, <1>7, <1>8, StepKeeps

LEMMA SetOpenKeeps ==
    ASSUME Inv, TypeOK', NEW j \in Jobs, SetOpen(j)
    PROVE  Inv'
<1>0. Running(j) /\ job[j] \in JobState /\ job \in [Jobs -> JobState \cup {Idle}] /\ RunOK(j)
  BY RunningType DEF Inv, SetOpen, Running, TypeOK
<1>1. job'[j] = [job[j] EXCEPT !.pc = "set"]
  BY <1>0 DEF SetOpen, Becomes
<1>2. job[j].op # "fetch"
  BY <1>0 DEF SetOpen, RunOK, Stage
<1>3. Stays(j)
  <2> DEFINE s == [job[j] EXCEPT !.pc = "set"]
  <2>1. \A m \in Machines, f \in Files : f # job[j].file => disk'[m][f] = disk[m][f]
    BY <1>0, WriteElsewhere DEF SetOpen, JobState, Machines, Inv
  <2>2. s.file = job[j].file /\ (s.alone => job[j].alone)
    BY <1>0 DEF JobState
  <2>3. job' = [job EXCEPT ![j] = s] /\ agreed' = agreed
    BY DEF SetOpen, Becomes
  <2> HIDE DEF s
  <2> QED
    BY <1>0, <2>1, <2>2, <2>3 DEF Stays
<1>4. Unsettled(j)' /\ AgreesAfter(j)
  BY <1>0, <1>1, <1>2, NothingAgreed DEF SetOpen, Running, JobState
<1>5. Stage(j)'
  BY <1>0, <1>1 DEF RunOK, Stage, JobState, SetOpen
<1>6. ASSUME Makes(j)' PROVE Progress(j)'
  <2>1. Progress(j)
    BY <1>0, <1>1, <1>6 DEF RunOK, JobState, Makes
  <2>2. \A s \in Servers \ {job[j].to} : Copy(j, s)' = Copy(j, s)
    BY <1>0, <1>1, WriteElsewhere DEF Copy, SetOpen, JobState, Machines, Inv
  <2> QED
    BY <1>0, <1>1, <2>1, <2>2 DEF Progress, JobState, SetOpen, Reached
<1> QED
  BY <1>3, <1>4, <1>5, <1>6, StepKeeps

LEMMA SetWriteKeeps ==
    ASSUME Inv, TypeOK', NEW j \in Jobs, SetWrite(j)
    PROVE  Inv'
<1>0. Running(j) /\ job[j] \in JobState /\ job \in [Jobs -> JobState \cup {Idle}] /\ RunOK(j)
  BY RunningType DEF Inv, SetWrite, Running, TypeOK
<1>1. job'[j] = [job[j] EXCEPT !.pc = "push", !.to = job[j].srv, !.key = NoFile]
  BY <1>0 DEF SetWrite, Becomes, NextPush
<1>2. job[j].op # "fetch"
  BY <1>0 DEF SetWrite, RunOK, Stage
<1>3. Stays(j)
  <2> DEFINE s == NextPush(job[j])
  <2>1. \A m \in Machines, f \in Files : f # job[j].file => disk'[m][f] = disk[m][f]
    BY <1>0, WriteElsewhere DEF SetWrite, JobState, Machines, Inv
  <2>2. s.file = job[j].file /\ (s.alone => job[j].alone)
    BY <1>0 DEF JobState, NextPush
  <2>3. job' = [job EXCEPT ![j] = s] /\ agreed' = agreed
    BY DEF SetWrite, Becomes
  <2> HIDE DEF s
  <2> QED
    BY <1>0, <2>1, <2>2, <2>3 DEF Stays
<1>4. Unsettled(j)' /\ AgreesAfter(j)
  BY <1>0, <1>1, <1>2, NothingAgreed DEF SetWrite, Running, JobState
<1>5. Stage(j)'
  BY <1>0, <1>1 DEF RunOK, Stage, JobState, SetWrite
<1>6. ASSUME Makes(j)' PROVE Progress(j)'
  <2>1. Progress(j) /\ Stage(j)
    BY <1>0, <1>1, <1>6 DEF RunOK, JobState, Makes
  <2>2. \A s \in Servers \ {job[j].to} : Copy(j, s)' = Copy(j, s)
    BY <1>0, <1>1, WriteElsewhere DEF Copy, SetWrite, JobState, Machines, Inv
  <2>3. disk'[job[j].to][job[j].file] = job[j].key /\ job[j].key \in Keys
    BY <1>0, WriteElsewhere DEF SetWrite, JobState, Machines, Inv, TypeOK
  <2>4. \A s \in (Reached(j) \ job[j].todo) \cup {job[j].srv} : Copy(j, s)' = job[j].key
    BY <1>0, <1>1, <2>1, <2>2, <2>3 DEF Progress, JobState, SetWrite, Copy, Reached
  <2> QED
    BY <1>0, <1>1, <2>1, <2>3, <2>4 DEF Progress, JobState, Stage, Reached
<1> QED
  BY <1>3, <1>4, <1>5, <1>6, StepKeeps

LEMMA SetFailsKeeps ==
    ASSUME Inv, TypeOK', NEW j \in Jobs, SetFails(j)
    PROVE  Inv'
<1>0. Running(j) /\ job[j] \in JobState /\ job \in [Jobs -> JobState \cup {Idle}] /\ RunOK(j)
  BY RunningType DEF Inv, SetFails, Running, TypeOK
<1>1. job'[j] = [job[j] EXCEPT !.pc = "push", !.to = job[j].srv, !.key = NoFile,
                               !.missed = @ \cup {job[j].to}]
  BY <1>0 DEF SetFails, Becomes, NextPush, JobState
<1>2. job[j].op # "fetch"
  BY <1>0 DEF SetFails, RunOK, Stage
<1>3. Stays(j)
  BY <1>0, <1>1 DEF Stays, SetFails, Becomes, NextPush, JobState
<1>4. Unsettled(j)' /\ AgreesAfter(j)
  BY <1>0, <1>1, <1>2, NothingAgreed DEF SetFails, Running, JobState
<1>5. Stage(j)'
  BY <1>0, <1>1 DEF RunOK, Stage, JobState, SetFails
<1>6. ASSUME Makes(j)' PROVE Progress(j)'
  <2>1. Progress(j)
    BY <1>0, <1>1, <1>6 DEF RunOK, JobState, Makes
  <2>2. \A s \in Servers : Copy(j, s)' = Copy(j, s)
    BY <1>0, <1>1 DEF Copy, SetFails, JobState
  <2>3. job[j].key \in Keys
    BY DEF SetFails, Inv, TypeOK
  <2> QED
    BY <1>0, <1>1, <2>1, <2>2, <2>3 DEF Progress, Reached, JobState, SetFails
<1> QED
  BY <1>3, <1>4, <1>5, <1>6, StepKeeps

LEMMA ReturnKeeps ==
    ASSUME Inv, TypeOK', NEW j \in Jobs, Return(j)
    PROVE  Inv'
<1>0. Running(j) /\ job[j] \in JobState /\ job \in [Jobs -> JobState \cup {Idle}] /\ RunOK(j)
  BY RunningType DEF Inv, Return, PushesDone, Running, TypeOK
<1>1. job'[j] = [job[j] EXCEPT !.pc = "reply"]
  BY <1>0 DEF Return, Becomes
<1>2. Stays(j)
  BY <1>0, <1>1 DEF Stays, Return, Becomes, JobState
<1>3. Unsettled(j)' /\ AgreesAfter(j)
  BY <1>0, <1>1, NothingAgreed DEF Return, Running, JobState
<1>4. Stage(j)'
  BY <1>0, <1>1 DEF RunOK, Stage, JobState, Return
<1>5. ASSUME Makes(j)' PROVE Progress(j)'
  <2>1. Progress(j)
    BY <1>0, <1>1, <1>5 DEF RunOK, JobState, Makes
  <2>2. \A s \in Servers : Copy(j, s)' = Copy(j, s)
    BY <1>0, <1>1 DEF Copy, Return, JobState
  <2> QED
    BY <1>0, <1>1, <2>1, <2>2 DEF Progress, JobState, Return, PushesDone, Reached
<1> QED
  BY <1>2, <1>3, <1>4, <1>5, StepKeeps

LEMMA ReturnNothingKeeps ==
    ASSUME Inv, TypeOK', NEW j \in Jobs, ReturnNothing(j)
    PROVE  Inv'
<1> DEFINE f == job[j].file
<1>0. Running(j) /\ job[j] \in JobState /\ job \in [Jobs -> JobState \cup {Idle}] /\ RunOK(j)
  BY RunningType DEF Inv, ReturnNothing, PushesDone, Running, TypeOK
<1>1. job'[j] = Idle /\ ~Running(j)'
  BY <1>0 DEF ReturnNothing, Becomes, Running, Idle
<1>2. Stays(j)
  BY <1>0, <1>1 DEF Stays, ReturnNothing, Becomes, JobState, Inv, TypeOK
<1>3. ASSUME f.kind = "key" PROVE AgreesAfter(j)
  <2>1. job[j].op # "fetch"
    BY <1>0 DEF ReturnNothing, PushesDone, RunOK, Stage
  <2>2. CASE agreed' = agreed
    BY <1>0, <2>1, <2>2, NothingAgreed
  <2>3. CASE agreed' # agreed
    <3>0. job[j].op # "setpkey"
      BY <1>0, <1>3 DEF RunOK, Stage
    <3>1. job[j].alone /\ job[j].op = "permit" /\ agreed'[f] = Reached(j)
      BY <1>0, <2>3, <3>0 DEF ReturnNothing, Inv, TypeOK, JobState
    <3>2. \A s \in Reached(j) : Copy(j, s) \in Keys /\ Copy(j, s) = Copy(j, job[j].srv)
      BY <1>0, <1>3, <3>1 DEF RunOK, Makes, Progress, ReturnNothing, PushesDone, JobState
    <3> QED
      BY <3>1, <3>2 DEF AgreesAfter, ReturnNothing, Copy
  <2> QED
    BY <2>2, <2>3
<1> QED
  BY <1>1, <1>2, <1>3, StepKeeps

LEMMA ReplyKeeps ==
    ASSUME Inv, TypeOK', NEW j \in Jobs, Reply(j)
    PROVE  Inv'
<1> DEFINE x == disk[job[j].srv][job[j].file]
<1>0. Running(j) /\ job[j] \in JobState /\ job \in [Jobs -> JobState \cup {Idle}] /\ RunOK(j)
  BY RunningType DEF Inv, Reply, Running, TypeOK
<1>1. job'[j] = IF Complete(x) THEN [job[j] EXCEPT !.pc = "save", !.key = x] ELSE Idle
  BY <1>0 DEF Reply, Becomes
<1>2. Stays(j)
  <2>1. job' = [job EXCEPT ![j] = job'[j]]
    BY <1>0, <1>1 DEF Reply, Becomes
  <2> QED
    BY <1>0, <1>1, <2>1 DEF Stays, Reply, JobState
<1>3. agreed' = agreed /\ disk' = disk
  BY DEF Reply
<1>4. job[j].file.kind = "key" => AgreesAfter(j)
  BY <1>0, <1>3 DEF Inv, KeysAgree, SameCopies, AgreesAfter, JobState
<1>5. ASSUME Running(j)'
      PROVE  /\ Unsettled(j)' /\ Stage(j)'
             /\ Makes(j)' => Progress(j)'
  <2>1. job'[j] = [job[j] EXCEPT !.pc = "save", !.key = x]
    BY <1>1, <1>5 DEF Running, Idle
  <2>2. Unsettled(j)' /\ Stage(j)'
    BY <1>0, <1>3, <2>1 DEF RunOK, Unsettled, Stage, JobState, Reply
  <2>3. ASSUME Makes(j)' PROVE Progress(j)'
    <3>1. Progress(j)
      BY <1>0, <2>1, <2>3 DEF RunOK, JobState, Makes
    <3>2. \A s \in Servers : Copy(j, s)' = Copy(j, s)
      BY <1>0, <1>3, <2>1 DEF Copy, JobState
    <3> QED
      BY <1>0, <2>1, <3>1, <3>2 DEF Progress, JobState, Reply, Copy, Reached
  <2> QED
    BY <2>2, <2>3
<1> QED
  BY <1>2, <1>4, <1>5, StepKeeps

LEMMA SaveKeeps ==
    ASSUME Inv, TypeOK', NEW j \in Jobs, Save(j)
    PROVE  Inv'
<1> DEFINE f == job[j].file
           c == job[j].peer
<1>0. Running(j) /\ job[j] \in JobState /\ job \in [Jobs -> JobState \cup {Idle}] /\ RunOK(j)
  BY RunningType DEF Inv, Save, Running, TypeOK
<1>1. job'[j] = Idle /\ ~Running(j)'
  BY <1>0 DEF Save, Becomes, Running, Idle
<1>2. c \in Machines /\ c \notin Servers /\ f \in Files /\ job[j].key \in Keys
      /\ agreed[f] \subseteq Machines /\ job[j].srv \in Machines
  BY <1>0, MachineAssumption DEF JobState, Machines, Save, Inv, TypeOK
<1>3. disk'[c][f] = job[j].key /\ \A n \in Machines \ {c} : disk'[n][f] = disk[n][f]
  BY <1>0, <1>2, WriteElsewhere DEF Save, Inv
<1>4. Stays(j)
  <2>1. \A m \in Machines, g \in Files : g # f => disk'[m][g] = disk[m][g]
    BY <1>2, WriteElsewhere DEF Save, Inv
  <2>2. \A g \in Files : g # f => agreed'[g] = agreed[g]
    BY <1>2 DEF Save, Inv, TypeOK
  <2>3. agreed' = agreed \/ job[j].alone
    BY <1>2 DEF Save, Inv, TypeOK
  <2>4. job' = [job EXCEPT ![j] = Idle]
    BY DEF Save, Becomes
  <2> QED
    BY <1>0, <2>1, <2>2, <2>3, <2>4 DEF Stays
<1>5. job[j].op \in {"fetch", "genkey"}
  BY <1>0 DEF Save, RunOK, Stage
<1>6. agreed'[f] = IF ~job[j].alone THEN agreed[f]
                   ELSE IF job[j].op = "genkey" THEN Reached(j) \cup {c}
                   ELSE IF job[j].srv \in agreed[f] THEN agreed[f] \cup {c}
                   ELSE agreed[f]
  BY <1>0, <1>2 DEF Save, Inv, TypeOK
<1>7. ASSUME f.kind = "key" PROVE AgreesAfter(j)
  <2>1. \A a, b \in agreed[f] : disk[a][f] \in Keys /\ disk[a][f] = disk[b][f]
    BY <1>2, <1>7 DEF Inv, KeysAgree, SameCopies
  <2>2. c \notin agreed[f]
    BY <1>0, <1>5 DEF RunOK, Unsettled
  <2>3. CASE agreed'[f] = agreed[f]
    BY <1>2, <1>3, <2>1, <2>2, <2>3 DEF AgreesAfter
  <2>4. CASE job[j].alone /\ job[j].op = "genkey"
    <3>1. \A s \in Reached(j) : disk[s][f] = job[j].key
      BY <1>0, <1>7, <2>4 DEF RunOK, Makes, Progress, Save, Copy
    <3>2. \A a \in agreed'[f] : disk'[a][f] = job[j].key
      BY <1>2, <1>3, <1>6, <2>4, <3>1 DEF Machines, Reached
    <3> QED
      BY <1>2, <3>2 DEF AgreesAfter
  <2>5. CASE job[j].alone /\ job[j].op = "fetch" /\ job[j].srv \in agreed[f]
    <3>1. disk[job[j].srv][f] = job[j].key
      BY <1>0, <1>7, <2>5 DEF RunOK, Makes, Progress, Save, Copy
    <3>2. \A a \in agreed'[f] : disk'[a][f] = job[j].key
      BY <1>2, <1>3, <1>6, <2>1, <2>2, <2>5, <3>1
    <3> QED
      BY <1>2, <3>2 DEF AgreesAfter
  <2> QED
    BY <1>5, <1>6, <2>3, <2>4, <2>5
<1> QED
  BY <1>1, <1>4, <1>7, StepKeeps

LEMMA SaveFailsKeeps ==
    ASSUME Inv, TypeOK', NEW j \in Jobs, SaveFails(j)
    PROVE  Inv'
<1> DEFINE f == job[j].file
           c == job[j].peer
<1>0. Running(j) /\ job[j] \in JobState /\ job \in [Jobs -> JobState \cup {Idle}] /\ RunOK(j)
  BY RunningType DEF Inv, SaveFails, Running, TypeOK
<1>1. job'[j] = Idle /\ ~Running(j)'
  BY <1>0 DEF SaveFails, Becomes, Running, Idle
<1>2. c \in Machines /\ f \in Files /\ agreed' = agreed /\ agreed[f] \subseteq Machines
  BY <1>0 DEF JobState, Machines, SaveFails, Inv, TypeOK
<1>3. \A n \in Machines \ {c} : disk'[n][f] = disk[n][f]
  BY <1>0, <1>2, WriteElsewhere DEF SaveFails, Inv
<1>4. Stays(j)
  BY <1>0, <1>1, <1>2, WriteElsewhere DEF Stays, SaveFails, Becomes, Inv
<1>5. c \notin agreed[f]
  BY <1>0 DEF SaveFails, RunOK, Stage, Unsettled
<1>6. f.kind = "key" => AgreesAfter(j)
  BY <1>2, <1>3, <1>5 DEF Inv, KeysAgree, SameCopies, AgreesAfter
<1> QED
  BY <1>1, <1>4, <1>6, StepKeeps

LEMMA DieKeeps ==
    ASSUME Inv, TypeOK', NEW j \in Jobs, Die(j)
    PROVE  Inv'
<1>0. Running(j) /\ job[j] \in JobState /\ job \in [Jobs -> JobState \cup {Idle}] /\ RunOK(j)
  BY RunningType DEF Inv, Die, Running, TypeOK
<1>1. job'[j] = IF job[j].pc \in {"put", "set"}
                THEN [job[j] EXCEPT !.op = "put", !.todo = {}, !.alone = FALSE] ELSE Idle
  BY <1>0 DEF Die, Becomes
<1>2. agreed' = agreed /\ disk' = disk
  BY DEF Die
<1>3. Stays(j)
  <2>1. job' = [job EXCEPT ![j] = job'[j]]
    BY <1>0, <1>1 DEF Die, Becomes
  <2> QED
    BY <1>0, <1>1, <1>2, <2>1 DEF Stays, JobState
<1>4. job[j].file.kind = "key" => AgreesAfter(j)
  BY <1>0, <1>2 DEF Inv, KeysAgree, SameCopies, AgreesAfter, JobState
<1>5. ASSUME Running(j)' PROVE Unsettled(j)' /\ Stage(j)' /\ ~job'[j].alone
  <2>1. job'[j] = [job[j] EXCEPT !.op = "put", !.todo = {}, !.alone = FALSE]
        /\ job[j].pc \in {"put", "set"}
    BY <1>1, <1>5 DEF Running, Idle
  <2> QED
    BY <1>0, <1>2, <2>1 DEF RunOK, Unsettled, Stage, JobState
<1> QED
  BY <1>3, <1>4, <1>5, StepKeeps DEF Makes

\* A new run ends what was agreed about its file, or for a fetch, what was
\* said of its own machine, and it disturbs the runs for the same file.
LEMMA ContactKeeps ==
    ASSUME Inv, TypeOK', NEW j \in Jobs, NEW q \in Requests, NEW s \in Servers, Contact(j, q, s)
    PROVE  Inv'
<1> DEFINE f == FileOf(q)
<1>0. q.op \in Ops /\ f \in Files /\ (q.op = "setpkey" <=> f.kind = "crt")
  BY RequestAssumption DEF FileOf, Files
<1>1. /\ disk' = disk /\ ~Running(j)
      /\ job'[j].pc = FirstStep(q.op) /\ job'[j].op = q.op /\ job'[j].file = f
      /\ job'[j].peer = q.peer /\ job'[j].srv = s /\ job'[j].todo = {}
  BY DEF Contact
<1>1a. job'[j].alone => ~Busy(j, f)
  BY DEF Contact
<1>2. agreed' = [agreed EXCEPT ![f] = IF q.op = "fetch" THEN @ \ {q.peer} ELSE {}]
  BY DEF Contact
<1>3. /\ \A g \in Files : agreed'[g] \subseteq agreed[g] /\ (g # f => agreed'[g] = agreed[g])
      /\ q.op = "fetch" => q.peer \notin agreed'[f]
      /\ q.op # "fetch" => agreed'[f] = {}
  BY <1>0, <1>2 DEF Inv, TypeOK
<1>4. KeysAgree'
  BY <1>1, <1>3 DEF KeysAgree, SameCopies, Inv
<1>5. ASSUME NEW i \in Jobs, i # j, Running(i)
      PROVE  /\ job[i] \in JobState
             /\ job'[i] = IF job[i].file = f THEN [job[i] EXCEPT !.alone = FALSE] ELSE job[i]
             /\ job'[i].file = job[i].file /\ Running(i)'
  <2>1. job[i] \in JobState
    BY <1>5, RunningType DEF Inv
  <2>2. job'[i] = IF job[i].file = f THEN [job[i] EXCEPT !.alone = FALSE] ELSE job[i]
    BY <1>5 DEF Contact
  <2> QED
    BY <1>5, <2>1, <2>2 DEF JobState, Running
<1>6. \A i \in Jobs : i # j /\ Running(i)' => Running(i)
  BY DEF Contact, Running
<1>7. RunOK(j)'
  <2>1. \A i \in Jobs \ {j} : Running(i)' => Running(i) /\ job'[i].file = job[i].file
    BY <1>5, <1>6
  <2>2. Alone(j)'
    <3>1. ASSUME job'[j].alone PROVE \A i \in Jobs \ {j} : ~(Running(i)' /\ job'[i].file = f)
      <4>1. ~Busy(j, f)
        BY <1>1a, <3>1
      <4> QED
        BY <2>1, <4>1 DEF Busy
    <3> QED
      BY <1>1, <3>1 DEF Alone, Busy
  <2>3. Unsettled(j)'
    BY <1>1, <1>3 DEF Unsettled
  <2>4. Stage(j)'
    BY <1>0, <1>1, <1>1a DEF Stage, FirstStep, Ops
  <2>5. Makes(j)' => Progress(j)'
    BY <1>0, <1>1, <1>1a DEF Progress, FirstStep, Ops, Makes
  <2> QED
    BY <2>2, <2>3, <2>4, <2>5 DEF RunOK
<1>8. ASSUME NEW i \in Jobs, i # j, Running(i)' PROVE RunOK(i)'
  <2>1. Running(i) /\ RunOK(i)
    BY <1>6, <1>8 DEF Inv
  <2>2. CASE job[i].file = f
    <3>1. job'[i] = [job[i] EXCEPT !.alone = FALSE] /\ job[i] \in JobState
      BY <1>5, <1>8, <2>1, <2>2
    <3>2. Alone(i)' /\ Stage(i)' /\ ~job'[i].alone
      BY <2>1, <3>1 DEF RunOK, Alone, Stage, JobState
    <3>3. Unsettled(i)'
      BY <1>3, <2>1, <2>2, <3>1 DEF RunOK, Unsettled, JobState
    <3> QED
      BY <3>2, <3>3 DEF RunOK, Makes
  <2>3. CASE job[i].file # f
    <3>1. job'[i] = job[i] /\ job[i] \in JobState /\ agreed'[job[i].file] = agreed[job[i].file]
      BY <1>3, <1>5, <1>8, <2>1, <2>3 DEF JobState
    <3>2. Alone(i)'
      <4>1. \A k \in Jobs \ {i} : Running(k)' /\ job'[k].file = job[i].file
                => Running(k) /\ job[k].file = job[i].file
        <5> TAKE k \in Jobs \ {i}
        <5>1. CASE k = j
          BY <1>1, <2>3, <5>1
        <5>2. CASE k # j
          BY <1>5, <1>6, <5>2
        <5> QED
          BY <5>1, <5>2
      <4> QED
        BY <2>1, <3>1, <4>1 DEF RunOK, Alone, Busy
    <3>3. Unsettled(i)' /\ Stage(i)'
      BY <2>1, <3>1 DEF RunOK, Unsettled, Stage
    <3>4. Progress(i) => Progress(i)'
      BY <1>1, <3>1 DEF Progress, Copy, Reached
    <3> QED
      BY <2>1, <3>1, <3>2, <3>3, <3>4 DEF RunOK, Makes
  <2> QED
    BY <2>2, <2>3
<1> QED
  BY <1>4, <1>7, <1>8 DEF Inv, RunOK

LEMMA InitInv == Init => Inv
BY InitType DEF Init, Inv, KeysAgree, SameCopies, RunOK, Running, Idle

LEMMA NextInv == Inv /\ [Next]_vars => Inv'
<1> SUFFICES ASSUME Inv, [Next]_vars PROVE Inv'
  OBVIOUS
<1>1. CASE Next
  <2>1. PICK j \in Jobs : Step(j)
    BY <1>1, NextSteps
  <2>2. TypeOK'
    BY <2>1, StepType DEF Inv
  <2> QED
    BY <2>1, <2>2, ContactKeeps, OpenFileKeeps, OpenFailsKeeps, WriteFileKeeps, WriteFailsKeeps,
       PushReadKeeps, PushFailsKeeps, SetOpenKeeps, SetWriteKeeps, SetFailsKeeps, ReturnKeeps,
       ReturnNothingKeeps, ReplyKeeps, SaveKeeps, SaveFailsKeeps, DieKeeps DEF Step
<1>2. CASE UNCHANGED vars
  BY <1>2 DEF vars, Inv, TypeOK, KeysAgree, SameCopies, RunOK, Running, Alone, Busy, Unsettled,
              Stage, Progress, Copy, Reached, Makes
<1> QED
  BY <1>1, <1>2

\* The copies of a key that a run left alike, where its pushes did not fail,
\* stay alike until the next run for the host, for any number of servers.
THEOREM CopiesAgree == Spec => []KeysAgree
<1>1. Inv => KeysAgree
  BY DEF Inv
<1> QED
  BY <1>1, InitInv, NextInv, PTL DEF Spec

\* GENKEY hands out a key that all login servers have but those where its
\* push failed, for any number of servers, if no other run interferes.
THEOREM ServersKnowFirst == Spec => []ServersFirst
<1>1. Inv => ServersFirst
  <2> SUFFICES ASSUME Inv, NEW j \in Jobs, job[j].pc = "save", job[j].op = "genkey", job[j].alone,
                      NEW s \in Reached(j) \cup {job[j].srv}
               PROVE  disk[s][job[j].file] = job[j].key
    BY DEF ServersFirst
  <2>1. Running(j) /\ job[j] \in JobState /\ RunOK(j)
    BY RunningType DEF Inv, Running
  <2>2. job[j].file.kind = "key"
    BY <2>1 DEF RunOK, Stage, JobState, Files
  <2> QED
    BY <2>1, <2>2 DEF RunOK, Makes, Progress, Copy
<1> QED
  BY <1>1, InitInv, NextInv, PTL DEF Spec
=============================================================================
