-------------------------------- MODULE Mining --------------------------------
(***************************************************************************)
(* The miner server between Consensus, which announces what to mine on,    *)
(* and those who mine: the CPU miners of the node and the stratum clients. *)
(* Building a block awaits the world state; a hash takes time, in which    *)
(* the block it is for may be replaced, solved by another or forgotten.    *)
(*                                                                         *)
(* Candidates and the works built for them are numbered in the order they  *)
(* come; a work is a job of the stratum server under an id that wraps.     *)
(***************************************************************************)
EXTENDS Integers, Sequences, FiniteSets, SequencesExt, TLC

CONSTANTS
    Cpus,            \* minerCount: CPU miners per work
    MaxMapCount,     \* 10
    MaxJobId,        \* 2^31 - 1
    Submits,         \* handlers of a client's submit that may be under way
    MaxCandidates, MaxWorks   \* named bounds: what Consensus announces, what is built

ASSUME MiningAssumption ==
    /\ MaxMapCount \in Nat \ {0}
    /\ MaxJobId \in Nat /\ MaxJobId > MaxMapCount
    /\ MaxCandidates \in Nat /\ MaxWorks \in Nat

VARIABLES
    candidate,       \* the newest candidate, for which the interval builds again
    creating,        \* the candidates whose world state is under way, in the order of the lock
    installed,       \* the works so far: the candidate of each
    solved,          \* the works whose job is marked solved
    jobId, jobs,     \* mapCandidateBlock: the work of an id
    cpu,             \* the CPU miners of the newest work
    late,            \* CPU miners told to stop in the middle of a hash: their works
    submit,          \* the work a handler hashes for, or 0
    stopped,         \* history: the works that were jobs when the mining was stopped last, or before
    sent             \* history: how often a work was submitted through stratum

stratum == <<solved, jobId, jobs>>
history == <<stopped, sent>>
vars == <<candidate, creating, installed, stratum, cpu, late, submit, history>>

TypeOK ==
    /\ candidate \in 0 .. MaxCandidates
    /\ creating \in Seq(1 .. MaxCandidates)
    /\ installed \in Seq(1 .. MaxCandidates) /\ Len(installed) <= MaxWorks
    /\ jobId \in 0 .. MaxJobId
    /\ DOMAIN jobs \subseteq 0 .. MaxJobId
    /\ solved \cup {jobs[i] : i \in DOMAIN jobs} \cup late \cup stopped \subseteq 1 .. Len(installed)
    /\ cpu \in [Cpus -> {"hashing", "stopped", "ended"}]
    /\ submit \in [Submits -> 0 .. Len(installed)]
    /\ sent \in [1 .. MaxWorks -> Nat]

Init ==
    /\ candidate = 0 /\ creating = <<>> /\ installed = <<>>
    /\ solved = {} /\ jobId = 0 /\ jobs = <<>>
    /\ cpu = [i \in Cpus |-> "ended"] /\ late = {}
    /\ submit = [s \in Submits |-> 0]
    /\ stopped = {} /\ sent = [w \in 1 .. MaxWorks |-> 0]

Newest == Len(installed)

-----------------------------------------------------------------------------
\* Building a block.

\* The call of next queues at the lock of the world state at once.
CreateCandidate(c) ==
    /\ Len(installed) + Len(creating) < MaxWorks
    /\ creating' = Append(creating, c)

\* "candidate" of Consensus, unless the block is a day old or there is nobody to mine for.
Candidate ==
    /\ candidate < MaxCandidates
    /\ candidate' = candidate + 1
    /\ CreateCandidate(candidate + 1)
    /\ UNCHANGED <<installed, stratum, cpu, late, submit, history>>

IntervalRuns == candidate > 0

NotCleared ==                          \* mutant: the interval of the first candidate goes on
    /\ IntervalRuns
    /\ CreateCandidate(1)
    /\ UNCHANGED <<candidate, installed, stratum, cpu, late, submit, history>>

Interval ==
    /\ IntervalRuns
    /\ CreateCandidate(candidate)
    /\ UNCHANGED <<candidate, installed, stratum, cpu, late, submit, history>>

\* What newJob will have given the work as an id: the first is 1.
IdOf(w) == w % (MaxJobId + 1)
NextJobId == IF jobId = MaxJobId THEN 0 ELSE jobId + 1

Outdated(id) == id - MaxMapCount

LastInLine(s) == Len(s)                \* mutant: the lock serves the last who came
FirstInLine(s) == 1

\* Named bound: no hash is under way for a job whose id is given again.
NotRoundYet(w) == w # 0 => IdOf(w) # NextJobId

\* putWork: the miners of the work before are told to stop; the stratum server makes a job.
Created ==
    /\ creating # <<>> /\ \A s \in Submits : NotRoundYet(submit[s])
    /\ LET i == FirstInLine(creating)
           id == NextJobId
           kept == DOMAIN jobs \ {Outdated(id)}
       IN  /\ installed' = Append(installed, creating[i])
           /\ creating' = RemoveAt(creating, i)
           /\ jobId' = id
           /\ jobs' = [k \in kept \cup {id} |-> IF k = id THEN Newest + 1 ELSE jobs[k]]
    /\ late' = IF \E i \in Cpus : cpu[i] # "ended" THEN late \cup {Newest} ELSE late
    /\ cpu' = [i \in Cpus |-> "hashing"]
    /\ UNCHANGED <<candidate, solved, submit, history>>

-----------------------------------------------------------------------------
\* Mining and submitting.

Jobs == {jobs[k] : k \in DOMAIN jobs}

\* submitBlock: everybody stops, then the block goes to the network and to Consensus.
OnlyNewest == IF Jobs = {} THEN {} ELSE {jobs[jobId]}   \* mutant: stop() marks the current job only
ToStop == Jobs

SubmitBlock(done, more) ==
    /\ cpu' = [i \in Cpus |-> IF cpu[i] = "hashing" /\ i \notin done THEN "stopped"
                              ELSE IF i \in done THEN "ended" ELSE cpu[i]]
    /\ solved' = solved \cup ToStop \cup more
    /\ stopped' = stopped \cup Jobs \cup more

\* A miner finds a nonce, told to stop in that hash or not.
CpuSolves(i) ==
    /\ cpu[i] # "ended"
    /\ SubmitBlock({i}, {})
    /\ UNCHANGED <<candidate, creating, installed, jobId, jobs, late, submit, sent>>

\* The nonces are used up, or the hash in which it was told to stop was no solution.
CpuEnds(i) ==
    /\ cpu[i] # "ended"
    /\ cpu' = [cpu EXCEPT ![i] = "ended"]
    /\ UNCHANGED <<candidate, creating, installed, stratum, late, submit, history>>

LateSolves(w) ==
    /\ w \in late
    /\ SubmitBlock({}, {})
    /\ late' \in {late, late \ {w}}
    /\ UNCHANGED <<candidate, creating, installed, jobId, jobs, submit, sent>>

LateEnds(w) ==
    /\ w \in late
    /\ late' = late \ {w}
    /\ UNCHANGED <<candidate, creating, installed, stratum, cpu, submit, history>>

TestedBefore(w) == FALSE               \* mutant: solved is not looked at after the await
AlreadySolved(w) == w \in solved

\* A client submits a nonce for a job of the map: the hash is awaited ...
Submit(s) ==
    /\ submit[s] = 0
    /\ \E w \in Jobs : NotRoundYet(w) /\ submit' = [submit EXCEPT ![s] = w]
    /\ UNCHANGED <<candidate, creating, installed, stratum, cpu, late, history>>

\* ... and was no solution, or the job was solved meanwhile,
SubmitEnds(s) ==
    /\ submit[s] # 0
    /\ submit' = [submit EXCEPT ![s] = 0]
    /\ UNCHANGED <<candidate, creating, installed, stratum, cpu, late, history>>

\* ... or the block is submitted; the job is put back under its id, deleted meanwhile or not.
CompleteWork(s) ==
    /\ submit[s] # 0
    /\ ~AlreadySolved(submit[s])
    /\ submit' = [submit EXCEPT ![s] = 0]
    /\ jobs' = [k \in DOMAIN jobs \cup {IdOf(submit[s])} |->
                 IF k = IdOf(submit[s]) THEN submit[s] ELSE jobs[k]]
    /\ sent' = [sent EXCEPT ![submit[s]] = @ + 1]
    /\ SubmitBlock({}, {submit[s]})
    /\ UNCHANGED <<candidate, creating, installed, jobId, late>>

Next ==
    \/ Candidate \/ Interval \/ Created
    \/ \E i \in Cpus : CpuSolves(i) \/ CpuEnds(i)
    \/ \E w \in late : LateSolves(w) \/ LateEnds(w)
    \/ \E s \in Submits : Submit(s) \/ SubmitEnds(s) \/ CompleteWork(s)

\* The world state answers, the interval fires, a hash ends.
Fairness ==
    /\ WF_vars(Created)
    /\ WF_vars(Interval)
    /\ \A s \in Submits : WF_vars(SubmitEnds(s))

Spec == Init /\ [][Next]_vars
FairSpec == Spec /\ Fairness

-----------------------------------------------------------------------------
\* Properties

\* Two clients that solve the same job at the same time submit one block.
JobIsSubmittedOnce == \A w \in DOMAIN sent : sent[w] <= 1

\* After the mining was stopped, by a CPU miner or another client, no client's
\* solution of a job of that time is submitted any more.
StoppedJobsStaySilent ==
    [][\A w \in stopped : sent'[w] = sent[w]]_vars

\* The work installed never goes back to an older candidate, though the builds of
\* several candidates and of the interval are under way at once.
WorkFollowsCandidate ==
    [][Newest' > Newest /\ Newest > 0 => installed'[Newest'] >= installed[Newest]]_vars

\* Every candidate is built, or a newer one, and from then on nothing older is mined.
CandidateIsBuilt ==
    \A c \in 1 .. MaxCandidates :
        candidate = c ~> [](Newest > 0 /\ installed[Newest] >= c)
=============================================================================
