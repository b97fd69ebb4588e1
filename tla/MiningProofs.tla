----------------------------- MODULE MiningProofs -----------------------------
(***************************************************************************)
(* For any number of works, candidates, clients and CPU miners: types, and *)
(* the three safety properties of module Mining.                           *)
(***************************************************************************)
EXTENDS Mining, SequenceTheorems, TLAPS

\* The works still fit with those under way, and CPU miners hash for a work.
TypeInv ==
    /\ TypeOK
    /\ Len(installed) + Len(creating) <= MaxWorks
    /\ (\E i \in Cpus : cpu[i] # "ended") => installed # <<>>

\* What was stopped, or submitted, is marked solved.
SolvedInv ==
    /\ stopped \subseteq solved
    /\ \A w \in 1 .. MaxWorks : sent[w] <= 1 /\ (sent[w] = 1 => w \in solved)

\* The builds under way are in the order of their candidates, none older than the
\* work installed and none newer than the newest candidate.
OrderInv ==
    /\ \A i, j \in 1 .. Len(creating) : i <= j => creating[i] <= creating[j]
    /\ \A i \in 1 .. Len(creating) : creating[i] <= candidate
    /\ installed # <<>> =>
          /\ installed[Newest] <= candidate
          /\ \A i \in 1 .. Len(creating) : installed[Newest] <= creating[i]

Inv == TypeInv /\ SolvedInv /\ OrderInv

-----------------------------------------------------------------------------

\* The first of a sequence that is not empty removed (FirstInLine).
LEMMA RemoveFirstInLine ==
    ASSUME NEW S, NEW s \in Seq(S), s # <<>>
    PROVE  /\ RemoveAt(s, 1) \in Seq(S)
           /\ Len(RemoveAt(s, 1)) = Len(s) - 1
           /\ \A i \in 1 .. Len(s) - 1 : RemoveAt(s, 1)[i] = s[i + 1]
<1>1. SubSeq(s, 1, 0) = <<>>
    OBVIOUS
<1>2. RemoveAt(s, 1) = <<>> \o SubSeq(s, 2, Len(s))
    BY <1>1 DEF RemoveAt
<1>3. /\ SubSeq(s, 2, Len(s)) \in Seq(S)
      /\ Len(SubSeq(s, 2, Len(s))) = Len(s) - 1
      /\ \A i \in 1 .. Len(s) - 1 : SubSeq(s, 2, Len(s))[i] = s[i + 1]
    OBVIOUS
<1>4. <<>> \o SubSeq(s, 2, Len(s)) = SubSeq(s, 2, Len(s))
    BY <1>3, ConcatEmptySeq
<1> QED BY <1>2, <1>3, <1>4

LEMMA InitInv == Init => Inv
<1> SUFFICES ASSUME Init PROVE Inv
    OBVIOUS
<1>1. TypeInv
    BY MiningAssumption DEF Init, TypeInv, TypeOK
<1>2. SolvedInv
    BY DEF Init, SolvedInv
<1>3. OrderInv
    BY DEF Init, OrderInv
<1> QED BY <1>1, <1>2, <1>3 DEF Inv

\* Types: everything that is solved, stopped, mined or under way is a work.
LEMMA SubmitType ==
    ASSUME TypeInv, NEW done, NEW more, more \subseteq 1 .. Len(installed), SubmitBlock(done, more)
    PROVE  /\ solved' \subseteq 1 .. Len(installed)
           /\ stopped' \subseteq 1 .. Len(installed)
           /\ cpu' \in [Cpus -> {"hashing", "stopped", "ended"}]
           /\ \A i \in Cpus : cpu'[i] # "ended" => cpu[i] # "ended"
           /\ solved \subseteq solved'
           /\ stopped \subseteq solved => stopped' \subseteq solved'
           /\ more \subseteq solved'
<1>1. Jobs \subseteq 1 .. Len(installed)
    BY DEF TypeInv, TypeOK, Jobs
<1>2. solved' = solved \cup Jobs \cup more /\ stopped' = stopped \cup Jobs \cup more
    BY DEF SubmitBlock, ToStop
<1>3. cpu \in [Cpus -> {"hashing", "stopped", "ended"}] /\ solved \subseteq 1 .. Len(installed) /\ stopped \subseteq 1 .. Len(installed)
    BY DEF TypeInv, TypeOK
<1>4. \A i \in Cpus : cpu'[i] # "ended" => cpu[i] # "ended"
    BY <1>3 DEF SubmitBlock
<1>5. cpu' \in [Cpus -> {"hashing", "stopped", "ended"}]
    BY <1>3 DEF SubmitBlock
<1> QED BY <1>1, <1>2, <1>3, <1>4, <1>5

LEMMA TypeStep == ASSUME TypeInv, [Next]_vars PROVE TypeInv'
<1> USE MiningAssumption
<1> USE DEF TypeInv, TypeOK, stratum, history
<1>1. ASSUME NEW c \in 1 .. MaxCandidates, CreateCandidate(c)
      PROVE  creating' \in Seq(1 .. MaxCandidates) /\ Len(creating') = Len(creating) + 1
             /\ Len(installed) + Len(creating') <= MaxWorks
    BY <1>1 DEF CreateCandidate
<1>2. CASE Candidate
    <2>1. candidate + 1 \in 1 .. MaxCandidates
        BY <1>2 DEF Candidate
    <2> QED BY <1>1, <1>2, <2>1 DEF Candidate
<1>3. CASE Interval
    <2>1. candidate \in 1 .. MaxCandidates
        BY <1>3 DEF Interval, IntervalRuns
    <2> QED BY <1>1, <1>3, <2>1 DEF Interval
<1>4. CASE Created
    <2>1. /\ RemoveAt(creating, 1) \in Seq(1 .. MaxCandidates)
          /\ Len(RemoveAt(creating, 1)) = Len(creating) - 1
        BY <1>4, RemoveFirstInLine DEF Created
    <2>2. creating[1] \in 1 .. MaxCandidates /\ creating # <<>>
        <3>1. creating # <<>> /\ creating \in Seq(1 .. MaxCandidates)
            BY <1>4 DEF Created
        <3> HIDE DEF TypeInv, TypeOK
        <3>2. Len(creating) \in Nat \ {0}
            BY <3>1, EmptySeq
        <3>3. 1 \in 1 .. Len(creating)
            BY <3>2
        <3> QED BY <3>1, <3>3, ElementOfSeq
    <2>3. creating' = RemoveAt(creating, 1) /\ installed' = Append(installed, creating[1])
        BY <1>4 DEF Created, FirstInLine
    <2>4. /\ installed' \in Seq(1 .. MaxCandidates) /\ Len(installed') = Len(installed) + 1
          /\ installed' # <<>>
        BY <2>2, <2>3, AppendProperties
    <2>5. creating' \in Seq(1 .. MaxCandidates) /\ Len(installed') + Len(creating') <= MaxWorks
        <3>1. Len(creating') = Len(creating) - 1 /\ creating' \in Seq(1 .. MaxCandidates)
            BY <2>1, <2>3
        <3>2. Len(installed) \in Nat /\ Len(creating) \in Nat /\ Len(creating') \in Nat
            BY <3>1
        <3> QED BY <2>4, <3>1, <3>2
    <2>6. jobId' \in 0 .. MaxJobId /\ jobId' = NextJobId
        BY <1>4 DEF Created, NextJobId
    <2>7. DOMAIN jobs' \subseteq 0 .. MaxJobId
        BY <1>4, <2>6 DEF Created
    <2>8. {jobs'[k] : k \in DOMAIN jobs'} \subseteq 1 .. Len(installed')
        <3>1. Newest + 1 \in 1 .. Len(installed') /\ 1 .. Len(installed) \subseteq 1 .. Len(installed')
            BY <2>4 DEF Newest
        <3> DEFINE kept == DOMAIN jobs \ {Outdated(NextJobId)}
        <3>2. jobs' = [k \in kept \cup {NextJobId} |-> IF k = NextJobId THEN Newest + 1 ELSE jobs[k]]
            BY <1>4 DEF Created
        <3>3. ASSUME NEW k \in DOMAIN jobs' PROVE jobs'[k] \in 1 .. Len(installed')
            <4>1. CASE k = NextJobId
                BY <3>1, <3>2, <4>1
            <4>2. CASE k # NextJobId
                <5>1. k \in DOMAIN jobs /\ jobs'[k] = jobs[k]
                    BY <3>2, <4>2
                <5> QED BY <3>1, <5>1
            <4> QED BY <4>1, <4>2
        <3> QED BY <3>3
    <2>9. late' \subseteq 1 .. Len(installed')
        <3>1. late' \subseteq late \cup {Newest} /\ (late' = late \/ \E i \in Cpus : cpu[i] # "ended")
            BY <1>4 DEF Created
        <3>2. Len(installed) \in Nat /\ late \subseteq 1 .. Len(installed)
            OBVIOUS
        <3>3. CASE late' = late
            BY <2>4, <3>2, <3>3
        <3>4. CASE \E i \in Cpus : cpu[i] # "ended"
            <4>1. installed # <<>> /\ installed \in Seq(1 .. MaxCandidates)
                BY <3>4
            <4> HIDE DEF TypeInv, TypeOK
            <4>2. Len(installed) \in Nat \ {0}
                BY <4>1, EmptySeq
            <4> QED BY <2>4, <3>1, <3>2, <4>2 DEF Newest
        <3> QED BY <3>1, <3>3, <3>4
    <2>10. submit' \in [Submits -> 0 .. Len(installed')]
        BY <1>4, <2>4 DEF Created
    <2>11. cpu' \in [Cpus -> {"hashing", "stopped", "ended"}]
        BY <1>4 DEF Created
    <2>12. (solved \cup stopped)' \subseteq 1 .. Len(installed')
        BY <1>4, <2>4 DEF Created
    <2>13. UNCHANGED <<candidate, sent>>
        BY <1>4 DEF Created
    <2>14. Len(installed') <= MaxWorks
        <3>1. Len(creating') \in Nat /\ Len(installed') \in Nat
            BY <2>4, <2>5
        <3> QED BY <2>5, <3>1
    <2>15. (solved \cup {jobs[k] : k \in DOMAIN jobs} \cup late \cup stopped)' \subseteq 1 .. Len(installed')
        BY <2>8, <2>9, <2>12
    <2>16. TypeOK'
        BY <2>4, <2>5, <2>6, <2>7, <2>10, <2>11, <2>13, <2>14, <2>15
    <2> QED BY <2>4, <2>5, <2>16
<1>5. ASSUME NEW i \in Cpus, CpuSolves(i) PROVE TypeInv'
    <2>1. SubmitBlock({i}, {})
        BY <1>5 DEF CpuSolves
    <2> QED BY <1>5, <2>1, SubmitType DEF CpuSolves
<1>6. ASSUME NEW i \in Cpus, CpuEnds(i) PROVE TypeInv'
    BY <1>6 DEF CpuEnds
<1>7. ASSUME NEW w \in late, LateSolves(w) PROVE TypeInv'
    <2>1. SubmitBlock({}, {})
        BY <1>7 DEF LateSolves
    <2> QED BY <1>7, <2>1, SubmitType DEF LateSolves
<1>8. ASSUME NEW w \in late, LateEnds(w) PROVE TypeInv'
    BY <1>8 DEF LateEnds
<1>9. ASSUME NEW s \in Submits, Submit(s) PROVE TypeInv'
    <2>1. PICK w \in Jobs : submit' = [submit EXCEPT ![s] = w]
        BY <1>9 DEF Submit
    <2>2. w \in 0 .. Len(installed)
        BY DEF Jobs
    <2>3. submit' \in [Submits -> 0 .. Len(installed)]
        BY <2>1, <2>2
    <2>4. UNCHANGED <<candidate, creating, installed, solved, jobId, jobs, cpu, late, stopped, sent>>
        BY <1>9 DEF Submit
    <2> QED BY <2>3, <2>4
<1>10. ASSUME NEW s \in Submits, SubmitEnds(s) PROVE TypeInv'
    BY <1>10 DEF SubmitEnds
<1>11. ASSUME NEW s \in Submits, CompleteWork(s) PROVE TypeInv'
    <2> DEFINE w == submit[s]
    <2>1. w \in 1 .. Len(installed) /\ w \in 1 .. MaxWorks
        BY <1>11 DEF CompleteWork
    <2>2. SubmitBlock({}, {w})
        BY <1>11 DEF CompleteWork
    <2>3. IdOf(w) \in 0 .. MaxJobId
        <3>1. w \in Nat /\ MaxJobId \in Nat
            BY <2>1
        <3>2. w % (MaxJobId + 1) \in 0 .. MaxJobId
            <4> HIDE DEF w
            <4> QED BY <3>1
        <3> QED BY <3>2 DEF IdOf
    <2>4. jobs' = [k \in DOMAIN jobs \cup {IdOf(w)} |-> IF k = IdOf(w) THEN w ELSE jobs[k]]
        BY <1>11 DEF CompleteWork
    <2>5. DOMAIN jobs' \subseteq 0 .. MaxJobId /\ {jobs'[k] : k \in DOMAIN jobs'} \subseteq 1 .. Len(installed)
        <3>1. DOMAIN jobs' \subseteq 0 .. MaxJobId
            BY <2>3, <2>4
        <3>2. ASSUME NEW k \in DOMAIN jobs' PROVE jobs'[k] \in 1 .. Len(installed)
            BY <2>1, <2>4
        <3> QED BY <3>1, <3>2
    <2>6. sent' \in [1 .. MaxWorks -> Nat]
        BY <1>11, <2>1 DEF CompleteWork
    <2>7. UNCHANGED <<candidate, creating, installed, jobId, late>> /\ submit' = [submit EXCEPT ![s] = 0]
        BY <1>11 DEF CompleteWork
    <2>8. /\ solved' \subseteq 1 .. Len(installed) /\ stopped' \subseteq 1 .. Len(installed)
          /\ cpu' \in [Cpus -> {"hashing", "stopped", "ended"}]
          /\ \A i \in Cpus : cpu'[i] # "ended" => cpu[i] # "ended"
        BY <2>1, <2>2, SubmitType
    <2>9. submit' \in [Submits -> 0 .. Len(installed')]
        BY <2>7
    <2>10. TypeOK'
        BY <2>5, <2>6, <2>7, <2>8, <2>9
    <2> QED BY <2>7, <2>8, <2>10
<1>12. CASE UNCHANGED vars
    BY <1>12 DEF vars
<1> QED BY <1>2, <1>3, <1>4, <1>5, <1>6, <1>7, <1>8, <1>9, <1>10, <1>11, <1>12 DEF Next

\* SubmitBlock marks whatever it stops.
LEMMA SolvedStep == ASSUME Inv, [Next]_vars PROVE SolvedInv'
<1>0. TypeInv /\ SolvedInv
    BY DEF Inv
<1>1. ASSUME NEW done, NEW more, more \subseteq 1 .. Len(installed), SubmitBlock(done, more)
      PROVE  solved \subseteq solved' /\ stopped' \subseteq solved' /\ more \subseteq solved'
    BY <1>0, <1>1, SubmitType DEF SolvedInv
<1>2. ASSUME solved \subseteq solved', stopped' \subseteq solved', UNCHANGED sent PROVE SolvedInv'
    BY <1>0, <1>2 DEF SolvedInv
<1>3. ASSUME UNCHANGED <<solved, stopped, sent>> PROVE SolvedInv'
    BY <1>0, <1>3 DEF SolvedInv
<1>4. CASE Candidate \/ Interval \/ Created \/ UNCHANGED vars
    BY <1>3, <1>4 DEF Candidate, Interval, Created, vars, stratum, history
<1>5. ASSUME NEW i \in Cpus, CpuSolves(i) PROVE SolvedInv'
    BY <1>1, <1>2, <1>5 DEF CpuSolves
<1>6. ASSUME NEW i \in Cpus, CpuEnds(i) PROVE SolvedInv'
    BY <1>3, <1>6 DEF CpuEnds, stratum, history
<1>7. ASSUME NEW w \in late, LateSolves(w) PROVE SolvedInv'
    BY <1>1, <1>2, <1>7 DEF LateSolves
<1>8. ASSUME NEW w \in late, LateEnds(w) PROVE SolvedInv'
    BY <1>3, <1>8 DEF LateEnds, stratum, history
<1>9. ASSUME NEW s \in Submits, Submit(s) \/ SubmitEnds(s) PROVE SolvedInv'
    BY <1>3, <1>9 DEF Submit, SubmitEnds, stratum, history
<1>10. ASSUME NEW s \in Submits, CompleteWork(s) PROVE SolvedInv'
    <2> DEFINE w == submit[s]
    <2>1. w \in 1 .. Len(installed) /\ w \in 1 .. MaxWorks
        BY <1>0, <1>10, MiningAssumption DEF CompleteWork, TypeInv, TypeOK
    <2>2. solved \subseteq solved' /\ stopped' \subseteq solved' /\ w \in solved'
        BY <1>1, <1>10, <2>1 DEF CompleteWork
    <2>3. w \notin solved
        BY <1>10 DEF CompleteWork, AlreadySolved
    <2>4. sent[w] = 0
        BY <1>0, <2>1, <2>3 DEF SolvedInv, TypeInv, TypeOK
    <2>5. sent \in [1 .. MaxWorks -> Nat] /\ sent' = [sent EXCEPT ![w] = @ + 1]
        BY <1>0, <1>10 DEF CompleteWork, TypeInv, TypeOK
    <2>6. \A v \in 1 .. MaxWorks : sent'[v] <= 1 /\ (sent'[v] = 1 => v \in solved')
        <3> TAKE v \in 1 .. MaxWorks
        <3>1. CASE v = w
            BY <2>1, <2>2, <2>4, <2>5, <3>1
        <3>2. CASE v # w
            BY <1>0, <2>2, <2>5, <3>2 DEF SolvedInv
        <3> QED BY <3>1, <3>2
    <2> QED BY <2>2, <2>6 DEF SolvedInv
<1> QED BY <1>4, <1>5, <1>6, <1>7, <1>8, <1>9, <1>10 DEF Next

\* The lock of the world state serves in order, and candidates only grow.
LEMMA OrderStep == ASSUME Inv, [Next]_vars PROVE OrderInv'
<1>0. TypeInv /\ OrderInv
    BY DEF Inv
<1>1. /\ creating \in Seq(1 .. MaxCandidates) /\ Len(creating) \in Nat
      /\ installed \in Seq(1 .. MaxCandidates) /\ Len(installed) \in Nat
      /\ candidate \in Nat /\ MaxCandidates \in Nat
    BY <1>0, MiningAssumption DEF TypeInv, TypeOK
<1>2. \A i \in 1 .. Len(creating) : creating[i] \in 1 .. MaxCandidates
    BY <1>1
<1>3. installed # <<>> => installed[Newest] \in 1 .. MaxCandidates
    BY <1>1 DEF Newest
<1>4. ASSUME NEW c \in 1 .. MaxCandidates, c >= candidate, candidate' = c,
             CreateCandidate(c), UNCHANGED installed
      PROVE  OrderInv'
    <2>1. /\ Len(creating') = Len(creating) + 1
          /\ creating'[Len(creating) + 1] = c
          /\ \A i \in 1 .. Len(creating) : creating'[i] = creating[i]
        BY <1>1, <1>4 DEF CreateCandidate
    <2>2. \A i \in 1 .. Len(creating') : i \in 1 .. Len(creating) \/ i = Len(creating')
        BY <1>1, <2>1
    <2>3. \A i \in 1 .. Len(creating') : creating'[i] <= c
        <3> TAKE i \in 1 .. Len(creating')
        <3>1. CASE i \in 1 .. Len(creating)
            <4>1. creating[i] <= candidate
                BY <1>0, <3>1 DEF OrderInv
            <4>2. creating[i] \in Nat /\ c \in Nat
                BY <1>1, <1>2, <3>1
            <4> QED BY <1>1, <1>4, <2>1, <3>1, <4>1, <4>2
        <3>2. CASE i = Len(creating')
            BY <1>1, <2>1, <3>2
        <3> QED BY <2>2, <3>1, <3>2
    <2>4. \A i, j \in 1 .. Len(creating') : i <= j => creating'[i] <= creating'[j]
        <3> SUFFICES ASSUME NEW i \in 1 .. Len(creating'), NEW j \in 1 .. Len(creating'), i <= j
                     PROVE  creating'[i] <= creating'[j]
            OBVIOUS
        <3>1. CASE j \in 1 .. Len(creating)
            <4>1. i \in 1 .. Len(creating)
                BY <1>1, <2>1, <3>1
            <4> QED BY <1>0, <2>1, <3>1, <4>1 DEF OrderInv
        <3>2. CASE j = Len(creating')
            BY <2>1, <2>3, <3>2
        <3> QED BY <2>2, <3>1, <3>2
    <2>5. installed' # <<>> =>
            installed'[Newest'] <= c /\ \A i \in 1 .. Len(creating') : installed'[Newest'] <= creating'[i]
        <3> SUFFICES ASSUME installed # <<>>
                     PROVE  installed[Newest] <= c
                            /\ \A i \in 1 .. Len(creating') : installed[Newest] <= creating'[i]
            BY <1>4 DEF Newest
        <3>1. installed[Newest] <= c
            BY <1>0, <1>1, <1>3, <1>4 DEF OrderInv
        <3> QED BY <1>0, <2>1, <2>2, <3>1 DEF OrderInv
    <2> QED BY <1>4, <2>3, <2>4, <2>5 DEF OrderInv
<1>5. CASE Candidate
    <2>1. candidate + 1 \in 1 .. MaxCandidates /\ candidate' = candidate + 1
        BY <1>1, <1>5 DEF Candidate
    <2> QED BY <1>1, <1>4, <1>5, <2>1 DEF Candidate
<1>6. CASE Interval
    <2>1. candidate \in 1 .. MaxCandidates
        BY <1>0, <1>6 DEF Interval, IntervalRuns, TypeInv, TypeOK
    <2> QED BY <1>1, <1>4, <1>6, <2>1 DEF Interval
<1>7. CASE Created
    <2>1. creating # <<>> /\ creating' = RemoveAt(creating, 1)
          /\ installed' = Append(installed, creating[1]) /\ candidate' = candidate
        BY <1>7 DEF Created, FirstInLine
    <2>2. /\ Len(creating') = Len(creating) - 1
          /\ \A i \in 1 .. Len(creating) - 1 : creating'[i] = creating[i + 1]
        BY <1>1, <2>1, RemoveFirstInLine
    <2>3. Len(creating) >= 1 /\ 1 \in 1 .. Len(creating)
        BY <1>1, <2>1
    <2>4. Newest' = Len(installed) + 1 /\ installed'[Newest'] = creating[1]
        BY <1>1, <1>2, <2>1, <2>3, AppendProperties DEF Newest
    <2>5. \A i \in 1 .. Len(creating') : i \in Nat /\ i + 1 \in 1 .. Len(creating) /\ 1 <= i + 1 /\ creating'[i] = creating[i + 1]
        BY <1>1, <2>2, <2>3
    <2>6. \A i, j \in 1 .. Len(creating') : i <= j => creating'[i] <= creating'[j]
        <3> SUFFICES ASSUME NEW i \in 1 .. Len(creating'), NEW j \in 1 .. Len(creating'), i <= j
                     PROVE  creating'[i] <= creating'[j]
            OBVIOUS
        <3>1. i + 1 <= j + 1
            BY <2>5
        <3> QED BY <1>0, <2>5, <3>1 DEF OrderInv
    <2>7. \A i \in 1 .. Len(creating') : creating'[i] <= candidate' /\ creating[1] <= creating'[i]
        BY <1>0, <2>1, <2>3, <2>5 DEF OrderInv
    <2>8. creating[1] <= candidate'
        BY <1>0, <2>1, <2>3 DEF OrderInv
    <2> QED BY <2>4, <2>6, <2>7, <2>8 DEF OrderInv
<1>8. ASSUME UNCHANGED <<creating, installed, candidate>> PROVE OrderInv'
    BY <1>0, <1>8 DEF OrderInv, Newest
<1>9. CASE UNCHANGED vars
    BY <1>8, <1>9 DEF vars
<1>10. ASSUME NEW i \in Cpus, CpuSolves(i) \/ CpuEnds(i) PROVE OrderInv'
    BY <1>8, <1>10 DEF CpuSolves, CpuEnds
<1>11. ASSUME NEW w \in late, LateSolves(w) \/ LateEnds(w) PROVE OrderInv'
    BY <1>8, <1>11 DEF LateSolves, LateEnds
<1>12. ASSUME NEW s \in Submits, Submit(s) \/ SubmitEnds(s) \/ CompleteWork(s) PROVE OrderInv'
    BY <1>8, <1>12 DEF Submit, SubmitEnds, CompleteWork
<1> QED BY <1>5, <1>6, <1>7, <1>9, <1>10, <1>11, <1>12 DEF Next

THEOREM Invariance == Spec => []Inv
<1>1. Init => Inv
    BY InitInv
<1>2. Inv /\ [Next]_vars => Inv'
    BY TypeStep, SolvedStep, OrderStep DEF Inv
<1> QED BY <1>1, <1>2, PTL DEF Spec

-----------------------------------------------------------------------------

\* Whatever clients find at the same time for a job, one block of it is submitted
\* (completeWork).
THEOREM SubmitsOnce == Spec => []JobIsSubmittedOnce
<1>1. Inv => JobIsSubmittedOnce
    BY DEF Inv, TypeInv, TypeOK, SolvedInv, JobIsSubmittedOnce
<1> QED BY <1>1, Invariance, PTL

\* A hash awaited while the mining was stopped leads to no submission (stop).
THEOREM StoppedIsSilent == Spec => StoppedJobsStaySilent
<1>1. Inv /\ [Next]_vars => [\A w \in stopped : sent'[w] = sent[w]]_vars
    <2> SUFFICES ASSUME Inv, Next, NEW w \in stopped
                 PROVE  sent'[w] = sent[w]
        BY DEF vars
    <2>1. w \in solved
        BY DEF Inv, SolvedInv
    <2>2. ASSUME NEW s \in Submits, CompleteWork(s) PROVE sent'[w] = sent[w]
        BY <2>1, <2>2 DEF CompleteWork, AlreadySolved, Inv, TypeInv, TypeOK
    <2>3. CASE UNCHANGED sent
        BY <2>3
    <2>4. UNCHANGED sent \/ \E s \in Submits : CompleteWork(s)
        BY DEF Next, Candidate, Interval, Created, CpuSolves, CpuEnds, LateSolves, LateEnds,
               Submit, SubmitEnds, history
    <2> QED BY <2>2, <2>3, <2>4
<1> QED BY <1>1, Invariance, PTL DEF Spec, StoppedJobsStaySilent

\* Builds that end late never bring back an older candidate (createCandidate).
THEOREM WorkIsNewest == Spec => WorkFollowsCandidate
<1>1. Inv /\ [Next]_vars =>
        [Newest' > Newest /\ Newest > 0 => installed'[Newest'] >= installed[Newest]]_vars
    <2> SUFFICES ASSUME Inv, Next, Newest' > Newest, Newest > 0
                 PROVE  installed'[Newest'] >= installed[Newest]
        BY DEF vars
    <2>1. UNCHANGED installed \/ Created
        BY DEF Next, Candidate, Interval, CpuSolves, CpuEnds, LateSolves, LateEnds,
               Submit, SubmitEnds, CompleteWork
    <2>2. installed \in Seq(1 .. MaxCandidates) /\ Len(installed) \in Nat
        BY DEF Inv, TypeInv, TypeOK
    <2>3. ~ UNCHANGED installed /\ installed # <<>>
        BY <2>2 DEF Newest
    <2>4. Created
        BY <2>1, <2>3
    <2>5. creating # <<>> /\ creating \in Seq(1 .. MaxCandidates)
          /\ installed' = Append(installed, creating[1])
        BY <2>4 DEF Created, FirstInLine, Inv, TypeInv, TypeOK
    <2>6. 1 \in 1 .. Len(creating) /\ creating[1] \in 1 .. MaxCandidates
        <3>1. Len(creating) \in Nat \ {0}
            BY <2>5, EmptySeq
        <3>2. 1 \in 1 .. Len(creating)
            BY <3>1
        <3> QED BY <2>5, <3>2, ElementOfSeq
    <2>7. installed'[Newest'] = creating[1]
        BY <2>2, <2>5, <2>6, AppendProperties DEF Newest
    <2>8. /\ Newest \in 1 .. Len(installed) /\ installed[Newest] \in 1 .. MaxCandidates
          /\ installed[Newest] <= creating[1]
        <3>1. Newest \in 1 .. Len(installed)
            BY <2>2 DEF Newest
        <3>2. installed[Newest] <= creating[1]
            BY <2>3, <2>6 DEF Inv, OrderInv
        <3>3. installed[Newest] \in 1 .. MaxCandidates
            BY <2>2, <3>1, ElementOfSeq
        <3> QED BY <3>1, <3>2, <3>3
    <2>9. MaxCandidates \in Nat
        BY MiningAssumption
    <2> QED BY <2>6, <2>7, <2>8, <2>9
<1> QED BY <1>1, Invariance, PTL DEF Spec, WorkFollowsCandidate
=============================================================================
